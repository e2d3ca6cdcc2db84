-------------------------- MODULE TradeEngineProofs --------------------------
(***************************************************************************)
(* TradeEngine for every plan, every exchange it may meet and any number   *)
(* of things gone wrong: no fill is booked that the venue did not make,    *)
(* none that is booked is lost again, the plan is sold once where its      *)
(* entry is filled whole or not at all, no second stop and no second       *)
(* target rests beside the first unless a list of open orders missed one,  *)
(* and the records and the venue stay what they are typed to be.           *)
(***************************************************************************)
EXTENDS TradeEngine, FiniteSetTheorems, SequenceTheorems, TLAPS

-----------------------------------------------------------------------------
(* Sums over a finite set *)

\* Two functions summed over the same set, of which the folds take one element
\* more, and what is known of the one sum from the other.
AddOne(p, x, n) == p.one[x] + n
AddTwo(p, x, n) == p.two[x] + n

Compared(p, S, a, b) ==
    (\A x \in S : p.one[x] \in Int /\ p.two[x] \in Int) =>
      /\ a \in Int /\ b \in Int
      /\ (\A x \in S : p.one[x] = 0) => a = 0
      /\ \A t \in S :
           (\A x \in S \ {t} : p.two[x] = p.one[x]) => b = a + p.two[t] - p.one[t]
      /\ (\A x \in S : p.two[x] = p.one[x]) => b = a
      /\ (\A x \in S : p.one[x] <= p.two[x]) =>
           a <= b /\ \A t \in S : p.two[t] - p.one[t] <= b - a

Adding == INSTANCE Folding WITH One <- AddOne, Two <- AddTwo, Good <- Compared

LEMMA SumsAreFolds ==
    ASSUME NEW p
    PROVE  /\ SumFunction(p.one) = Adding!FoldOne(p, 0, DOMAIN p.one)
           /\ SumFunction(p.two) = Adding!FoldTwo(p, 0, DOMAIN p.two)
BY DEF SumFunction, SumFunctionOnSet, FoldFunctionOnSet, MapThenFoldSet, Adding!FoldOne,
  Adding!FoldTwo, Adding!FoldSet, Adding!MapThenFoldSet, AddOne, AddTwo

\* An element more of both sums.
LEMMA OneMore ==
    ASSUME NEW p, NEW s, NEW y \in s, NEW a, NEW b, Compared(p, s \ {y}, a, b)
    PROVE  Compared(p, s, AddOne(p, y, a), AddTwo(p, y, b))
<1> SUFFICES ASSUME \A x \in s : p.one[x] \in Int /\ p.two[x] \in Int
             PROVE  Compared(p, s, AddOne(p, y, a), AddTwo(p, y, b))
  BY DEF Compared
<1> DEFINE f == p.one
           g == p.two
<1>1. /\ a \in Int /\ b \in Int
      /\ (\A x \in s \ {y} : f[x] = 0) => a = 0
      /\ \A t \in s \ {y} :
           (\A x \in (s \ {y}) \ {t} : g[x] = f[x]) => b = a + g[t] - f[t]
      /\ (\A x \in s \ {y} : g[x] = f[x]) => b = a
      /\ (\A x \in s \ {y} : f[x] <= g[x]) =>
           a <= b /\ \A t \in s \ {y} : g[t] - f[t] <= b - a
  BY DEF Compared
<1>2. \A x \in s : f[x] \in Int /\ g[x] \in Int
  OBVIOUS
<1> SUFFICES /\ f[y] + a \in Int /\ g[y] + b \in Int
             /\ (\A x \in s : f[x] = 0) => f[y] + a = 0
             /\ \A t \in s :
                  (\A x \in s \ {t} : g[x] = f[x]) => g[y] + b = f[y] + a + g[t] - f[t]
             /\ (\A x \in s : g[x] = f[x]) => g[y] + b = f[y] + a
             /\ (\A x \in s : f[x] <= g[x]) =>
                  /\ f[y] + a <= g[y] + b
                  /\ \A t \in s : g[t] - f[t] <= (g[y] + b) - (f[y] + a)
  BY DEF Compared, AddOne, AddTwo
<1> HIDE DEF f, g
<1>3. f[y] + a \in Int /\ g[y] + b \in Int
  BY <1>1, <1>2
<1>4. (\A x \in s : f[x] = 0) => f[y] + a = 0
  BY <1>1
<1>5. ASSUME NEW t \in s, \A x \in s \ {t} : g[x] = f[x]
      PROVE  g[y] + b = f[y] + a + g[t] - f[t]
  <2>1. CASE t = y
    BY <1>1, <1>2, <1>5, <2>1
  <2>2. CASE t # y
    <3>1. b = a + g[t] - f[t] /\ g[y] = f[y]
      BY <1>1, <1>5, <2>2
    <3> QED
      BY <1>1, <1>2, <3>1
  <2> QED
    BY <2>1, <2>2
<1>6. (\A x \in s : g[x] = f[x]) => g[y] + b = f[y] + a
  BY <1>1
<1>7. ASSUME \A x \in s : f[x] <= g[x]
      PROVE  /\ f[y] + a <= g[y] + b
             /\ \A t \in s : g[t] - f[t] <= (g[y] + b) - (f[y] + a)
  <2>1. a <= b /\ f[y] <= g[y]
    BY <1>1, <1>7
  <2>2. \A t \in s \ {y} : g[t] - f[t] <= b - a
    BY <1>1, <1>7
  <2>3. \A t \in s : g[t] - f[t] <= (g[y] + b) - (f[y] + a)
    <3> TAKE t \in s
    <3>1. CASE t = y
      BY <1>1, <1>2, <2>1, <3>1
    <3>2. CASE t # y
      BY <1>1, <1>2, <2>1, <2>2, <3>2
    <3> QED
      BY <3>1, <3>2
  <2> QED
    BY <1>1, <1>2, <2>1, <2>3
<1> QED
  BY <1>3, <1>4, <1>5, <1>6, <1>7

\* So it is of the sums of two functions on a finite set.
LEMMA SumsCompared ==
    ASSUME NEW S, IsFiniteSet(S), NEW f, NEW g, DOMAIN f = S, DOMAIN g = S,
           \A x \in S : f[x] \in Int /\ g[x] \in Int
    PROVE  /\ SumFunction(f) \in Int /\ SumFunction(g) \in Int
           /\ (\A x \in S : f[x] = 0) => SumFunction(f) = 0
           /\ \A t \in S : (\A x \in S \ {t} : g[x] = f[x]) =>
                SumFunction(g) = SumFunction(f) + g[t] - f[t]
           /\ (\A x \in S : f[x] <= g[x]) =>
                /\ SumFunction(f) <= SumFunction(g)
                /\ \A t \in S : g[t] - f[t] <= SumFunction(g) - SumFunction(f)
<1> DEFINE p == [one |-> f, two |-> g]
<1>1. p.one = f /\ p.two = g
  OBVIOUS
<1> HIDE DEF p
<1>2. IsFiniteSet(S) <=> Adding!IsFiniteSet(S)
  BY DEF IsFiniteSet, Adding!IsFiniteSet
<1>3. Compared(p, {}, 0, 0)
  BY DEF Compared
<1>4. \A s \in SUBSET S : \A x \in s : \A t, u :
        Compared(p, s \ {x}, t, u) => Compared(p, s, AddOne(p, x, t), AddTwo(p, x, u))
  BY OneMore
<1>5. Compared(p, S, Adding!FoldOne(p, 0, S), Adding!FoldTwo(p, 0, S))
  BY <1>2, <1>3, <1>4, Adding!FoldTogether
<1>6. Compared(p, S, SumFunction(f), SumFunction(g))
  BY <1>1, <1>5, SumsAreFolds
<1> QED
  BY <1>1, <1>6 DEF Compared

-----------------------------------------------------------------------------
(* The books of a record, and the venue they are kept of *)

\* The venue knows what it has filled of every order, and an order it has not
\* accepted has filled nothing.
Sound(v) ==
    /\ "order" \in DOMAIN v
    /\ \A o \in Order :
         /\ {"status", "filled"} \subseteq DOMAIN v.order[o]
         /\ v.order[o].filled \in Nat
         /\ v.order[o].status = "none" => v.order[o].filled = 0

\* No order of w has filled less than it has in v.
Grows(v, w) ==
    /\ Sound(w)
    /\ \A o \in Order : v.order[o].filled <= w.order[o].filled

HasBooks(s) == "booked" \in DOMAIN s /\ s.booked \in [Order -> Int]

\* Every fill the record has booked is one the venue made.
Backed(v, s) ==
    HasBooks(s) /\ \A o \in Order : s.booked[o] <= v.order[o].filled

\* The record t has every fill that s has.
AtLeast(t, s) == \A o \in Order : s.booked[o] <= t.booked[o]

\* The events that are no fill leave the books as they are.
SameBooks(t, s) == HasBooks(t) /\ t.booked = s.booked

LEMMA EventsKeepBooks ==
    ASSUME NEW s, HasBooks(s)
    PROVE  /\ SameBooks(Aborted(s), s) /\ SameBooks(EntrySubmitted(s), s)
           /\ SameBooks(EntrySubmitUnknown(s), s)
           /\ \A waiting : SameBooks(Opens(s, waiting), s)
           /\ SameBooks(EntryCancelled(s), s)
           /\ \A role : SameBooks(WonBy(s, role), s) /\ SameBooks(SiblingCancelled(s, role), s)
           /\ \A p, q, n : SameBooks(ProtectionPlaced(s, p, q, n), s)
           /\ \A b : SameBooks(ProtectionFailed(s, b), s)
           /\ \A c : SameBooks(ExitSubmitted(s, c), s)
           /\ \A n : SameBooks(Reconciled(s, n), s)
<1> USE DEF SameBooks, HasBooks
<1>1. SameBooks(Aborted(s), s) /\ SameBooks(EntrySubmitted(s), s)
      /\ SameBooks(EntrySubmitUnknown(s), s)
  BY DEF Aborted, EntrySubmitted, EntrySubmitUnknown
<1>2. \A waiting : SameBooks(Opens(s, waiting), s)
  BY DEF Opens
<1>3. SameBooks(EntryCancelled(s), s)
  BY <1>1, <1>2 DEF EntryCancelled
<1>4. \A role : SameBooks(WonBy(s, role), s) /\ SameBooks(SiblingCancelled(s, role), s)
  BY DEF WonBy, SiblingCancelled
<1>5. \A p, q, n : SameBooks(ProtectionPlaced(s, p, q, n), s)
  BY DEF ProtectionPlaced
<1>6. \A b : SameBooks(ProtectionFailed(s, b), s)
  BY DEF ProtectionFailed
<1>7. \A c : SameBooks(ExitSubmitted(s, c), s)
  BY DEF ExitSubmitted
<1>8. \A n : SameBooks(Reconciled(s, n), s)
  BY DEF Reconciled
<1> QED
  BY <1>1, <1>2, <1>3, <1>4, <1>5, <1>6, <1>7, <1>8

\* A fill is booked under its order, whatever else it does to the trade.
LEMMA FillBooks ==
    ASSUME NEW s, HasBooks(s), NEW o, NEW n
    PROVE  /\ "booked" \in DOMAIN Fill(s, o, n)
           /\ Fill(s, o, n).booked = [s.booked EXCEPT ![o] = @ + n]
<1> DEFINE Booked(w) == /\ "booked" \in DOMAIN w
                        /\ w.booked = [s.booked EXCEPT ![o] = @ + n]
           entry == s.entrySize + IF o \in Entries THEN n ELSE 0
           exit == s.exitSize + IF o \in Entries THEN 0 ELSE n
           t == [s EXCEPT !.booked[o] = @ + n, !.entrySize = entry,
                          !.exitSize = exit, !.position = exit - entry]
<1>1. Booked(t)
  <2>1. \A b, p, q, r :
          LET w == [s EXCEPT !.booked = b, !.entrySize = p, !.exitSize = q, !.position = r]
          IN "booked" \in DOMAIN w /\ w.booked = b
    BY DEF HasBooks
  <2> DEFINE b == [s.booked EXCEPT ![o] = @ + n]
  <2>2. t = [s EXCEPT !.booked = b, !.entrySize = entry, !.exitSize = exit,
                      !.position = exit - entry]
    OBVIOUS
  <2> HIDE DEF b, entry, exit
  <2>3. "booked" \in DOMAIN t /\ t.booked = b
    BY <2>1, <2>2
  <2> QED
    BY <2>3 DEF b
<1>2. Fill(s, o, n) = IF o \in Entries
                        THEN Opens(t, {"entry_pending", "entry_unknown", "precheck"})
                        ELSE ExitFill(t, IF o \in Closes THEN "manual" ELSE o[1])
  BY DEF Fill
<1> HIDE DEF t
<1>3. \A waiting : Booked(Opens(t, waiting))
  BY <1>1 DEF Opens
<1>4. \A role : Booked(ExitFill(t, role))
  <2> TAKE role
  <2>1. Booked(WonBy(t, role))
    BY <1>1 DEF WonBy
  <2>2. /\ Booked([t EXCEPT !.closing = None, !.phase = "position_open"])
        /\ Booked([t EXCEPT !.winner = IF @ # None THEN @ ELSE "manual",
                            !.phase = "exit_pending"])
    BY <1>1
  <2> HIDE DEF Booked
  <2> QED
    BY <1>1, <2>1, <2>2 DEF ExitFill
<1>5. Booked(Fill(s, o, n))
  <2> HIDE DEF Booked
  <2> QED
    BY <1>2, <1>3, <1>4
<1> QED
  BY <1>5

\* absorb() books what the order filled and the record does not have: all of
\* it, and no more.
LEMMA AbsorbBooks ==
    ASSUME NEW v, Sound(v), NEW s, Backed(v, s), NEW o
    PROVE  Backed(v, AbsorbOf(v, s, o)) /\ AtLeast(AbsorbOf(v, s, o), s)
<1> DEFINE fresh == v.order[o].filled - s.booked[o]
           t == IF fresh > 0 THEN Fill(s, o, fresh) ELSE s
<1>1. HasBooks(s)
  BY DEF Backed
<1>2. HasBooks(t) /\ \A p \in Order : /\ s.booked[p] <= t.booked[p]
                                      /\ t.booked[p] <= v.order[p].filled
  <2>1. CASE o \notin Order
    <3>1. CASE fresh > 0
      <4>1. /\ "booked" \in DOMAIN Fill(s, o, fresh)
            /\ Fill(s, o, fresh).booked = [s.booked EXCEPT ![o] = @ + fresh]
        <5> HIDE DEF fresh, t
        <5> QED
          BY <1>1, FillBooks
      <4>2. t = Fill(s, o, fresh)
        BY <3>1
      <4> HIDE DEF t, fresh
      <4>3. [s.booked EXCEPT ![o] = @ + fresh] = s.booked
        BY <1>1, <2>1 DEF HasBooks
      <4> QED
        BY <1>1, <4>1, <4>2, <4>3 DEF Backed, HasBooks
    <3>2. CASE ~(fresh > 0)
      BY <1>1, <3>2 DEF Backed, HasBooks
    <3> QED
      BY <3>1, <3>2
  <2>2. CASE o \in Order
    <3>1. /\ s.booked \in [Order -> Int] /\ s.booked[o] \in Int /\ v.order[o].filled \in Int
          /\ fresh \in Int
      BY <1>1, <2>2 DEF HasBooks, Sound
    <3>2. CASE fresh > 0
      <4>0. /\ "booked" \in DOMAIN Fill(s, o, fresh)
            /\ Fill(s, o, fresh).booked = [s.booked EXCEPT ![o] = @ + fresh]
        <5> HIDE DEF fresh, t
        <5> QED
          BY <1>1, FillBooks
      <4>1. HasBooks(t) /\ t.booked = [s.booked EXCEPT ![o] = @ + fresh]
        <5>1. [s.booked EXCEPT ![o] = @ + fresh] \in [Order -> Int]
          BY <2>2, <3>1
        <5>2. t = Fill(s, o, fresh)
          BY <3>2
        <5> HIDE DEF t, fresh
        <5> QED
          BY <4>0, <5>1, <5>2 DEF HasBooks
      <4>2. \A p \in Order : t.booked[p] = IF p = o THEN v.order[o].filled ELSE s.booked[p]
        BY <2>2, <3>1, <4>1
      <4> HIDE DEF t
      <4> QED
        BY <3>1, <3>2, <4>1, <4>2 DEF Backed
    <3>3. CASE ~(fresh > 0)
      BY <3>1, <3>3 DEF Backed
    <3> QED
      BY <3>2, <3>3
  <2> QED
    BY <2>1, <2>2
<1>3. AbsorbOf(v, s, o) = t \/ AbsorbOf(v, s, o) = Aborted(t)
  BY DEF AbsorbOf, Absorb
<1> HIDE DEF t
<1>4. SameBooks(Aborted(t), t)
  BY <1>2, EventsKeepBooks
<1> QED
  BY <1>2, <1>3, <1>4 DEF Backed, AtLeast, SameBooks

\* What is backed stays backed as the venue goes on.
LEMMA BackedStays ==
    ASSUME NEW v, NEW w, NEW s, Sound(v), Grows(v, w), Backed(v, s)
    PROVE  Backed(w, s)
<1>1. \A o \in Order : /\ s.booked[o] \in Int /\ s.booked[o] <= v.order[o].filled
                       /\ v.order[o].filled <= w.order[o].filled
                       /\ v.order[o].filled \in Int /\ w.order[o].filled \in Int
  BY DEF Sound, Grows, Backed, HasBooks
<1>2. \A o \in Order : s.booked[o] <= w.order[o].filled
  BY <1>1
<1> QED
  BY <1>2 DEF Backed

LEMMA GrowsOn ==
    /\ \A v : Sound(v) => Grows(v, v)
    /\ \A u, v, w : Sound(u) /\ Grows(u, v) /\ Grows(v, w) => Grows(u, w)
<1>1. ASSUME NEW v, Sound(v) PROVE Grows(v, v)
  BY <1>1 DEF Sound, Grows
<1>2. ASSUME NEW u, NEW v, NEW w, Sound(u), Grows(u, v), Grows(v, w) PROVE Grows(u, w)
  <2>1. \A o \in Order : /\ u.order[o].filled \in Int /\ v.order[o].filled \in Int
                         /\ w.order[o].filled \in Int
                         /\ u.order[o].filled <= v.order[o].filled
                         /\ v.order[o].filled <= w.order[o].filled
    BY <1>2 DEF Sound, Grows
  <2>2. \A o \in Order : u.order[o].filled <= w.order[o].filled
    BY <2>1
  <2> QED
    BY <1>2, <2>2 DEF Grows
<1> QED
  BY <1>1, <1>2

-----------------------------------------------------------------------------
(* What the venue does to an order *)

LEMMA WithGrows ==
    ASSUME NEW v, Sound(v), NEW o, NEW s, {"status", "filled"} \subseteq DOMAIN s,
           o \in Order => /\ s.filled \in Nat /\ v.order[o].filled <= s.filled
                          /\ s.status = "none" => s.filled = 0
    PROVE  /\ Grows(v, With(v, o, s))
           /\ \A p \in Order : With(v, o, s).order[p] = IF p = o THEN s ELSE v.order[p]
<1>1. /\ "order" \in DOMAIN With(v, o, s)
      /\ \A p \in Order : With(v, o, s).order[p] = IF p = o THEN s ELSE v.order[p]
  BY DEF With, Sound
<1>2. \A p \in Order : LET q == With(v, o, s).order[p]
                       IN /\ {"status", "filled"} \subseteq DOMAIN q
                          /\ q.filled \in Nat /\ v.order[p].filled <= q.filled
                          /\ q.status = "none" => q.filled = 0
  <2> TAKE p \in Order
  <2>1. CASE p = o
    BY <1>1, <2>1
  <2>2. CASE p # o
    <3>1. With(v, o, s).order[p] = v.order[p]
      BY <1>1, <2>2
    <3> QED
      BY <3>1 DEF Sound
  <2> QED
    BY <2>1, <2>2
<1> QED
  BY <1>1, <1>2 DEF Grows, Sound

\* An order that is none of the trade's is no matter.
LEMMA WithElsewhere ==
    ASSUME NEW v, Sound(v), NEW o, o \notin Order, NEW s
    PROVE  Grows(v, With(v, o, s))
<1>1. /\ "order" \in DOMAIN With(v, o, s)
      /\ \A p \in Order : With(v, o, s).order[p] = v.order[p]
  BY DEF With, Sound
<1> QED
  BY <1>1 DEF Grows, Sound

\* Cancelled, refused, moved or accepted, an order keeps what it has filled.
LEMMA SettleGrows ==
    ASSUME NEW v, Sound(v), NEW o, NEW status \in {"over", "rejected"}
    PROVE  Grows(v, Settle(v, o, status))
<1>1. CASE ~Resting(v, o)
  BY <1>1, GrowsOn DEF Settle
<1>2. CASE Resting(v, o) /\ o \in Order
  <2> DEFINE s == [v.order[o] EXCEPT !.status = status]
  <2>1. /\ {"status", "filled"} \subseteq DOMAIN s /\ s.filled = v.order[o].filled
        /\ s.filled \in Nat /\ s.status # "none" /\ v.order[o].filled <= s.filled
    BY <1>2 DEF Sound
  <2>2. Settle(v, o, status) = With(v, o, s)
    BY <1>2 DEF Settle
  <2> HIDE DEF s
  <2> QED
    BY <2>1, <2>2, WithGrows
<1>3. CASE Resting(v, o) /\ o \notin Order
  BY <1>3, WithElsewhere DEF Settle
<1> QED
  BY <1>1, <1>2, <1>3

LEMMA EditGrows ==
    ASSUME NEW v, Sound(v), NEW o, NEW size
    PROVE  Grows(v, Edit(v, o, size))
<1>1. CASE o \in Order
  <2> DEFINE s == [v.order[o] EXCEPT !.size = size]
  <2>1. /\ {"status", "filled"} \subseteq DOMAIN s
        /\ s.filled = v.order[o].filled /\ s.status = v.order[o].status
    BY <1>1 DEF Sound
  <2>2. s.filled \in Nat /\ v.order[o].filled <= s.filled /\ (s.status = "none" => s.filled = 0)
    BY <1>1, <2>1 DEF Sound
  <2> HIDE DEF s
  <2>3. Edit(v, o, size) = With(v, o, s)
    BY DEF Edit, s
  <2> QED
    BY <2>1, <2>2, <2>3, WithGrows
<1>2. CASE o \notin Order
  BY <1>2, WithElsewhere DEF Edit
<1> QED
  BY <1>1, <1>2

LEMMA AcceptGrows ==
    ASSUME NEW v, Sound(v), NEW o, NEW size
    PROVE  Grows(v, Accept(v, o, size))
<1>1. CASE Known(v, o)
  BY <1>1, GrowsOn DEF Accept
<1>2. CASE ~Known(v, o) /\ o \in Order
  <2> DEFINE s == [status |-> "open", size |-> size, filled |-> 0]
  <2>1. /\ {"status", "filled"} \subseteq DOMAIN s
        /\ s.filled \in Nat /\ v.order[o].filled <= s.filled /\ s.status # "none"
    BY <1>2 DEF Sound, Known
  <2>2. Accept(v, o, size) = With(v, o, s)
    BY <1>2 DEF Accept
  <2> HIDE DEF s
  <2> QED
    BY <2>1, <2>2, WithGrows
<1>3. CASE ~Known(v, o) /\ o \notin Order
  BY <1>3, WithElsewhere DEF Accept
<1> QED
  BY <1>1, <1>2, <1>3

LEMMA FillsGrows ==
    ASSUME NEW v, Sound(v), NEW o, NEW n \in Nat
    PROVE  Grows(v, Fills(v, o, n))
<1> DEFINE was == v.order[o]
           now == [was EXCEPT !.filled = @ + n,
                              !.status = IF was.filled + n >= was.size THEN "over" ELSE "open"]
           w == With(v, o, now)
<1>1. Grows(v, w)
  <2>1. CASE o \in Order
    <3>1. /\ {"status", "filled"} \subseteq DOMAIN now /\ now.status # "none"
          /\ now.filled = v.order[o].filled + n
      BY <2>1 DEF Sound
    <3>2. v.order[o].filled \in Nat
      BY <2>1 DEF Sound
    <3> HIDE DEF now
    <3>3. now.filled \in Nat /\ v.order[o].filled <= now.filled
      BY <3>1, <3>2
    <3> QED
      BY <3>1, <3>3, WithGrows
  <2>2. CASE o \notin Order
    BY <2>2, WithElsewhere
  <2> QED
    BY <2>1, <2>2
<1>2. \A m : /\ "order" \in DOMAIN [w EXCEPT !.net = m] /\ [w EXCEPT !.net = m].order = w.order
  <2> HIDE DEF w
  <2> QED
    BY <1>1 DEF Grows, Sound
<1>3. \E m : Fills(v, o, n) = [w EXCEPT !.net = m]
  BY DEF Fills
<1>4. \A m : Grows(v, [w EXCEPT !.net = m])
  <2> HIDE DEF w
  <2> QED
    BY <1>1, <1>2 DEF Grows, Sound
<1> HIDE DEF w
<1> QED
  BY <1>3, <1>4

LEMMA OutcomesGrow ==
    ASSUME NEW v, Sound(v), NEW o, NEW size
    PROVE  /\ \A w \in MarketOutcomes(v, o, size) : Grows(v, w)
           /\ \A w \in LimitOutcomes(v, o, size) : Grows(v, w)
           /\ Grows(v, Unfilled(v, o, size)) /\ Grows(v, Cancel(v, o))
<1> DEFINE a == Accept(v, o, size)
<1>1. Grows(v, v) /\ Grows(v, a) /\ Sound(a)
  BY AcceptGrows, GrowsOn DEF Grows
<1>2. \A n \in Nat : Grows(v, Fills(a, o, n)) /\ Sound(Fills(a, o, n))
  BY <1>1, FillsGrows, GrowsOn DEF Grows
<1>3. \A n \in Nat : Grows(v, Cancel(Fills(a, o, n), o))
  <2> TAKE n \in Nat
  <2>1. Grows(Fills(a, o, n), Cancel(Fills(a, o, n), o))
    BY <1>2, SettleGrows DEF Cancel
  <2> QED
    BY <1>2, <2>1, GrowsOn
<1>4. ASSUME NEW w \in MarketOutcomes(v, o, size) PROVE Grows(v, w)
  <2>1. \/ w = v
        \/ \E n \in 1 .. size : w = Fills(a, o, n) \/ w = Cancel(Fills(a, o, n), o)
    BY <1>4 DEF MarketOutcomes
  <2> HIDE DEF a
  <2> QED
    BY <1>1, <1>2, <1>3, <2>1
<1>5. ASSUME NEW w \in LimitOutcomes(v, o, size) PROVE Grows(v, w)
  <2>1. \/ w = v \/ w = a
        \/ \E n \in 1 .. Fillable(a, o) : w = Fills(a, o, n)
    BY <1>5 DEF LimitOutcomes
  <2> HIDE DEF a
  <2> QED
    BY <1>1, <1>2, <2>1
<1>6. Grows(v, Unfilled(v, o, size))
  <2>1. Unfilled(v, o, size) = v \/ Unfilled(v, o, size) = Settle(a, o, "rejected")
    BY DEF Unfilled
  <2> HIDE DEF a
  <2>2. Grows(a, Settle(a, o, "rejected"))
    BY <1>1, SettleGrows
  <2> QED
    BY <1>1, <2>1, <2>2, GrowsOn
<1>7. Grows(v, Cancel(v, o))
  BY SettleGrows DEF Cancel
<1> QED
  BY <1>4, <1>5, <1>6, <1>7

LEMMA CancelAllGrows ==
    ASSUME NEW v, Sound(v), NEW orders
    PROVE  Grows(v, CancelAll(v, orders))
<1>1. /\ "order" \in DOMAIN CancelAll(v, orders)
      /\ \A o \in Order : CancelAll(v, orders).order[o] =
           IF o \in orders /\ Resting(v, o) THEN [v.order[o] EXCEPT !.status = "over"]
           ELSE v.order[o]
  BY DEF CancelAll, Sound
<1>2. \A o \in Order : LET q == CancelAll(v, orders).order[o]
                       IN /\ {"status", "filled"} \subseteq DOMAIN q
                          /\ q.filled = v.order[o].filled
                          /\ q.status = "none" => v.order[o].status = "none"
  <2> TAKE o \in Order
  <2>1. {"status", "filled"} \subseteq DOMAIN v.order[o]
    BY DEF Sound
  <2>2. CASE o \in orders /\ Resting(v, o)
    <3>1. CancelAll(v, orders).order[o] = [v.order[o] EXCEPT !.status = "over"]
      BY <1>1, <2>2
    <3> QED
      BY <2>1, <3>1
  <2>3. CASE ~(o \in orders /\ Resting(v, o))
    <3>1. CancelAll(v, orders).order[o] = v.order[o]
      BY <1>1, <2>3
    <3> QED
      BY <2>1, <3>1
  <2> QED
    BY <2>2, <2>3
<1>3. \A o \in Order : v.order[o].filled \in Nat /\ (v.order[o].status = "none" => v.order[o].filled = 0)
  BY DEF Sound
<1> HIDE DEF CancelAll
<1> QED
  BY <1>1, <1>2, <1>3 DEF Grows, Sound

-----------------------------------------------------------------------------
(* What a reading of the venue books *)

LEMMA AtLeastIsOrder ==
    ASSUME NEW r, HasBooks(r)
    PROVE  /\ AtLeast(r, r)
           /\ \A s, t : HasBooks(s) /\ HasBooks(t) /\ AtLeast(t, s) /\ AtLeast(s, r)
                => AtLeast(t, r)
           /\ \A t : SameBooks(t, r) => AtLeast(t, r)
    BY DEF HasBooks, AtLeast, SameBooks

\* What recoverFills() has after some of the orders: the job's copy, and what
\* the venue filled besides.
Recovered(r, orders, t, u) == Backed(venue, t) /\ AtLeast(t, r)
TakeIn(r, o, t) == AbsorbNow(o, t)

Recovering == INSTANCE Folding WITH One <- TakeIn, Two <- TakeIn, Good <- Recovered

LEMMA OrdersAreFinite == IsFiniteSet(Entries) /\ IsFiniteSet(Exits)
<1>1. IsFiniteSet(0 .. MaxMarks) /\ IsFiniteSet(1 .. MaxExits)
  BY PlanAssumption, FS_Interval
<1>2. \A a : IsFiniteSet({a})
  BY FS_Singleton
<1>3. IsFiniteSet({"exit", "exit_limit"})
  <2>1. \A a, b : IsFiniteSet({a} \cup {b})
    BY <1>2, FS_Union
  <2>2. {"exit", "exit_limit"} = {"exit"} \cup {"exit_limit"}
    OBVIOUS
  <2> QED
    BY <2>1, <2>2
<1>4. IsFiniteSet(Targets) /\ IsFiniteSet(Stops) /\ IsFiniteSet(Closes)
  BY <1>1, <1>2, <1>3, FS_Product DEF Targets, Stops, Closes
<1>5. IsFiniteSet(Entries)
  <2>1. Entries = {Entry} \cup {FallbackEntry}
    BY DEF Entries
  <2> QED
    BY <1>2, <2>1, FS_Union
<1> QED
  BY <1>4, <1>5, FS_Union DEF Exits

\* recoverFills(), in whatever order it finds the fills.
LEMMA RecoverBooks ==
    ASSUME Sound(venue), Backed(venue, rec)
    PROVE  Backed(venue, RecoverFills(rec)) /\ AtLeast(RecoverFills(rec), rec)
<1> DEFINE Filled(orders) == {o \in orders : venue.order[o].filled > 0}
           F(base, S) == Recovering!FoldOne(rec, base, S)
<1>1. ASSUME NEW S, IsFiniteSet(S), NEW base, Recovered(rec, {}, base, base)
      PROVE  Recovered(rec, S, F(base, S), Recovering!FoldTwo(rec, base, S))
  <2>1. IsFiniteSet(S) <=> Recovering!IsFiniteSet(S)
    BY DEF IsFiniteSet, Recovering!IsFiniteSet
  <2>2. \A s \in SUBSET S : \A o \in s : \A t, u :
          Recovered(rec, s \ {o}, t, u) => Recovered(rec, s, TakeIn(rec, o, t), TakeIn(rec, o, u))
    <3> SUFFICES ASSUME NEW o, NEW t, Backed(venue, t), AtLeast(t, rec)
                 PROVE  Backed(venue, AbsorbNow(o, t)) /\ AtLeast(AbsorbNow(o, t), rec)
      BY DEF Recovered, TakeIn
    <3>1. Backed(venue, AbsorbNow(o, t)) /\ AtLeast(AbsorbNow(o, t), t)
      BY AbsorbBooks DEF AbsorbNow
    <3> QED
      BY <3>1, AtLeastIsOrder DEF Backed
  <2> QED
    BY <1>1, <2>1, <2>2, Recovering!FoldTogether
<1>2. IsFiniteSet(Filled(Entries)) /\ IsFiniteSet(Filled(Exits))
  BY OrdersAreFinite, FS_Subset
<1>3. RecoverFills(rec) = F(F(rec, Filled(Exits)), Filled(Entries))
  BY DEF RecoverFills, Recovering!FoldOne, Recovering!FoldSet, Recovering!MapThenFoldSet,
    FoldSet, MapThenFoldSet, TakeIn
<1> HIDE DEF Filled, F
<1>4. Recovered(rec, {}, rec, rec)
  BY AtLeastIsOrder DEF Recovered, Backed
<1>5. Recovered(rec, {}, F(rec, Filled(Exits)), F(rec, Filled(Exits)))
  BY <1>1, <1>2, <1>4 DEF Recovered
<1> QED
  BY <1>1, <1>2, <1>3, <1>5 DEF Recovered

-----------------------------------------------------------------------------
(* What the steps of a job save *)

\* The record r has every fill that s had, and none the venue v did not make.
Entered(v, r, s) == Backed(v, r) /\ AtLeast(r, s)

LEMMA EnteredOn ==
    ASSUME NEW v, Sound(v), NEW s, HasBooks(s)
    PROVE  /\ \A r, t : Entered(v, r, s) /\ SameBooks(t, r) => Entered(v, t, s)
           /\ \A r, o : Entered(v, r, s) => Entered(v, AbsorbOf(v, r, o), s)
           /\ \A r, w : Entered(v, r, s) /\ Grows(v, w) => Entered(w, r, s)
           /\ Backed(v, s) => Entered(v, s, s)
<1>1. ASSUME NEW r, NEW t, Entered(v, r, s), SameBooks(t, r) PROVE Entered(v, t, s)
  BY <1>1 DEF Entered, Backed, AtLeast, SameBooks
<1>2. ASSUME NEW r, NEW o, Entered(v, r, s) PROVE Entered(v, AbsorbOf(v, r, o), s)
  BY <1>2, AbsorbBooks, AtLeastIsOrder DEF Entered, Backed
<1>3. ASSUME NEW r, NEW w, Entered(v, r, s), Grows(v, w) PROVE Entered(w, r, s)
  BY <1>3, BackedStays DEF Entered
<1>4. Backed(v, s) => Entered(v, s, s)
  BY AtLeastIsOrder DEF Entered
<1> QED
  BY <1>1, <1>2, <1>3, <1>4

\* The record r is saved, and the job goes on with it or ends.
Saves(r, from) ==
    /\ trade' = r \/ (r = from /\ trade' = trade)
    /\ todo' = <<>> \/ rec' = r
    /\ UNCHANGED opening

Books(r, from) == Grows(venue, venue') /\ Entered(venue', r, from) /\ Saves(r, from)

LEMMA GoGoesOn ==
    ASSUME NEW r, NEW l, NEW m, NEW stages, Go(r, l, m, stages)
    PROVE  todo' = <<>> \/ rec' = r
    BY DEF Go

LEMMA GoesOn ==
    /\ \A r, stages : Do(r, stages) => todo' = <<>> \/ rec' = r
    /\ \A r : On(r) => todo' = <<>> \/ rec' = r
    /\ \A r : SaveIfChanged(r) => trade' = r \/ (r = rec /\ trade' = trade)
    BY GoGoesOn DEF Do, On, SaveIfChanged

\* A job has a record, and the journal one, with nothing in them that the venue
\* did not fill.
Job == Sound(venue) /\ Backed(venue, rec) /\ Backed(venue, trade)

LEMMA JobBasics ==
    ASSUME Job
    PROVE  /\ HasBooks(rec) /\ Entered(venue, rec, rec)
           /\ HasBooks(trade) /\ Entered(venue, trade, trade)
           /\ \A r : Entered(venue, r, rec) => HasBooks(r)
           /\ \A o : Entered(venue, AbsorbOf(venue, rec, o), rec)
           /\ venue' = venue => Grows(venue, venue')
           /\ \A r : venue' = venue /\ Entered(venue, r, rec) => Entered(venue', r, rec)
<1>1. HasBooks(rec) /\ HasBooks(trade)
  BY DEF Job, Backed
<1> QED
  BY <1>1, EnteredOn, GrowsOn DEF Job, Entered, Backed

\* A step that leaves the venue alone books what its record has.
LEMMA StillBooks ==
    ASSUME Job, NEW r, Entered(venue, r, rec), Saves(r, rec), venue' = venue
    PROVE  \E t : Books(t, rec)
    BY JobBasics DEF Books

\* The lookups of a poll and of reconcile().
LEMMA LooksBook ==
    ASSUME Job,
           \/ LookEntry \/ LookLeg("take_profit") \/ LookLeg("stop_loss")
           \/ LookAgain \/ FallbackSent \/ EntryGone \/ Recover \/ Believe
    PROVE  \E r : Books(r, rec)
<1>0. /\ \A r, t : Entered(venue, r, rec) /\ SameBooks(t, r) => Entered(venue, t, rec)
      /\ \A r, o : Entered(venue, r, rec) => Entered(venue, AbsorbOf(venue, r, o), rec)
  BY JobBasics, EnteredOn DEF Job
<1>1. CASE LookEntry
  <2>1. Entered(venue, rec, rec) /\ Entered(venue, AbsorbOf(venue, rec, Entry), rec)
    BY JobBasics
  <2>2. venue' = venue /\ UNCHANGED opening
    BY <1>1 DEF LookEntry
  <2>3. Saves(rec, rec) \/ Saves(AbsorbOf(venue, rec, Entry), rec)
    BY <1>1, <2>2, GoesOn, GoGoesOn DEF LookEntry, Saves
  <2> QED
    BY <2>1, <2>2, <2>3, StillBooks
<1>2. ASSUME NEW role, LookLeg(role) PROVE \E r : Books(r, rec)
  <2>1. Entered(venue, rec, rec) /\ Entered(venue, LegRead(rec, role), rec)
    <3>1. Entered(venue, AbsorbOf(venue, rec, Recorded(rec, role)), rec)
      BY JobBasics
    <3>2. \A t : HasBooks(t) => SameBooks(SiblingCancelled(t, role), t)
      BY EventsKeepBooks
    <3> QED
      BY <1>0, <3>1, <3>2, JobBasics DEF LegRead
  <2>2. venue' = venue /\ UNCHANGED opening
    BY <1>2 DEF LookLeg
  <2>3. Saves(rec, rec) \/ Saves(LegRead(rec, role), rec)
    BY <1>2, <2>2, GoesOn DEF LookLeg, Saves
  <2> QED
    BY <2>1, <2>2, <2>3, StillBooks
<1>3. CASE LookAgain
  <2> DEFINE r == AbsorbOf(venue, rec, Entry)
             s == IF r.phase = "entry_unknown"
                    THEN AbsorbOf(venue, EntrySubmitted(r), Entry) ELSE r
  <2>1. Entered(venue, rec, rec) /\ Entered(venue, s, rec)
    <3>1. Entered(venue, r, rec) /\ HasBooks(r)
      BY JobBasics
    <3>2. Entered(venue, EntrySubmitted(r), rec)
      BY <1>0, <3>1, EventsKeepBooks
    <3> QED
      BY <1>0, <3>1, <3>2, JobBasics
  <2>2. venue' = venue /\ UNCHANGED opening
    BY <1>3 DEF LookAgain
  <2>3. Saves(rec, rec) \/ Saves(s, rec)
    <3>1. \/ SaveIfChanged(s) /\ On(s)
          \/ trade' = trade /\ \E l : Go(rec, l, mem, Tail(todo))
      BY <1>3 DEF LookAgain
    <3> HIDE DEF s
    <3> QED
      BY <2>2, <3>1, GoesOn, GoGoesOn DEF Saves
  <2> HIDE DEF s
  <2> QED
    BY <2>1, <2>2, <2>3, StillBooks
<1>4. CASE FallbackSent
  <2>1. Entered(venue, AbsorbOf(venue, rec, FallbackEntry), rec)
    BY JobBasics
  <2>2. venue' = venue /\ UNCHANGED opening
    BY <1>4 DEF FallbackSent
  <2>3. Saves(AbsorbOf(venue, rec, FallbackEntry), rec)
    BY <1>4, <2>2, GoesOn DEF FallbackSent, Saves
  <2> QED
    BY <2>1, <2>2, <2>3, StillBooks
<1>5. CASE EntryGone
  <2>1. PICK r \in {rec, AbsorbOf(venue, rec, Entry)} :
          /\ Save(EntryCancelled(r))
          /\ \E stages : Go(EntryCancelled(r), look, mem, stages)
    BY <1>5 DEF EntryGone
  <2>2. Entered(venue, r, rec)
    BY JobBasics
  <2>3. Entered(venue, EntryCancelled(r), rec)
    BY <1>0, <2>2, JobBasics, EventsKeepBooks
  <2>4. venue' = venue /\ UNCHANGED opening
    BY <1>5 DEF EntryGone
  <2>5. Saves(EntryCancelled(r), rec)
    BY <2>1, <2>4, GoGoesOn DEF Save, Saves
  <2> QED
    BY <2>3, <2>4, <2>5, StillBooks
<1>6. \A r \in {rec, RecoverFills(rec)} : Entered(venue, r, rec)
  BY JobBasics, RecoverBooks DEF Job, Entered
<1>7. CASE Recover
  <2>1. PICK r \in {rec, RecoverFills(rec)} : SaveIfChanged(r) /\ On(r)
    BY <1>7 DEF Recover
  <2>2. venue' = venue /\ UNCHANGED opening
    BY <1>7 DEF Recover
  <2>3. Saves(r, rec)
    BY <2>1, <2>2, GoesOn DEF Saves
  <2> QED
    BY <1>6, <2>2, <2>3, StillBooks
<1>8. CASE Believe
  <2>1. PICK r \in {rec, RecoverFills(rec)} :
          IF r.position = look.net \/ (look.net = 0 /\ venue.net # 0)
            THEN SaveIfChanged(r) /\ On(r)
            ELSE LET s == Reconciled(r, look.net)
                 IN Save(s) /\ Do(s, IF look.net # 0 THEN <<"protect">> ELSE <<"clear">>)
    BY <1>8 DEF Believe
  <2>2. venue' = venue /\ UNCHANGED opening
    BY <1>8 DEF Believe
  <2>3. Entered(venue, r, rec) /\ Entered(venue, Reconciled(r, look.net), rec)
    BY <1>0, <1>6, JobBasics, EventsKeepBooks
  <2>4. Saves(r, rec) \/ Saves(Reconciled(r, look.net), rec)
    BY <2>1, <2>2, GoesOn DEF Save, Saves
  <2> QED
    BY <2>2, <2>3, <2>4, StillBooks
<1> QED
  BY <1>1, <1>2, <1>3, <1>4, <1>5, <1>7, <1>8

\* The steps that read no order, or only write down what was decided.
LEMMA NotesBook ==
    ASSUME Job,
           \/ ReadBook \/ RecordProtection \/ SubmitClose \/ FollowUpWaits
           \/ Sync \/ NeverLanded
    PROVE  \E r : Books(r, rec)
<1>0. \A t : SameBooks(t, rec) => Entered(venue, t, rec)
  BY JobBasics, EnteredOn DEF Job
<1>1. SameBooks(rec, rec) /\ SameBooks(Aborted(rec), rec)
      /\ \A c : SameBooks(ExitSubmitted(rec, c), rec)
  BY JobBasics, EventsKeepBooks DEF SameBooks
<1>2. venue' = venue /\ UNCHANGED opening
  BY DEF ReadBook, RecordProtection, SubmitClose, FollowUpWaits, Sync, NeverLanded
<1>3. CASE ReadBook \/ FollowUpWaits \/ Sync
  <2>1. \E l, m, stages : Go(rec, l, m, stages)
    BY <1>3 DEF ReadBook, FollowUpWaits, Sync, Do, On
  <2>2. trade' = trade
    BY <1>3 DEF ReadBook, FollowUpWaits, Sync
  <2>3. Saves(rec, rec)
    BY <1>2, <2>1, <2>2, GoGoesOn DEF Saves
  <2> QED
    BY <1>0, <1>1, <1>2, <2>3, StillBooks
<1>4. CASE RecordProtection
  <2> DEFINE same == /\ look.takeProfit = rec.takeProfit
                     /\ look.stopLoss = rec.stopLoss /\ look.size = rec.cover
             r == IF same THEN rec
                  ELSE ProtectionPlaced(rec, look.takeProfit, look.stopLoss, look.size)
             s == IF look.failed = {} THEN r
                  ELSE ProtectionFailed(r, look.failed = {"take_profit"})
  <2>1. SameBooks(r, rec)
    BY <1>1, JobBasics, EventsKeepBooks
  <2>2. SameBooks(s, rec)
    <3>1. SameBooks(ProtectionFailed(r, look.failed = {"take_profit"}), r)
      <4> HIDE DEF r
      <4> QED
        BY <2>1, EventsKeepBooks DEF SameBooks
    <3> HIDE DEF r
    <3> QED
      BY <2>1, <3>1 DEF SameBooks
  <2>3. SaveIfChanged(s) /\ Go(s, look, mem', Tail(todo))
    BY <1>4 DEF RecordProtection
  <2> HIDE DEF s
  <2>4. Saves(s, rec)
    BY <1>2, <2>3, GoesOn, GoGoesOn DEF Saves
  <2> QED
    BY <1>0, <1>2, <2>2, <2>4, StillBooks
<1>5. CASE SubmitClose
  <2>1. PICK c : Save(ExitSubmitted(rec, c)) /\ On(ExitSubmitted(rec, c))
    BY <1>5 DEF SubmitClose
  <2>2. Saves(ExitSubmitted(rec, c), rec)
    BY <1>2, <2>1, GoesOn DEF Save, Saves
  <2> QED
    BY <1>0, <1>1, <1>2, <2>2, StillBooks
<1>6. CASE NeverLanded
  <2>1. Saves(Aborted(rec), rec)
    BY <1>2, <1>6, GoesOn DEF NeverLanded, Save, Saves
  <2> QED
    BY <1>0, <1>1, <1>2, <2>1, StillBooks
<1> QED
  BY <1>3, <1>4, <1>5, <1>6

\* The steps that cancel.
LEMMA CancelsBook ==
    ASSUME Job, CancelOverdue \/ ClearProtection \/ FollowUp
    PROVE  \E r : Books(r, rec)
<1>0. /\ \A o : Grows(venue, Cancel(venue, o))
      /\ \A orders : Grows(venue, CancelAll(venue, orders))
      /\ Grows(venue, venue)
  BY OutcomesGrow, CancelAllGrows, GrowsOn DEF Job
<1>1. \A r : Entered(venue, r, rec) /\ Grows(venue, venue') /\ Saves(r, rec)
        => \E t : Books(t, rec)
  BY JobBasics, EnteredOn DEF Job, Books
<1>2. Entered(venue, rec, rec) /\ \A o : Entered(venue, AbsorbOf(venue, rec, o), rec)
  BY JobBasics
<1>3. CASE CancelOverdue
  <2>1. Grows(venue, venue') /\ UNCHANGED opening
    BY <1>0, <1>3 DEF CancelOverdue
  <2>2. \/ Save(rec) /\ \E l, m, stages : Go(rec, l, m, stages)
        \/ trade' = trade /\ On(rec)
    BY <1>3 DEF CancelOverdue
  <2>3. Saves(rec, rec)
    BY <2>1, <2>2, GoesOn, GoGoesOn DEF Save, Saves
  <2> QED
    BY <1>1, <1>2, <2>1, <2>3
<1>4. CASE ClearProtection
  <2> DEFINE r == IF rec.takeProfit = None /\ rec.stopLoss = None THEN rec
                  ELSE ProtectionPlaced(rec, None, None, 0)
  <2>1. Entered(venue, r, rec)
    <3>1. SameBooks(ProtectionPlaced(rec, None, None, 0), rec)
      BY JobBasics, EventsKeepBooks
    <3> QED
      BY <1>2, <3>1, JobBasics, EnteredOn DEF Job
  <2>2. Grows(venue, venue') /\ UNCHANGED opening
    BY <1>0, <1>4 DEF ClearProtection
  <2>3. SaveIfChanged(r) /\ On(r)
    BY <1>4 DEF ClearProtection
  <2> HIDE DEF r
  <2>4. Saves(r, rec)
    BY <2>2, <2>3, GoesOn DEF Saves
  <2> QED
    BY <1>1, <2>1, <2>2, <2>4
<1>5. CASE FollowUp
  <2> DEFINE x == rec.closing.order
             r == AbsorbOf(venue, rec, x)
  <2>1. Grows(venue, venue') /\ UNCHANGED opening
    BY <1>0, <1>5 DEF FollowUp, ResendClose
  <2>2. \A s, v : ResendClose(s, v) => SaveIfChanged(s) /\ (todo' = <<>> \/ rec' = s)
    <3> TAKE s, v
    <3>1. HAVE ResendClose(s, v)
    <3>2. SaveIfChanged(s) /\ (On(s) \/ \E l, m, stages : Go(s, l, m, stages))
      BY <3>1 DEF ResendClose
    <3> QED
      BY <3>2, GoesOn, GoGoesOn
  <2>3. \/ SaveIfChanged(r) /\ On(r)
        \/ ResendClose(r, Cancel(venue, x))
        \/ ResendClose(rec, venue)
    BY <1>5 DEF FollowUp
  <2> HIDE DEF r
  <2>4. Saves(r, rec) \/ Saves(rec, rec)
    BY <2>1, <2>2, <2>3, GoesOn DEF Saves
  <2>5. Entered(venue, r, rec)
    BY <1>2 DEF r
  <2> QED
    BY <1>1, <1>2, <2>1, <2>4, <2>5
<1> QED
  BY <1>3, <1>4, <1>5

\* cancelSiblings(): an exit that is taken off is read once it is off.
LEMMA TakenOffBooks ==
    ASSUME Sound(venue), NEW r, Backed(venue, r), NEW legs, NEW t \in TakeOffs(r, legs)
    PROVE  Grows(venue, t.end.venue) /\ Entered(t.end.venue, t.end.rec, r)
<1> DEFINE Fine(x) == Grows(venue, x.venue) /\ Entered(x.venue, x.rec, r)
           x0 == [venue |-> venue, rec |-> r, sure |-> TRUE]
           off(x, role, how) == IF role \in legs THEN TakeOffLeg(x, role, how) ELSE x
<1>0. HasBooks(r)
  BY DEF Backed
<1>1. ASSUME NEW x, Fine(x), NEW role, NEW how PROVE Fine(TakeOffLeg(x, role, how))
  <2> DEFINE o == Recorded(x.rec, role)
             v == IF how \in {"taken", "unverified"} THEN Cancel(x.venue, o) ELSE x.venue
             seen == how \notin {"unread", "nowhere"}
             s == IF seen /\ x.venue.order[o].filled > 0 /\ x.rec.position # 0
                    THEN AbsorbOf(v, x.rec, o) ELSE x.rec
             gone == how \in {"taken", "nowhere"}
  <2>1. Sound(x.venue) /\ Grows(x.venue, v) /\ Grows(venue, v) /\ Sound(v)
    <3>1. Sound(x.venue)
      BY <1>1 DEF Grows
    <3>2. Grows(x.venue, v)
      BY <3>1, OutcomesGrow, GrowsOn
    <3> HIDE DEF v
    <3> QED
      BY <1>1, <3>1, <3>2, GrowsOn DEF Grows
  <2>2. Entered(v, x.rec, r)
    <3> HIDE DEF v
    <3> QED
      BY <1>0, <1>1, <2>1, EnteredOn
  <2>3. Entered(v, s, r)
    <3>1. \A p : Entered(v, AbsorbOf(v, x.rec, p), r)
      <4> HIDE DEF v
      <4> QED
        BY <1>0, <2>1, <2>2, EnteredOn
    <3> HIDE DEF v
    <3> QED
      BY <2>2, <3>1
  <2>4. Entered(v, SiblingCancelled(s, role), r)
    <3> HIDE DEF v, s
    <3>1. HasBooks(s)
      BY <2>3 DEF Entered, Backed
    <3> QED
      BY <1>0, <2>1, <2>3, <3>1, EnteredOn, EventsKeepBooks
  <2>5. /\ TakeOffLeg(x, role, how).venue = v
        /\ TakeOffLeg(x, role, how).rec = IF gone THEN SiblingCancelled(s, role) ELSE s
    BY DEF TakeOffLeg
  <2> HIDE DEF v, s, gone
  <2> QED
    BY <2>1, <2>3, <2>4, <2>5
<1>2. Fine(x0)
  <2>1. x0.venue = venue /\ x0.rec = r
    OBVIOUS
  <2> HIDE DEF x0
  <2> QED
    BY <1>0, <2>1, GrowsOn, EnteredOn
<1>3. \E g, h : t.end = off(off(x0, "take_profit", g), "stop_loss", h)
  <2> DEFINE hows(role) == IF role \in legs THEN Hows(venue, Recorded(r, role))
                           ELSE {<<"taken", "none">>}
             off2(h) == off(off(x0, "take_profit", h[1][1]), "stop_loss", h[2][1])
             fault(h) == IF h[1][2] = "none" THEN h[2][2] ELSE h[1][2]
             H == {p \in hows("take_profit") \X hows("stop_loss") :
                     "none" \in {p[1][2], p[2][2]}}
  <2>1. TakeOffs(r, legs) = {[end |-> off2(h), fault |-> fault(h)] : h \in H}
    BY DEF TakeOffs
  <2>2. PICK h \in H : t.end = off2(h)
    <3> HIDE DEF off2, fault, H
    <3> QED
      BY <2>1
  <2> HIDE DEF off, H
  <2> QED
    BY <2>2
<1> HIDE DEF Fine, x0
<1>4. Fine(t.end)
  BY <1>1, <1>2, <1>3
<1> QED
  BY <1>4 DEF Fine

LEMMA SiblingsBook ==
    ASSUME Job, CancelSiblings
    PROVE  \E r : Books(r, rec)
<1>1. PICK t \in TakeOffs(rec, IF At("losers") THEN Losers(rec) ELSE BothLegs(rec)) :
        /\ venue' = t.end.venue
        /\ LET r == IF At("close_out") THEN Reconciled(t.end.rec, 0) ELSE t.end.rec
           IN SaveIfChanged(r) /\ \E l, stages : Go(r, l, mem', stages)
  BY DEF CancelSiblings
<1>2. Grows(venue, venue') /\ Entered(venue', t.end.rec, rec)
  BY <1>1, TakenOffBooks DEF Job
<1> DEFINE r == IF At("close_out") THEN Reconciled(t.end.rec, 0) ELSE t.end.rec
<1>3. Entered(venue', r, rec)
  <2>1. HasBooks(rec) /\ HasBooks(t.end.rec) /\ Sound(venue')
    BY <1>2, JobBasics DEF Entered, Backed, Grows
  <2>2. Entered(venue', Reconciled(t.end.rec, 0), rec)
    BY <1>2, <2>1, EnteredOn, EventsKeepBooks
  <2> QED
    BY <1>2, <2>2
<1>4. SaveIfChanged(r) /\ \E l, stages : Go(r, l, mem', stages)
  BY <1>1
<1> HIDE DEF r
<1>5. UNCHANGED opening
  BY DEF CancelSiblings
<1>6. Saves(r, rec)
  BY <1>4, <1>5, GoesOn, GoGoesOn DEF Saves
<1> QED
  BY <1>2, <1>3, <1>6 DEF Books

\* A leg of protect() that keeps the record: the venue has moved on, no more.
Moved(leg) ==
    {"venue", "rec"} \subseteq DOMAIN leg /\ Grows(venue, leg.venue) /\ leg.rec = rec

LEMMA LegMoves ==
    ASSUME NEW v, Grows(venue, v), NEW id, NEW failed, NEW wrong
    PROVE  Moved(Leg(v, rec, id, failed, wrong))
    BY DEF Moved, Leg

\* Nor does what went wrong on the way change where the leg ends.
LEMMA DespiteMoves ==
    ASSUME NEW kind, NEW legs, \A l \in legs : Moved(l), NEW leg \in Despite(kind, legs)
    PROVE  Moved(leg)
<1>1. ASSUME NEW l, Moved(l) PROVE Moved([l EXCEPT !.wrong = @ \cup {kind}])
  BY <1>1 DEF Moved
<1> QED
  BY <1>1 DEF Despite

LEMMA LegsMove ==
    ASSUME Sound(venue), NEW role
    PROVE  \A book : \A leg \in MakeRight(role, book) : Moved(leg)
<1>1. ASSUME NEW v, Grows(venue, v), NEW leg \in Placing(v, role) PROVE Moved(leg)
  <2> DEFINE cid == <<role, rec.marks>>
             placed == IF role = "take_profit" THEN LimitOutcomes(v, cid, look.size)
                       ELSE {Accept(v, cid, look.size)}
  <2>1. \A w \in placed \cup {v} : Grows(venue, w)
    <3>1. Sound(v) /\ Grows(v, v)
      BY <1>1, GrowsOn DEF Grows
    <3>2. \A w \in placed : Grows(v, w)
      BY <3>1, OutcomesGrow, AcceptGrows
    <3> HIDE DEF placed
    <3> QED
      BY <1>1, <3>1, <3>2, GrowsOn
  <2>2. \E w \in placed \cup {v} : \E id, failed, wrong : leg = Leg(w, rec, id, failed, wrong)
    BY <1>1 DEF Placing
  <2> HIDE DEF placed
  <2> QED
    BY <2>1, <2>2, LegMoves
<1>2. ASSUME NEW v, Grows(venue, v), NEW live, NEW keep, NEW leg \in Replacing(v, role, live, keep)
      PROVE  Moved(leg)
  <2>1. \A orders : Grows(venue, CancelAll(v, orders))
    <3>1. Sound(v)
      BY <1>2 DEF Grows
    <3> QED
      BY <1>2, <3>1, CancelAllGrows, GrowsOn
  <2>2. \/ \E orders, id, failed, wrong :
             leg = Leg(CancelAll(v, orders), rec, id, failed, wrong)
        \/ leg \in Placing(CancelAll(v, live \ keep), role)
    BY <1>2 DEF Replacing
  <2> QED
    BY <1>1, <2>1, <2>2, LegMoves
<1>3. ASSUME NEW o, NEW leg \in Editing(role, o) PROVE Moved(leg)
  <2> DEFINE moved == Edit(venue, o, look.size)
             replaced(v) == Replacing(v, role, {o}, {})
  <2>1. Grows(venue, venue) /\ Grows(venue, moved)
    BY GrowsOn, EditGrows
  <2>2. \/ leg = Leg(moved, rec, o, FALSE, {})
        \/ leg = Leg(venue, rec, o, TRUE, {"edit"})
        \/ leg \in Despite("edit", replaced(venue) \cup replaced(moved))
        \/ leg \in replaced(venue)
    BY <1>3 DEF Editing
  <2> HIDE DEF moved
  <2>3. \A l \in replaced(venue) \cup replaced(moved) : Moved(l)
    BY <1>2, <2>1
  <2> HIDE DEF replaced
  <2> QED
    BY <2>1, <2>2, <2>3, LegMoves, DespiteMoves
<1>4. ASSUME NEW book, NEW leg \in MakeRight(role, book) PROVE Moved(leg)
  <2>1. \/ \E o : leg \in Editing(role, o)
        \/ \E live, keep : leg \in Replacing(venue, role, live, keep)
    BY <1>4 DEF MakeRight
  <2> QED
    BY <1>2, <1>3, <2>1, GrowsOn
<1> QED
  BY <1>4

\* protect(), one leg: the record is kept, or has a target's fill besides.
LEMMA SettlesBook ==
    ASSUME Job, NEW role, SettleLeg(role)
    PROVE  \E r : Books(r, rec)
<1> DEFINE o == Recorded(rec, role)
           fills == AbsorbOf(venue, rec, o)
           Filled(leg) == leg = [Leg(venue, fills, o, FALSE, {}) EXCEPT !.filled = TRUE]
<1>1. \A book : \A leg \in MakeRight(role, book) : Moved(leg)
  BY LegsMove DEF Job
<1>2. Grows(venue, venue)
  BY GrowsOn DEF Job
<1>4. ASSUME NEW leg \in Settled(role) PROVE Moved(leg) \/ Filled(leg)
  <2> DEFINE listed == [p \in DOMAIN look.book \cap Shape(role) |-> look.book[p]]
             with == [p \in DOMAIN listed \cup {o} |->
                        IF p = o THEN venue.order[o] ELSE listed[p]]
             unseen == o # None /\ o \notin DOMAIN listed
             waits == IF role = "take_profit" THEN {Leg(venue, rec, o, TRUE, {})} ELSE {}
             goesOn == MakeRight(role, listed)
             filled == [Leg(venue, fills, o, FALSE, {}) EXCEPT !.filled = TRUE]
             found == IF Resting(venue, o) THEN MakeRight(role, with)
                      ELSE IF fills # rec THEN {filled} ELSE goesOn
             held == IF role = "take_profit" THEN waits ELSE goesOn
             lost == Despite("read", held) \cup Despite("nowhere", waits \cup goesOn)
  <2>0. Settled(role) = IF unseen THEN lost \cup found ELSE goesOn
    BY DEF Settled
  <2>1. \A l \in waits \cup goesOn : Moved(l)
    <3>1. Moved(Leg(venue, rec, o, TRUE, {}))
      BY <1>2, LegMoves
    <3>2. \A l \in waits : Moved(l)
      <4> HIDE DEF o
      <4> QED
        BY <3>1
    <3> HIDE DEF waits
    <3> QED
      BY <1>1, <3>2
  <2>2. held \subseteq waits \cup goesOn
    OBVIOUS
  <2> HIDE DEF held, waits
  <2>3. leg \in lost => Moved(leg)
    BY <2>1, <2>2, DespiteMoves
  <2>4. leg \in found => Moved(leg) \/ leg = filled
    <3>1. found = MakeRight(role, with) \/ found = {filled} \/ found = goesOn
      OBVIOUS
    <3> HIDE DEF found, filled, with
    <3> QED
      BY <1>1, <3>1
  <2> HIDE DEF lost, found, listed, unseen
  <2>5. leg \in lost \/ leg \in found \/ leg \in goesOn
    BY <1>4, <2>0
  <2> QED
    BY <1>1, <2>3, <2>4, <2>5
<1>5. PICK leg \in Settled(role) :
        /\ venue' = leg.venue
        /\ SaveIfChanged(leg.rec)
        /\ \E l, stages : IF leg.filled THEN Go(leg.rec, l, mem, stages)
                          ELSE Go(rec, l, mem, stages)
  BY DEF SettleLeg
<1>6. UNCHANGED opening
  BY DEF SettleLeg
<1>7. CASE Moved(leg)
  <2>1. Grows(venue, leg.venue) /\ leg.rec = rec
    BY <1>7 DEF Moved
  <2>2. Saves(rec, rec)
    BY <1>5, <1>6, <2>1, GoesOn, GoGoesOn DEF Saves
  <2>3. Entered(venue', rec, rec)
    BY <1>5, <2>1, JobBasics, EnteredOn DEF Job
  <2> QED
    BY <1>5, <2>1, <2>2, <2>3 DEF Books
<1>8. CASE Filled(leg)
  <2>1. leg.venue = venue /\ leg.rec = fills /\ leg.filled
    <3> HIDE DEF o, fills
    <3> QED
      BY <1>8 DEF Leg
  <2>2. Entered(venue', fills, rec)
    BY <1>5, <2>1, JobBasics
  <2> HIDE DEF fills
  <2>3. Saves(fills, rec)
    BY <1>5, <1>6, <2>1, GoesOn, GoGoesOn DEF Saves
  <2> QED
    BY <1>2, <1>5, <2>1, <2>2, <2>3 DEF Books
<1> QED
  BY <1>4, <1>7, <1>8

\* A close sent: what it filled at once is booked.
LEMMA SendBooks ==
    ASSUME Job, SendClose
    PROVE  \E r : Books(r, rec)
<1> DEFINE c == rec.closing
           out == IF c.order[1] = "exit" THEN MarketOutcomes(venue, c.order, c.size)
                  ELSE LimitOutcomes(venue, c.order, c.size)
           failed == ProtectionFailed(rec, FALSE)
           r == AbsorbOf(venue', rec, c.order)
<1>1. UNCHANGED opening
  BY DEF SendClose
<1>2. Grows(venue, venue) /\ Grows(venue, Unfilled(venue, c.order, c.size))
      /\ \A w \in out : Grows(venue, w)
  BY OutcomesGrow, GrowsOn DEF Job
<1>3. /\ venue' \in out \cup {venue, Unfilled(venue, c.order, c.size)}
      /\ \/ SaveIfChanged(r) /\ On(r)
         \/ Save(failed) /\ Do(failed, <<"protect">>)
         \/ Save(failed) /\ On(failed)
  BY DEF SendClose
<1>4. Grows(venue, venue') /\ Sound(venue')
  <2> HIDE DEF out, c
  <2> QED
    BY <1>2, <1>3 DEF Grows
<1>5. Entered(venue', rec, rec)
  BY <1>4, JobBasics, EnteredOn DEF Job
<1>6. Entered(venue', r, rec)
  BY <1>4, <1>5, JobBasics, EnteredOn
<1>7. Entered(venue', failed, rec)
  BY <1>4, <1>5, JobBasics, EnteredOn, EventsKeepBooks
<1> HIDE DEF r, failed, out
<1>8. Saves(r, rec) \/ Saves(failed, rec)
  BY <1>1, <1>3, GoesOn DEF Saves, Save
<1> QED
  BY <1>4, <1>6, <1>7, <1>8 DEF Books

\* The steps that take the record from the journal again.
LEMMA RereadsBook ==
    ASSUME Job, JudgeExits \/ PlaceFallback
    PROVE  \E r : \E from \in {rec, trade} : Books(r, from)
<1>1. UNCHANGED opening
  BY DEF JudgeExits, PlaceFallback
<1>2. CASE JudgeExits
  <2>1. venue' = venue /\ trade' = trade
        /\ (On(rec) \/ \E l, stages : Go(trade, l, mem, stages))
    BY <1>2 DEF JudgeExits
  <2>2. Saves(rec, rec) \/ Saves(trade, trade)
    BY <1>1, <2>1, GoesOn, GoGoesOn DEF Saves
  <2> QED
    BY <2>1, <2>2, JobBasics DEF Books
<1>3. CASE PlaceFallback
  <2>1. Grows(venue, venue') /\ Sound(venue')
    <3>1. venue' \in MarketOutcomes(venue, FallbackEntry, Requested)
                    \cup {venue, Unfilled(venue, FallbackEntry, Requested)}
      BY <1>3 DEF PlaceFallback
    <3> QED
      BY <3>1, OutcomesGrow, GrowsOn DEF Job, Grows
  <2>2. /\ trade' \in {trade, Aborted(trade), EntrySubmitUnknown(trade)}
        /\ \E l, stages : Go(trade, l, mem, stages) /\ (trade' # trade => stages = <<>>)
    BY <1>3 DEF PlaceFallback, Save
  <2>3. \A t \in {trade, Aborted(trade), EntrySubmitUnknown(trade)} : Entered(venue', t, trade)
    BY <2>1, JobBasics, EnteredOn, EventsKeepBooks DEF Job, SameBooks
  <2>4. \A l : Go(trade, l, mem, <<>>) => todo' = <<>>
    BY DEF Go
  <2>5. Saves(trade', trade)
    BY <1>1, <2>2, <2>4, GoGoesOn DEF Saves
  <2> QED
    BY <2>1, <2>2, <2>3, <2>5 DEF Books
<1> QED
  BY <1>2, <1>3

\* A job that takes a step is there.
LEMMA WorksRuns == Works => ~Idle
    BY DEF Works, Idle, At, LookEntry, LookLeg, CancelOverdue, EntryGone, PlaceFallback,
      FallbackSent, ReadBook, SettleLeg, RecordProtection, ClearProtection, CancelSiblings,
      SubmitClose, SendClose, JudgeExits, FollowUpWaits, FollowUp, LookAgain, Recover,
      Sync, Believe, NeverLanded

LEMMA WorksBook ==
    ASSUME Job, Works
    PROVE  \E r : \E from \in {rec, trade} : Books(r, from)
    BY LooksBook, NotesBook, CancelsBook, SiblingsBook, SettlesBook, SendBooks, RereadsBook
    DEF Works

\* A job that begins, and what is done in one step, on the record in the
\* journal.
LEMMA BeginsBook ==
    ASSUME Sound(venue), Backed(venue, trade), Poll \/ Asks \/ SweepLeftovers
    PROVE  \E r : Books(r, trade)
<1>0. /\ HasBooks(trade) /\ Entered(venue, trade, trade) /\ Grows(venue, venue)
      /\ \A w : Grows(venue, w) => Sound(w) /\ Entered(w, trade, trade)
  BY EnteredOn, GrowsOn DEF Backed, Grows
<1>1. UNCHANGED opening
  BY DEF Poll, Asks, AskClose, AskReconcile, AskCancel, SweepLeftovers
<1>2. CASE Poll \/ AskClose \/ AskReconcile
  <2>1. /\ venue' = venue /\ trade' = trade
        /\ \E l, stages : Go(trade, l, mem, stages)
    BY <1>2 DEF Poll, AskClose, AskReconcile
  <2>2. Saves(trade, trade)
    BY <1>1, <2>1, GoGoesOn DEF Saves
  <2> QED
    BY <1>0, <2>1, <2>2 DEF Books
<1>3. CASE AskCancel
  <2>1. Grows(venue, venue')
    <3>1. venue' \in {venue, Cancel(venue, Entry)}
      BY <1>3 DEF AskCancel
    <3> QED
      BY <1>0, <3>1, OutcomesGrow
  <2>2. \/ trade' = trade /\ \E l, stages : Go(trade, l, mem, stages)
        \/ trade' = EntryCancelled(trade) /\ todo' = <<>>
    BY <1>3 DEF AskCancel, Save, Free, Idle
  <2>3. Saves(trade, trade) \/ Saves(EntryCancelled(trade), trade)
    BY <1>1, <2>2, GoGoesOn DEF Saves
  <2>4. Entered(venue', trade, trade) /\ Entered(venue', EntryCancelled(trade), trade)
    BY <1>0, <2>1, EnteredOn, EventsKeepBooks
  <2> QED
    BY <2>1, <2>3, <2>4 DEF Books
<1>4. CASE SweepLeftovers
  <2>1. PICK t \in TakeOffs(trade, BothLegs(trade)) : venue' = t.end.venue /\ trade' = t.end.rec
    BY <1>4 DEF SweepLeftovers, Save
  <2>2. todo' = <<>>
    BY <1>4 DEF SweepLeftovers, Free, Idle
  <2>3. Grows(venue, venue') /\ Entered(venue', t.end.rec, trade)
    BY <2>1, TakenOffBooks
  <2> QED
    BY <1>1, <2>1, <2>2, <2>3 DEF Books, Saves
<1> QED
  BY <1>2, <1>3, <1>4 DEF Asks

\* What the venue does of itself, and the sweep of orphans, leaves the trade's
\* records alone.
LEMMA MarketGrows ==
    ASSUME Sound(venue), Market \/ SweepOrphans \/ DeadlinePasses \/ HoldEnds
    PROVE  Grows(venue, venue') /\ UNCHANGED <<trade, todo, rec, look, opening>>
<1>1. UNCHANGED <<trade, todo, rec, look, opening>>
  BY DEF Market, EntryFills, ExitFills, VenueTrims, VenueDrops, ClosedByHand, SweepOrphans,
    DeadlinePasses, HoldEnds
<1>2. CASE EntryFills \/ ExitFills
  <2>1. \E o : \E n \in 1 .. Fillable(venue, o) : venue' = Fills(venue, o, n)
    BY <1>2 DEF EntryFills, ExitFills
  <2> QED
    BY <1>1, <2>1, FillsGrows
<1>3. CASE VenueTrims \/ VenueDrops \/ SweepOrphans
  <2>1. venue' = venue \/ \E o : venue' = Cancel(venue, o)
    BY <1>3 DEF VenueTrims, VenueDrops, SweepOrphans
  <2> QED
    BY <1>1, <2>1, OutcomesGrow, GrowsOn
<1>4. CASE ClosedByHand
  <2>1. \A m : "order" \in DOMAIN [venue EXCEPT !.net = m]
               /\ [venue EXCEPT !.net = m].order = venue.order
    BY DEF Sound
  <2>2. \E m : venue' = [venue EXCEPT !.net = m]
    BY <1>4 DEF ClosedByHand
  <2>3. "order" \in DOMAIN venue' /\ venue'.order = venue.order
    BY <2>1, <2>2
  <2>4. Grows(venue, venue)
    BY GrowsOn
  <2> QED
    BY <1>1, <2>3, <2>4 DEF Grows, Sound
<1>5. CASE DeadlinePasses \/ HoldEnds
  <2>1. venue' = venue
    BY <1>5 DEF DeadlinePasses, HoldEnds
  <2> QED
    BY <1>1, <2>1, GrowsOn
<1> QED
  BY <1>2, <1>3, <1>4, <1>5 DEF Market

-----------------------------------------------------------------------------
(* No fill is booked twice *)

Underway == opening.at \in {"gates", "acked", "submitted"}

\* Every copy of the record there is, and the answer open() has yet to book,
\* has nothing the venue did not fill.
BooksInv ==
    /\ Sound(venue)
    /\ trade # None => Backed(venue, trade)
    /\ ~Idle => Backed(venue, rec) /\ Backed(venue, trade)
    /\ Underway => Backed(venue, opening.rec)
    /\ opening.at \in {"acked", "submitted"} =>
         opening.filled \in Int /\ opening.filled <= venue.order[Entry].filled
    /\ {"at", "rec", "filled", "rejected"} \subseteq DOMAIN opening

\* An open() under way is kept by whatever lets the venue go on.
LEMMA OpeningKept ==
    ASSUME BooksInv, Grows(venue, venue'), UNCHANGED opening
    PROVE  /\ Sound(venue')
           /\ Underway' => Backed(venue', opening'.rec)
           /\ opening'.at \in {"acked", "submitted"} =>
                opening'.filled \in Int /\ opening'.filled <= venue'.order[Entry].filled
           /\ {"at", "rec", "filled", "rejected"} \subseteq DOMAIN opening'
<1>1. Sound(venue) /\ Sound(venue')
  BY DEF BooksInv, Grows
<1>2. Underway => Backed(venue', opening.rec)
  BY <1>1, BackedStays DEF BooksInv
<1>3. venue.order[Entry].filled \in Int /\ venue'.order[Entry].filled \in Int
      /\ venue.order[Entry].filled <= venue'.order[Entry].filled
  BY <1>1 DEF Sound, Grows, Order, Entries
<1>4. opening.at \in {"acked", "submitted"} => opening.filled <= venue'.order[Entry].filled
  BY <1>3 DEF BooksInv
<1> QED
  BY <1>1, <1>2, <1>4 DEF BooksInv, Underway

LEMMA BooksKept ==
    ASSUME BooksInv, Backed(venue, trade), NEW r, NEW from, Books(r, from)
    PROVE  BooksInv'
<1>1. Backed(venue', r) /\ Backed(venue', trade)
  BY BackedStays DEF BooksInv, Books, Entered
<1>2. trade' = r \/ trade' = trade
  BY DEF Books, Saves
<1>3. Idle' \/ rec' = r
  BY DEF Books, Saves, Idle
<1> QED
  BY <1>1, <1>2, <1>3, OpeningKept DEF BooksInv, Books, Saves

\* A record to begin with has no fills.
LEMMA InitialBooks ==
    ASSUME NEW v, Sound(v)
    PROVE  Backed(v, InitialTrade)
<1>1. "booked" \in DOMAIN InitialTrade /\ InitialTrade.booked = [o \in Order |-> 0]
  BY DEF InitialTrade
<1>2. \A o \in Order : 0 <= v.order[o].filled
  BY DEF Sound
<1> QED
  BY <1>1, <1>2 DEF Backed, HasBooks

\* open() books the answer it got, which may be older than what the venue has
\* filled since.
LEMMA AnswerBooks ==
    ASSUME NEW v, Sound(v), NEW s, Backed(v, s), NEW filled \in Int, NEW rejected,
           filled <= v.order[Entry].filled
    PROVE  Entered(v, Absorb(s, Entry, filled, rejected), s)
<1> DEFINE fresh == filled - s.booked[Entry]
           t == IF fresh > 0 THEN Fill(s, Entry, fresh) ELSE s
<1>1. HasBooks(s) /\ Entry \in Order
  BY DEF Backed, Order, Entries
<1>2. s.booked \in [Order -> Int] /\ s.booked[Entry] \in Int /\ fresh \in Int
  BY <1>1 DEF HasBooks
<1>3. HasBooks(t) /\ Backed(v, t) /\ AtLeast(t, s)
  <2>1. CASE fresh > 0
    <3>1. /\ "booked" \in DOMAIN Fill(s, Entry, fresh)
          /\ Fill(s, Entry, fresh).booked = [s.booked EXCEPT ![Entry] = @ + fresh]
      <4> HIDE DEF fresh, t
      <4> QED
        BY <1>1, FillBooks
    <3>2. t = Fill(s, Entry, fresh)
      BY <2>1
    <3>3. /\ [s.booked EXCEPT ![Entry] = @ + fresh] \in [Order -> Int]
          /\ \A o \in Order : [s.booked EXCEPT ![Entry] = @ + fresh][o]
                                = IF o = Entry THEN filled ELSE s.booked[o]
      BY <1>1, <1>2
    <3> HIDE DEF t
    <3>4. HasBooks(t) /\ \A o \in Order : t.booked[o] = IF o = Entry THEN filled ELSE s.booked[o]
      BY <3>1, <3>2, <3>3 DEF HasBooks
    <3>5. \A o \in Order : s.booked[o] <= t.booked[o] /\ t.booked[o] <= v.order[o].filled
      BY <1>1, <1>2, <2>1, <3>4 DEF Backed
    <3> QED
      BY <3>4, <3>5 DEF Backed, AtLeast
  <2>2. CASE ~(fresh > 0)
    BY <1>1, <2>2, AtLeastIsOrder
  <2> QED
    BY <2>1, <2>2
<1>4. Absorb(s, Entry, filled, rejected) = t \/ Absorb(s, Entry, filled, rejected) = Aborted(t)
  BY DEF Absorb
<1> HIDE DEF t
<1>5. Entered(v, t, s) /\ SameBooks(Aborted(t), t)
  BY <1>3, EventsKeepBooks DEF Entered
<1> QED
  BY <1>1, <1>4, <1>5, EnteredOn

\* What a step of open() saves, and what it keeps for the next.
OpenSaves(r) ==
    /\ Grows(venue, venue') /\ Entered(venue', r, opening.rec)
    /\ trade' = r \/ trade' = trade
    /\ UNCHANGED <<todo, rec, look>>
    /\ {"at", "rec", "filled", "rejected"} \subseteq DOMAIN opening'
    /\ Underway' => opening'.rec = r /\ (trade' = r \/ r = opening.rec)
    /\ opening'.at \in {"acked", "submitted"} =>
         opening'.filled \in Int /\ opening'.filled <= venue'.order[Entry].filled
    /\ opening'.at # "none"

LEMMA OpenBooks ==
    ASSUME BooksInv, Underway, OpenRefused \/ OpenPlace \/ OpenSubmitted \/ OpenAbsorb
    PROVE  \E r : OpenSaves(r)
<1> DEFINE s == opening.rec
           done == [NoOpen EXCEPT !.at = "done"]
<1>1. /\ Sound(venue) /\ Backed(venue, s) /\ HasBooks(s) /\ Grows(venue, venue)
      /\ {"at", "rec", "filled", "rejected"} \subseteq DOMAIN opening
  BY GrowsOn DEF BooksInv, Backed
<1>2. \A r, w : SameBooks(r, s) /\ Grows(venue, w) => Entered(w, r, s)
  <2> TAKE r, w
  <2>1. HAVE SameBooks(r, s) /\ Grows(venue, w)
  <2>2. Sound(w) /\ Entered(w, s, s)
    BY <1>1, <2>1, EnteredOn DEF Grows
  <2> QED
    BY <1>1, <2>1, <2>2, EnteredOn
<1>3. /\ SameBooks(s, s) /\ SameBooks(Aborted(s), s) /\ SameBooks(EntrySubmitted(s), s)
      /\ SameBooks(EntrySubmitUnknown(s), s)
  BY <1>1, EventsKeepBooks DEF SameBooks
<1>4. /\ {"at", "rec", "filled", "rejected"} \subseteq DOMAIN done /\ done.at = "done"
  BY DEF NoOpen
<1>5. UNCHANGED <<todo, rec, look>>
  BY DEF OpenRefused, OpenPlace, OpenSubmitted, OpenAbsorb
<1>6. \A r : OpenEnds(r) => trade' = r /\ opening' = done
  BY DEF OpenEnds, Save
<1>7. ASSUME NEW r, Grows(venue, venue'), Entered(venue', r, s), trade' = r \/ trade' = trade,
             opening' = done
      PROVE  OpenSaves(r)
  <2> HIDE DEF done
  <2> QED
    BY <1>4, <1>5, <1>7 DEF OpenSaves, Underway
<1>8. CASE OpenRefused
  <2> HIDE DEF done
  <2> QED
    BY <1>1, <1>2, <1>3, <1>6, <1>7, <1>8 DEF OpenRefused
<1>9. \A w \in EntryOutcomes : Grows(venue, w)
  BY <1>1, OutcomesGrow DEF EntryOutcomes
<1>10. CASE OpenPlace
  <2>1. Grows(venue, venue')
    <3>1. venue' \in EntryOutcomes \cup {venue, Unfilled(venue, Entry, Requested)}
      BY <1>10 DEF OpenPlace
    <3> QED
      BY <1>1, <1>9, <3>1, OutcomesGrow
  <2>2. CASE OpenEnds(Aborted(s)) \/ OpenEnds(EntrySubmitUnknown(s))
    <3> HIDE DEF done
    <3> QED
      BY <1>2, <1>3, <1>6, <1>7, <2>1, <2>2
  <2>3. CASE /\ trade' = trade
             /\ opening' = [opening EXCEPT
                              !.at = "acked",
                              !.filled = venue'.order[Entry].filled,
                              !.rejected = venue'.order[Entry].status = "rejected"]
    <3>1. /\ {"at", "rec", "filled", "rejected"} \subseteq DOMAIN opening'
          /\ opening'.at = "acked" /\ opening'.rec = s
          /\ opening'.filled = venue'.order[Entry].filled
      BY <1>1, <2>3
    <3>2. venue'.order[Entry].filled \in Int
      BY <2>1 DEF Grows, Sound, Order, Entries
    <3>3. opening'.filled \in Int /\ opening'.filled <= venue'.order[Entry].filled
      BY <3>1, <3>2
    <3>4. Entered(venue', s, s)
      BY <1>2, <1>3, <2>1
    <3>5. OpenSaves(s)
      BY <1>5, <2>1, <2>3, <3>1, <3>3, <3>4 DEF OpenSaves
    <3> QED
      BY <3>5
  <2> QED
    BY <1>10, <2>2, <2>3 DEF OpenPlace
<1>11. CASE OpenSubmitted
  <2> DEFINE r == EntrySubmitted(s)
  <2>1. /\ trade' = r /\ venue' = venue /\ opening.at = "acked"
        /\ opening' = [opening EXCEPT !.at = "submitted", !.rec = r]
    BY <1>11 DEF OpenSubmitted, Save
  <2> HIDE DEF r
  <2>2. /\ {"at", "rec", "filled", "rejected"} \subseteq DOMAIN opening'
        /\ opening'.at = "submitted" /\ opening'.rec = r /\ opening'.filled = opening.filled
    BY <1>1, <2>1
  <2>3. Entered(venue', r, s)
    BY <1>1, <1>2, <1>3, <2>1 DEF r
  <2>4. opening'.filled \in Int /\ opening'.filled <= venue'.order[Entry].filled
    BY <2>1, <2>2 DEF BooksInv
  <2>5. OpenSaves(r)
    BY <1>1, <1>5, <2>1, <2>2, <2>3, <2>4 DEF OpenSaves
  <2> QED
    BY <2>5
<1>12. CASE OpenAbsorb
  <2> DEFINE r == Absorb(s, Entry, opening.filled, opening.rejected)
  <2>1. /\ venue' = venue /\ opening.at = "submitted" /\ opening' = done
        /\ trade' = r \/ trade' = trade
    BY <1>6, <1>12 DEF OpenAbsorb
  <2>2. Entered(venue', r, s)
    <3>1. opening.filled \in Int /\ opening.filled <= venue.order[Entry].filled
      BY <2>1 DEF BooksInv
    <3> QED
      BY <1>1, <2>1, <3>1, AnswerBooks
  <2> HIDE DEF r, done
  <2>3. OpenSaves(r)
    BY <1>1, <1>7, <2>1, <2>2
  <2> QED
    BY <2>3
<1> QED
  BY <1>8, <1>10, <1>11, <1>12

\* A restart loses every copy but the journal's.
LEMMA RestartBooks ==
    ASSUME Restart
    PROVE  /\ UNCHANGED <<trade, venue>> /\ ~Underway'
           /\ {"at", "rec", "filled", "rejected"} \subseteq DOMAIN opening'
           /\ opening'.at = IF opening.at = "none" THEN "none" ELSE "done"
           /\ todo' = <<>> \/ (trade # None /\ rec' = trade)
<1>1. /\ opening' = [NoOpen EXCEPT !.at = IF opening.at = "none" THEN "none" ELSE "done"]
      /\ UNCHANGED <<trade, venue>>
      /\ \/ Working /\ Go(trade, NoLook, NoMem, ReconcileStages)
         \/ todo' = <<>>
  BY DEF Restart
<1> QED
  BY <1>1, GoGoesOn DEF NoOpen, Underway, Working

LEMMA BooksInit == Init => BooksInv
<1> SUFFICES ASSUME Init PROVE BooksInv
  OBVIOUS
<1>1. Sound(venue)
  BY DEF Init, EmptyVenue, Sound
<1> QED
  BY <1>1 DEF Init, NoOpen, BooksInv, Underway, Idle

LEMMA BooksNext ==
    ASSUME BooksInv, [Next]_vars
    PROVE  BooksInv'
<1>1. ASSUME NEW r, NEW from, Backed(venue, trade), Books(r, from) PROVE BooksInv'
  BY <1>1, BooksKept
<1>2. CASE Works
  <2>1. Job
    BY <1>2, WorksRuns DEF BooksInv, Job
  <2> QED
    BY <1>1, <1>2, <2>1, WorksBook DEF Job
<1>3. CASE Poll \/ Asks \/ SweepLeftovers
  <2>1. trade # None
    BY <1>3 DEF Poll, Asks, AskClose, AskReconcile, AskCancel, SweepLeftovers, Free
  <2>2. Sound(venue) /\ Backed(venue, trade)
    BY <2>1 DEF BooksInv
  <2> QED
    BY <1>1, <1>3, <2>2, BeginsBook
<1>4. CASE Market \/ SweepOrphans \/ DeadlinePasses \/ HoldEnds
  <2>1. Grows(venue, venue') /\ UNCHANGED <<trade, todo, rec, look, opening>>
    BY <1>4, MarketGrows DEF BooksInv
  <2>2. /\ trade' # None => Backed(venue', trade')
        /\ ~Idle' => Backed(venue', rec') /\ Backed(venue', trade')
    BY <2>1, BackedStays DEF BooksInv, Idle
  <2> QED
    BY <2>1, <2>2, OpeningKept DEF BooksInv
<1>5. CASE OpenStart
  <2>1. /\ trade' = InitialTrade /\ UNCHANGED <<todo, rec, venue>>
        /\ opening' = [NoOpen EXCEPT !.at = "gates", !.rec = InitialTrade]
    BY <1>5 DEF OpenStart, Save
  <2>2. /\ {"at", "rec", "filled", "rejected"} \subseteq DOMAIN opening'
        /\ opening'.at = "gates" /\ opening'.rec = InitialTrade
    BY <2>1 DEF NoOpen
  <2>3. Sound(venue') /\ Backed(venue', InitialTrade)
    BY <2>1, InitialBooks DEF BooksInv
  <2> QED
    BY <2>1, <2>2, <2>3 DEF BooksInv, Idle
<1>6. CASE OpenRefused \/ OpenPlace \/ OpenSubmitted \/ OpenAbsorb
  <2>1. Underway
    BY <1>6 DEF OpenRefused, OpenPlace, OpenSubmitted, OpenAbsorb, Underway
  <2>2. PICK r : OpenSaves(r)
    BY <1>6, <2>1, OpenBooks
  <2>3. Sound(venue') /\ Backed(venue', r)
    BY <2>2 DEF OpenSaves, Entered, Grows
  <2>4. /\ trade' # None => Backed(venue', trade')
        /\ ~Idle' => Backed(venue', rec') /\ Backed(venue', trade')
    BY <2>2, <2>3, BackedStays DEF BooksInv, OpenSaves, Idle
  <2> QED
    BY <2>2, <2>3, <2>4 DEF BooksInv, OpenSaves
<1>7. CASE Restart
  BY <1>7, RestartBooks DEF BooksInv, Idle, Underway
<1>8. CASE UNCHANGED vars
  BY <1>8 DEF BooksInv, vars, Idle, Underway
<1> QED
  BY <1>2, <1>3, <1>4, <1>5, <1>6, <1>7, <1>8 DEF Next, Open, Sweeps

\* engine.ts, absorb: no fill is booked twice, whatever the plan, however often
\* each order is looked up and by whom, and whatever goes wrong in between.
THEOREM NoFillBookedTwice == Spec => []BookedIsReal
<1>1. BooksInv => BookedIsReal
  BY DEF BooksInv, BookedIsReal, Backed
<1> QED
  BY <1>1, BooksInit, BooksNext, PTL DEF Spec

-----------------------------------------------------------------------------
(* No fill is lost again *)

\* There is one record: the copies of it are the one in the journal.
OneRecord ==
    /\ opening.at # "done" => Idle
    /\ opening.at = "none" => trade = None
    /\ Underway => opening.rec = trade
    /\ ~Idle => rec = trade

LEMMA OneRecordNext ==
    ASSUME ~Overlap, BooksInv, OneRecord, [Next]_vars
    PROVE  /\ OneRecord'
           /\ trade # None /\ trade' # trade =>
                \A o \in Order : trade'.booked[o] >= trade.booked[o]
<1>0. \A r : Entered(venue', r, trade) /\ trade # None =>
        \A o \in Order : r.booked[o] >= trade.booked[o]
  <2> SUFFICES ASSUME NEW r, Entered(venue', r, trade), trade # None, NEW o \in Order
               PROVE  r.booked[o] >= trade.booked[o]
    OBVIOUS
  <2>1. r.booked[o] \in Int /\ trade.booked[o] \in Int /\ trade.booked[o] <= r.booked[o]
    BY DEF BooksInv, Entered, Backed, HasBooks, AtLeast
  <2> QED
    BY <2>1
<1>1. ASSUME NEW r, Books(r, trade), opening.at = "done"
      PROVE  OneRecord' /\ (trade' # trade => Entered(venue', trade', trade))
  BY <1>1 DEF Books, Saves, OneRecord, Idle, Underway
<1>2. CASE Works
  <2>1. ~Idle
    BY <1>2, WorksRuns
  <2>2. Job /\ rec = trade /\ opening.at = "done"
    BY <2>1 DEF BooksInv, Job, OneRecord
  <2> QED
    BY <1>0, <1>1, <1>2, <2>2, WorksBook
<1>3. CASE Poll \/ Asks \/ SweepLeftovers
  <2>1. trade # None /\ opening.at = "done"
    BY <1>3 DEF Poll, Asks, AskClose, AskReconcile, AskCancel, SweepLeftovers, Free
  <2>2. Sound(venue) /\ Backed(venue, trade)
    BY <2>1 DEF BooksInv
  <2> QED
    BY <1>0, <1>1, <1>3, <2>1, <2>2, BeginsBook
<1>4. CASE Market \/ SweepOrphans \/ DeadlinePasses \/ HoldEnds
  BY <1>4, MarketGrows DEF BooksInv, OneRecord, Idle, Underway
<1>5. CASE OpenStart
  <2>1. /\ trade' = InitialTrade /\ UNCHANGED <<todo, rec>> /\ opening.at = "none"
        /\ opening' = [NoOpen EXCEPT !.at = "gates", !.rec = InitialTrade]
    BY <1>5 DEF OpenStart, Save
  <2>2. opening'.at = "gates" /\ opening'.rec = InitialTrade
    BY <2>1 DEF NoOpen
  <2> QED
    BY <2>1, <2>2 DEF OneRecord, Idle, Underway
<1>6. CASE OpenRefused \/ OpenPlace \/ OpenSubmitted \/ OpenAbsorb
  <2>1. Underway
    BY <1>6 DEF OpenRefused, OpenPlace, OpenSubmitted, OpenAbsorb, Underway
  <2>2. opening.rec = trade /\ Idle
    BY <2>1 DEF OneRecord, Underway
  <2>3. PICK r : OpenSaves(r)
    BY <1>6, <2>1, OpenBooks
  <2>4. /\ Idle' /\ opening'.at # "none" /\ Entered(venue', r, trade)
        /\ trade' = r \/ trade' = trade
        /\ Underway' => opening'.rec = trade'
    BY <2>2, <2>3 DEF OpenSaves, Idle
  <2> QED
    BY <1>0, <2>4 DEF OneRecord
<1>7. CASE Restart
  BY <1>7, RestartBooks DEF OneRecord, Idle, Underway
<1>8. CASE UNCHANGED vars
  BY <1>8 DEF OneRecord, vars, Idle, Underway
<1> QED
  BY <1>2, <1>3, <1>4, <1>5, <1>6, <1>7, <1>8 DEF Next, Open, Sweeps

\* withTrade() in engine.ts: where no job of the trade runs beside open(), no
\* save of one copy of the record undoes a fill that another has booked.
THEOREM NoFillForgotten == ~Overlap /\ Spec => NeverForgets
<1>1. Init => OneRecord
  BY DEF Init, NoOpen, OneRecord, Idle, Underway
<1>2. ~Overlap /\ BooksInv /\ OneRecord /\ [Next]_vars =>
        /\ OneRecord'
        /\ [trade # None => \A o \in Order : trade'.booked[o] >= trade.booked[o]]_trade
  BY OneRecordNext
<1>3. SUFFICES ASSUME ~Overlap PROVE Spec => NeverForgets
  OBVIOUS
<1> QED
  BY <1>1, <1>2, <1>3, BooksInit, BooksNext, PTL DEF Spec, NeverForgets

-----------------------------------------------------------------------------
(* One sale of the plan: what is known between the steps *)

\* The market entry is a second order for the whole size.
Timed == Timeout /\ Fallback

\* No leg or close of the record is one of the two entries.
Fine(s) ==
    /\ DOMAIN s = DOMAIN InitialTrade
    /\ s.takeProfit # None => s.takeProfit \notin Entries
    /\ s.stopLoss # None => s.stopLoss \notin Entries
    /\ s.closing # None => s.closing.order \notin Entries

LookFine(l) ==
    /\ DOMAIN l = DOMAIN NoLook
    /\ l.takeProfit # None => l.takeProfit \notin Entries
    /\ l.stopLoss # None => l.stopLoss \notin Entries

\* Every copy of the record, and what the job has read.
CopiesFine ==
    /\ trade # None => Fine(trade)
    /\ ~Idle => Fine(rec) /\ Fine(trade) /\ LookFine(look)
    /\ Underway => Fine(opening.rec)

\* Of two stages of a job in a row, b after a.
Follows(a, b) ==
    /\ b \notin {"entry", "entry_gone", "fallback", "fallback_sent", "settle_target",
                  "believe", "protect", "clear"}
    /\ b = "submit" => a = "take_off"
    /\ b = "target" => a = "entry"
    /\ b = "stop" => a = "target"
    /\ b = "overdue" => a = "stop"
    /\ b = "send" => a = "submit"
    /\ b = "settle_stop" <=> a = "settle_target"
    /\ b = "record" <=> a = "settle_stop"

Ordered(t) ==
    t \in Seq(Stage) /\ \A i \in 2 .. Len(t) : Follows(t[i - 1], t[i])

\* What is known of a record when a job comes to a stage with it.
HeadFine(h, r, l) ==
    /\ h \in {"cover", "protect", "settle_target", "settle_stop", "record", "send"}
         => r.position < 0
    /\ h = "follow" => r.position # 0 /\ r.closing # None
    /\ h = "send" => r.closing.order \notin Entries
    /\ h = "overdue" => l.entryOpen
    /\ h = "target" => r.takeProfit # None
    /\ h = "stop" => r.stopLoss # None

JobInv == Ordered(todo) /\ (~Idle => HeadFine(Head(todo), rec, look))

\* No entry has sold anything, ...
Unsold(v) == \A o \in Entries : v.order[o].filled = 0

\* ... the venue holds nothing of the trade's, ...
Quiet(v) == v.net = 0 /\ \A o \in Exits : ~Known(v, o)

\* ... and a record has no fill, and no exit.
Blank(s) ==
    /\ s.position = 0 /\ s.entrySize = 0 /\ s.exitSize = 0
    /\ s.takeProfit = None /\ s.stopLoss = None
    /\ \A o \in Order : s.booked[o] = 0

UnsoldInv ==
    Unsold(venue) =>
      /\ Quiet(venue)
      /\ trade # None => Blank(trade)
      /\ ~Idle => Blank(rec) /\ Blank(trade) /\ look.net = 0
      /\ Underway => Blank(opening.rec)

\* The venue's own account of the two entries.
EntriesFine(v) ==
    /\ "net" \in DOMAIN v
    /\ \A o \in Entries :
         /\ "size" \in DOMAIN v.order[o]
         /\ Known(v, o) => v.order[o].size = Requested
         /\ v.order[o].filled <= Requested
    /\ Timed => v.order[Entry].filled = 0
                \/ (v.order[Entry].filled = Requested /\ ~Resting(v, Entry))

\* The entry is over, and sold nothing.
WrittenOff(v) ==
    Known(v, Entry) /\ ~Resting(v, Entry) /\ v.order[Entry].filled = 0

\* The market entry is sent once the entry is written off.
Sales(v) ==
    EntriesFine(v) /\ (Known(v, FallbackEntry) => Timed /\ WrittenOff(v))

\* The entry's time limit runs only where the plan has one.
MemFine(m) == "deadline" \in DOMAIN m /\ (m.deadline # "none" => Timeout)

SaleInv ==
    /\ Sales(venue)
    /\ At("fallback") => Timed /\ WrittenOff(venue)
    /\ At("entry_gone") /\ look.fallback =>
         /\ Timed /\ Known(venue, Entry) /\ ~Resting(venue, Entry)
         /\ ~Known(venue, FallbackEntry) /\ Blank(rec)
    /\ Timed /\ look.entryOpen /\ (\E i \in 1 .. Len(todo) : todo[i] = "overdue") =>
         /\ At("overdue")
         /\ Known(venue, Entry) /\ ~Known(venue, FallbackEntry) /\ Blank(rec)
    /\ MemFine(mem)

-----------------------------------------------------------------------------
(* The stages of a job *)

\* Stages that some other stage has to follow, or that a stage may follow only
\* in its place.
Leads == {"entry", "target", "stop", "settle_target", "settle_stop", "take_off",
          "submit"}

\* What is left of a job in order is in order, from any stage on.
LEMMA OrderedRest ==
    ASSUME NEW t \in Seq(Stage), Ordered(t), NEW k \in Nat \ {0}
    PROVE  Ordered(SubSeq(t, k, Len(t)))
<1>1. t \in Seq(Stage) /\ Len(t) \in Nat
  BY DEF Ordered
<1>2. CASE k <= Len(t)
  <2> DEFINE u == SubSeq(t, k, Len(t))
  <2>1. /\ u \in Seq(Stage) /\ Len(u) = Len(t) - k + 1
        /\ \A i \in 1 .. Len(u) : u[i] = t[i + k - 1]
    BY <1>1, <1>2
  <2> HIDE DEF u
  <2>2. \A i \in 2 .. Len(u) : Follows(u[i - 1], u[i])
    <3> TAKE i \in 2 .. Len(u)
    <3>1. i + k - 1 \in 2 .. Len(t) /\ i - 1 \in 1 .. Len(u) /\ i \in 1 .. Len(u)
      BY <1>1, <1>2, <2>1
    <3>2. u[i] = t[i + k - 1] /\ u[i - 1] = t[(i + k - 1) - 1]
      BY <2>1, <3>1
    <3>3. Follows(t[(i + k - 1) - 1], t[i + k - 1])
      BY <3>1 DEF Ordered
    <3> QED
      BY <3>2, <3>3
  <2> QED
    BY <2>1, <2>2 DEF Ordered, u
<1>3. CASE k > Len(t)
  <2>1. SubSeq(t, k, Len(t)) = <<>>
    BY <1>1, <1>3, SubSeqEmpty
  <2> QED
    BY <2>1 DEF Ordered
<1> QED
  BY <1>1, <1>2, <1>3

\* The stages after the first are in order, and none needs the first.
LEMMA OrderedTail ==
    ASSUME NEW t \in Seq(Stage), Ordered(t), t # <<>>
    PROVE  /\ Ordered(Tail(t)) /\ Tail(t) = SubSeq(t, 2, Len(t))
           /\ Len(t) \in Nat /\ Len(t) >= 1 /\ Head(t) = t[1]
           /\ Len(Tail(t)) = Len(t) - 1
           /\ \A i \in 1 .. Len(Tail(t)) : Tail(t)[i] = t[i + 1]
<1>1. t \in Seq(Stage)
  BY DEF Ordered
<1>2. Tail(t) = SubSeq(t, 2, Len(t))
  BY <1>1, TailIsSubSeq
<1>3. Ordered(SubSeq(t, 2, Len(t)))
  BY OrderedRest
<1>4. Len(t) \in Nat /\ Len(t) >= 1 /\ Head(t) = t[1] /\ Len(Tail(t)) = Len(t) - 1
  BY <1>1
<1>5. \A i \in 1 .. Len(Tail(t)) : Tail(t)[i] = t[i + 1]
  BY <1>1
<1>6. Ordered(Tail(t))
  BY <1>2, <1>3, Zenon
<1> QED
  BY <1>2, <1>4, <1>5, <1>6

\* Stages put before what comes after a stage that leads to none.
LEMMA Prepended ==
    ASSUME NEW t \in Seq(Stage), Ordered(t), NEW k \in Nat, k >= 2, k <= Len(t) => t[k - 1] \notin Leads,
           NEW s \in Seq(Stage), Ordered(s), s # <<>>, s[Len(s)] \notin {"settle_target", "settle_stop"}
    PROVE  /\ Ordered(s \o SubSeq(t, k, Len(t)))
           /\ s \o SubSeq(t, k, Len(t)) # <<>>
           /\ (s \o SubSeq(t, k, Len(t)))[1] = s[1]
<1> DEFINE u == SubSeq(t, k, Len(t))
           w == s \o u
<1>1. /\ Ordered(u) /\ u \in Seq(Stage) /\ Len(u) \in Nat
      /\ s \in Seq(Stage) /\ Len(s) \in Nat \ {0}
      /\ t \in Seq(Stage) /\ Len(t) \in Nat
  <2>1. k \in Nat \ {0}
    OBVIOUS
  <2>2. Ordered(u)
    BY <2>1, OrderedRest
  <2> HIDE DEF u
  <2>3. u \in Seq(Stage) /\ s \in Seq(Stage) /\ t \in Seq(Stage)
    BY <2>2 DEF Ordered
  <2> QED
    BY <2>2, <2>3
<1>2. Len(u) >= 1 => k <= Len(t) /\ u[1] = t[k]
  <2>1. CASE k <= Len(t)
    <3>1. k \in 1 .. Len(t)
      BY <1>1, <2>1
    <3> QED
      BY <1>1, <2>1, <3>1
  <2>2. CASE k > Len(t)
    <3>1. SubSeq(t, k, Len(t)) = <<>>
      BY <1>1, <2>2, SubSeqEmpty
    <3> QED
      BY <3>1
  <2> QED
    BY <1>1, <2>1, <2>2
<1> HIDE DEF u
<1>3. /\ w \in Seq(Stage) /\ Len(w) = Len(s) + Len(u)
      /\ \A i \in 1 .. Len(s) : w[i] = s[i]
      /\ \A i \in 1 .. Len(u) : w[i + Len(s)] = u[i]
  BY <1>1
<1> HIDE DEF w
<1>4. ASSUME NEW i \in 2 .. Len(w) PROVE Follows(w[i - 1], w[i])
  <2>1. CASE i <= Len(s)
    <3>1. w[i] = s[i] /\ w[i - 1] = s[i - 1] /\ i \in 2 .. Len(s)
      BY <1>1, <1>3, <1>4, <2>1
    <3> QED
      BY <3>1 DEF Ordered
  <2>2. CASE i = Len(s) + 1
    <3>1. w[i - 1] = s[Len(s)] /\ w[i] = u[1] /\ Len(u) >= 1
      BY <1>1, <1>3, <1>4, <2>2
    <3>2. k \in 2 .. Len(t) /\ u[1] = t[k]
      BY <1>1, <1>2, <3>1
    <3>3. t[k - 1] \notin Leads /\ Follows(t[k - 1], u[1])
      BY <3>2 DEF Ordered
    <3> QED
      BY <3>1, <3>3 DEF Follows, Leads
  <2>3. CASE i > Len(s) + 1
    <3> DEFINE j == i - Len(s)
    <3>1. j \in 2 .. Len(u) /\ w[i] = u[j] /\ w[i - 1] = u[j - 1]
      <4>1. j \in 2 .. Len(u) /\ i = j + Len(s) /\ i - 1 = (j - 1) + Len(s)
            /\ j \in 1 .. Len(u) /\ j - 1 \in 1 .. Len(u)
        BY <1>1, <1>3, <1>4, <2>3
      <4> HIDE DEF j
      <4> QED
        BY <1>3, <4>1
    <3> HIDE DEF j
    <3> QED
      BY <1>1, <3>1 DEF Ordered
  <2>4. i \in Int /\ Len(s) \in Int
    BY <1>1
  <2> QED
    BY <2>1, <2>2, <2>3, <2>4
<1>5. w # <<>> /\ w[1] = s[1]
  <2>1. Len(w) \in Nat \ {0} /\ 1 \in 1 .. Len(s)
    BY <1>1, <1>3
  <2> QED
    BY <1>3, <2>1
<1> QED
  BY <1>3, <1>4, <1>5 DEF Ordered, u, w

\* The stages of each kind of job are in order.
LEMMA StagesOrdered ==
    /\ Ordered(PollStages) /\ Ordered(CloseStages) /\ Ordered(ReconcileStages)
    /\ Ordered(<<>>)
    /\ \A s \in Stage : Ordered(<<s>>)
    /\ Ordered(<<"settle_target", "settle_stop", "record">>)
<1>1. Ordered(PollStages)
  <2> DEFINE t == PollStages
  <2>1. t \in Seq(Stage) /\ Len(t) = 9
    BY DEF PollStages, Stage
  <2>2. /\ t[1] = "entry" /\ t[2] = "target" /\ t[3] = "stop" /\ t[4] = "overdue"
        /\ t[5] = "losers" /\ t[6] = "follow" /\ t[7] = "cover" /\ t[8] = "judge"
        /\ t[9] = "close_out"
    BY DEF PollStages
  <2> HIDE DEF t
  <2>3. \A i \in 2 .. 9 : Follows(t[i - 1], t[i])
    <3> TAKE i \in 2 .. 9
    <3>1. i = 2 \/ i = 3 \/ i = 4 \/ i = 5 \/ i = 6 \/ i = 7 \/ i = 8 \/ i = 9
      OBVIOUS
    <3> QED
      BY <2>2, <3>1 DEF Follows
  <2> QED
    BY <2>1, <2>3 DEF Ordered, t
<1>2. Ordered(CloseStages)
  <2> DEFINE t == CloseStages
  <2>1. t \in Seq(Stage) /\ Len(t) = 4
    BY DEF CloseStages, Stage
  <2>2. t[1] = "sync" /\ t[2] = "take_off" /\ t[3] = "submit" /\ t[4] = "send"
    BY DEF CloseStages
  <2> HIDE DEF t
  <2>3. \A i \in 2 .. 4 : Follows(t[i - 1], t[i])
    BY <2>2 DEF Follows
  <2> QED
    BY <2>1, <2>3 DEF Ordered, t
<1>3. Ordered(ReconcileStages)
  <2> DEFINE t == ReconcileStages
  <2>1. t \in Seq(Stage) /\ Len(t) = 4
    BY DEF ReconcileStages, Stage
  <2>2. t[1] = "look_again" /\ t[2] = "recover" /\ t[3] = "sync" /\ t[4] = "never_landed"
    BY DEF ReconcileStages
  <2> HIDE DEF t
  <2>3. \A i \in 2 .. 4 : Follows(t[i - 1], t[i])
    BY <2>2 DEF Follows
  <2> QED
    BY <2>1, <2>3 DEF Ordered, t
<1>4. Ordered(<<>>) /\ \A s \in Stage : Ordered(<<s>>)
  BY DEF Ordered
<1>5. Ordered(<<"settle_target", "settle_stop", "record">>)
  <2> DEFINE t == <<"settle_target", "settle_stop", "record">>
  <2>1. t \in Seq(Stage) /\ Len(t) = 3
    BY DEF Stage
  <2>2. t[1] = "settle_target" /\ t[2] = "settle_stop" /\ t[3] = "record"
    OBVIOUS
  <2> HIDE DEF t
  <2>3. \A i \in 2 .. 3 : Follows(t[i - 1], t[i])
    BY <2>2 DEF Follows
  <2> QED
    BY <2>1, <2>3 DEF Ordered, t
<1> QED
  BY <1>1, <1>2, <1>3, <1>4, <1>5

\* Go() passes over the stages that have nothing to do.
LEMMA GoLands ==
    ASSUME NEW r, NEW l, NEW m, NEW stages \in Seq(Stage), Go(r, l, m, stages), todo' # <<>>
    PROVE  \E k \in 1 .. Len(stages) :
             /\ todo' = SubSeq(stages, k, Len(stages))
             /\ Applies(stages[k], r, l, m)
             /\ \A i \in 1 .. k - 1 : ~Applies(stages[i], r, l, m)
<1> DEFINE ready == {i \in DOMAIN stages : Applies(stages[i], r, l, m)}
<1>1. DOMAIN stages = 1 .. Len(stages) /\ Len(stages) \in Nat
  OBVIOUS
<1>2. ready # {} /\ todo' = SubSeq(stages, Min(ready), Len(stages))
  <2>1. todo' = IF ready = {} THEN <<>> ELSE SubSeq(stages, Min(ready), Len(stages))
    BY DEF Go
  <2> HIDE DEF ready
  <2> QED
    BY <2>1
<1>3. ready \in SUBSET Nat
  BY <1>1
<1>4. PICK k \in ready : \A i \in ready : k <= i
  <2> HIDE DEF ready
  <2> QED
    BY <1>2, <1>3, Recovering!Least
<1>5. Min(ready) = k
  <2> HIDE DEF ready
  <2>1. \A n \in ready : (\A i \in ready : n <= i) => n = k
    BY <1>3, <1>4
  <2> QED
    BY <1>4, <2>1 DEF Min
<1>6. k \in 1 .. Len(stages) /\ Applies(stages[k], r, l, m)
  BY <1>1, <1>4
<1>7. \A i \in 1 .. k - 1 : ~Applies(stages[i], r, l, m)
  <2> SUFFICES ASSUME NEW i \in 1 .. k - 1, Applies(stages[i], r, l, m) PROVE FALSE
    OBVIOUS
  <2>1. i \in 1 .. Len(stages) /\ ~(k <= i)
    BY <1>1, <1>6
  <2>2. i \in ready
    BY <1>1, <2>1
  <2> HIDE DEF ready
  <2> QED
    BY <1>4, <2>1, <2>2
<1> HIDE DEF ready
<1> QED
  BY <1>2, <1>5, <1>6, <1>7

\* A stage that Go() comes to has something to do.
LEMMA WhatApplies ==
    ASSUME NEW r, NEW l, NEW m, NEW h, Applies(h, r, l, m)
    PROVE  /\ h \in {"cover", "protect", "submit", "send"} => r.position < 0
           /\ h = "follow" => r.position # 0 /\ r.closing # None
           /\ h = "overdue" => l.entryOpen
           /\ h = "target" => r.takeProfit # None
           /\ h = "stop" => r.stopLoss # None
<1>1. h = "cover" => r.position < 0
  BY DEF Applies, Uncovered
<1>2. h \in {"protect", "submit", "send"} => r.position < 0
  BY DEF Applies
<1>3. h = "follow" => r.position # 0 /\ r.closing # None
  BY DEF Applies
<1>4. h = "overdue" => l.entryOpen
  BY DEF Applies
<1>5. (h = "target" => r.takeProfit # None) /\ (h = "stop" => r.stopLoss # None)
  BY DEF Applies
<1> QED
  BY <1>1, <1>2, <1>3, <1>4, <1>5

\* Stages that are never passed over.
LEMMA AlwaysApplies ==
    ASSUME NEW r, NEW l, NEW m
    PROVE  /\ \A h \in {"settle_target", "settle_stop", "record"} : Applies(h, r, l, m)
           /\ Applies("send", r, l, m) => Applies("submit", r, l, m)
    BY DEF Applies

\* Where a job goes on with r and l, it comes to a stage that it may come to.
LEMMA GoesOnFine ==
    ASSUME NEW r, NEW l, NEW m, NEW stages \in Seq(Stage), Ordered(stages),
           Go(r, l, m, stages), todo' # <<>>,
           stages[1] \in {"settle_target", "settle_stop", "record"} => r.position < 0,
           stages[1] = "send" => r.closing.order \notin Entries
    PROVE  /\ Ordered(todo') /\ todo' \in Seq(Stage) /\ Head(todo') = todo'[1]
           /\ HeadFine(todo'[1], r, l)
           /\ rec' = r /\ look' = l
           /\ todo'[1] \in {"entry", "entry_gone", "fallback"} => stages[1] = todo'[1]
           /\ \A i \in 1 .. Len(todo') : \E j \in 1 .. Len(stages) : todo'[i] = stages[j]
<1>1. rec' = r /\ look' = l
  BY DEF Go
<1>2. PICK k \in 1 .. Len(stages) :
        /\ todo' = SubSeq(stages, k, Len(stages))
        /\ Applies(stages[k], r, l, m)
        /\ \A i \in 1 .. k - 1 : ~Applies(stages[i], r, l, m)
  BY GoLands
<1>3. Ordered(todo')
  <2>1. k \in Nat \ {0}
    OBVIOUS
  <2> QED
    BY <1>2, <2>1, OrderedRest
<1>4. todo' \in Seq(Stage) /\ Head(todo') = todo'[1] /\ todo'[1] = stages[k]
      /\ Len(todo') = Len(stages) - k + 1
      /\ \A i \in 1 .. Len(todo') : todo'[i] = stages[i + k - 1]
  BY <1>2
<1>5. \A i \in 1 .. Len(todo') : \E j \in 1 .. Len(stages) : todo'[i] = stages[j]
  <2> TAKE i \in 1 .. Len(todo')
  <2>1. i + k - 1 \in 1 .. Len(stages) /\ todo'[i] = stages[i + k - 1]
    BY <1>4
  <2> QED
    BY <2>1
<1>6. k = 1 \/ Follows(stages[k - 1], stages[k])
  BY DEF Ordered
<1>7. k = 1 \/ ~Applies(stages[k - 1], r, l, m)
  BY <1>2
<1>8. CASE k = 1
  <2>1. HeadFine(stages[1], r, l)
    BY <1>2, <1>8, WhatApplies DEF HeadFine
  <2> QED
    BY <1>1, <1>3, <1>4, <1>5, <1>8, <2>1
<1>9. CASE k # 1
  <2>1. /\ stages[k] \notin {"entry", "entry_gone", "fallback", "settle_target"}
        /\ stages[k] = "settle_stop" => stages[k - 1] = "settle_target"
        /\ stages[k] = "record" => stages[k - 1] = "settle_stop"
        /\ stages[k] = "send" => stages[k - 1] = "submit"
    BY <1>6, <1>9 DEF Follows
  <2>2. stages[k] \notin {"settle_stop", "record", "send"}
    BY <1>2, <1>7, <1>9, <2>1, AlwaysApplies
  <2>3. HeadFine(stages[k], r, l)
    BY <1>2, <2>1, <2>2, WhatApplies DEF HeadFine
  <2> QED
    BY <1>1, <1>3, <1>4, <1>5, <2>1, <2>3
<1> QED
  BY <1>8, <1>9

\* The entry's time limit is looked at once in a job, after the orders.
LEMMA OverdueComes ==
    ASSUME NEW t \in Seq(Stage), Ordered(t), NEW i \in 1 .. Len(t), t[i] = "overdue"
    PROVE  /\ t[1] \in {"entry", "target", "stop", "overdue"}
           /\ i > 1 => t[1] # "overdue"
<1>1. \A j \in 2 .. Len(t) :
        /\ t[j] # "entry"
        /\ t[j] = "target" => t[j - 1] = "entry"
        /\ t[j] = "stop" => t[j - 1] = "target"
        /\ t[j] = "overdue" => t[j - 1] = "stop"
  BY DEF Ordered, Follows
<1>2. CASE i = 1
  BY <1>2
<1>3. CASE i > 1
  <2>1. i \in 2 .. Len(t) /\ t[i - 1] = "stop"
    BY <1>1, <1>3
  <2>2. CASE i = 2
    BY <2>1, <2>2
  <2>3. CASE i > 2
    <3>1. i - 1 \in 2 .. Len(t) /\ t[(i - 1) - 1] = "target"
      BY <1>1, <2>1, <2>3
    <3>2. CASE i = 3
      BY <3>1, <3>2
    <3>3. CASE i > 3
      <4>1. i - 2 \in 2 .. Len(t) /\ t[i - 2] = "target"
        BY <3>1, <3>3
      <4>2. t[(i - 2) - 1] = "entry" /\ (i - 2) - 1 \in 1 .. Len(t)
        BY <1>1, <4>1
      <4>3. (i - 2) - 1 = 1
        BY <1>1, <4>2
      <4> QED
        BY <4>2, <4>3
    <3> QED
      BY <2>3, <3>2, <3>3
  <2> QED
    BY <2>1, <2>2, <2>3
<1> QED
  BY <1>2, <1>3

-----------------------------------------------------------------------------
(* What happens to a record *)

\* An exit as it may be written down.
NoEntry(o) == o # None => o \notin Entries

\* No event writes an entry down as an exit.
LEMMA EventsFine ==
    ASSUME NEW s, Fine(s)
    PROVE  /\ Fine(Aborted(s)) /\ Fine(EntrySubmitted(s)) /\ Fine(EntrySubmitUnknown(s))
           /\ \A waiting : Fine(Opens(s, waiting))
           /\ Fine(EntryCancelled(s))
           /\ \A role : Fine(WonBy(s, role)) /\ Fine(SiblingCancelled(s, role))
           /\ \A p, q, n : NoEntry(p) /\ NoEntry(q) => Fine(ProtectionPlaced(s, p, q, n))
           /\ \A b : Fine(ProtectionFailed(s, b))
           /\ \A c : c.order \notin Entries => Fine(ExitSubmitted(s, c))
           /\ \A n : Fine(Reconciled(s, n))
<1>0. {"phase", "position", "entrySize", "exitSize", "booked", "takeProfit", "stopLoss",
       "cover", "winner", "closing", "alarm", "marks", "exits"} = DOMAIN s
  BY DEF Fine, InitialTrade
<1> USE DEF Fine
<1>1. Fine(Aborted(s)) /\ Fine(EntrySubmitted(s)) /\ Fine(EntrySubmitUnknown(s))
  BY <1>0 DEF Aborted, EntrySubmitted, EntrySubmitUnknown
<1>2. \A waiting : Fine(Opens(s, waiting))
  BY <1>0 DEF Opens
<1>3. Fine(EntryCancelled(s))
  BY <1>1, <1>2 DEF EntryCancelled
<1>4. \A role : Fine(WonBy(s, role)) /\ Fine(SiblingCancelled(s, role))
  BY <1>0 DEF WonBy, SiblingCancelled
<1>5. \A p, q, n : NoEntry(p) /\ NoEntry(q) => Fine(ProtectionPlaced(s, p, q, n))
  BY <1>0 DEF ProtectionPlaced, NoEntry
<1>6. \A b : Fine(ProtectionFailed(s, b))
  BY <1>0 DEF ProtectionFailed
<1>7. \A c : c.order \notin Entries => Fine(ExitSubmitted(s, c))
  BY <1>0 DEF ExitSubmitted
<1>8. \A n : Fine(Reconciled(s, n))
  BY <1>0 DEF Reconciled
<1> HIDE DEF Fine
<1> QED
  BY <1>1, <1>2, <1>3, <1>4, <1>5, <1>6, <1>7, <1>8

\* Nor does a fill.
LEMMA FillFine ==
    ASSUME NEW s, Fine(s), NEW o, NEW n
    PROVE  Fine(Fill(s, o, n))
<1> DEFINE entry == s.entrySize + IF o \in Entries THEN n ELSE 0
           exit == s.exitSize + IF o \in Entries THEN 0 ELSE n
           t == [s EXCEPT !.booked[o] = @ + n, !.entrySize = entry,
                          !.exitSize = exit, !.position = exit - entry]
<1>1. Fine(t)
  <2>1. {"takeProfit", "stopLoss", "closing"} \subseteq DOMAIN s
    BY DEF Fine, InitialTrade
  <2> HIDE DEF entry, exit
  <2> QED
    BY <2>1 DEF Fine
<1>2. Fill(s, o, n) = IF o \in Entries
                        THEN Opens(t, {"entry_pending", "entry_unknown", "precheck"})
                        ELSE ExitFill(t, IF o \in Closes THEN "manual" ELSE o[1])
  BY DEF Fill
<1> HIDE DEF t
<1>3. /\ Fine([t EXCEPT !.closing = None, !.phase = "position_open"])
      /\ Fine([t EXCEPT !.winner = IF @ # None THEN @ ELSE "manual", !.phase = "exit_pending"])
  <2>1. {"takeProfit", "stopLoss", "closing", "winner", "phase"} \subseteq DOMAIN t
    BY <1>1 DEF Fine, InitialTrade
  <2> QED
    BY <1>1, <2>1 DEF Fine
<1>4. \A role : Fine(WonBy(t, role)) /\ Fine(Opens(t, {"entry_pending", "entry_unknown", "precheck"}))
  BY <1>1, EventsFine
<1>5. \A role : Fine(ExitFill(t, role))
  BY <1>1, <1>3, <1>4 DEF ExitFill
<1> QED
  BY <1>2, <1>4, <1>5

\* absorb() takes an order's fills in, and writes no order down.
LEMMA AbsorbFine ==
    ASSUME NEW s, Fine(s)
    PROVE  /\ \A o, filled, rejected : Fine(Absorb(s, o, filled, rejected))
           /\ \A v, o : Fine(AbsorbOf(v, s, o))
<1>1. ASSUME NEW o, NEW filled, NEW rejected PROVE Fine(Absorb(s, o, filled, rejected))
  <2> DEFINE fresh == filled - s.booked[o]
             t == IF fresh > 0 THEN Fill(s, o, fresh) ELSE s
  <2>1. Fine(t)
    <3>1. Fine(Fill(s, o, fresh))
      BY FillFine
    <3> HIDE DEF fresh
    <3> QED
      BY <3>1
  <2>2. Absorb(s, o, filled, rejected) = IF rejected THEN Aborted(t) ELSE t
    BY DEF Absorb
  <2> HIDE DEF t
  <2> QED
    BY <2>1, <2>2, EventsFine
<1> QED
  BY <1>1 DEF AbsorbOf

\* A record with no fill has none after an event that is no fill.
LEMMA EventsBlank ==
    ASSUME NEW s, Fine(s), Blank(s)
    PROVE  /\ Blank(Aborted(s)) /\ Blank(EntrySubmitted(s)) /\ Blank(EntrySubmitUnknown(s))
           /\ Blank(EntryCancelled(s)) /\ \A c : Blank(ExitSubmitted(s, c))
           /\ Blank(Reconciled(s, 0))
<1>0. {"phase", "position", "entrySize", "exitSize", "booked", "takeProfit", "stopLoss",
       "cover", "winner", "closing", "alarm", "marks", "exits"} = DOMAIN s
  BY DEF Fine, InitialTrade
<1> USE DEF Blank
<1>1. Blank(Aborted(s)) /\ Blank(EntrySubmitted(s)) /\ Blank(EntrySubmitUnknown(s))
  BY <1>0 DEF Aborted, EntrySubmitted, EntrySubmitUnknown
<1>2. Blank(EntryCancelled(s))
  BY <1>1 DEF EntryCancelled
<1>3. \A c : Blank(ExitSubmitted(s, c))
  BY <1>0 DEF ExitSubmitted
<1>4. Blank(Reconciled(s, 0))
  BY <1>0 DEF Reconciled
<1> QED
  BY <1>1, <1>2, <1>3, <1>4

\* Of an order that has filled nothing there is nothing to take in.
LEMMA AbsorbBlank ==
    ASSUME NEW s, Fine(s), Blank(s), NEW o \in Order, NEW rejected
    PROVE  /\ Absorb(s, o, 0, rejected) = s \/ Absorb(s, o, 0, rejected) = Aborted(s)
           /\ ~rejected => Absorb(s, o, 0, rejected) = s
           /\ Blank(Absorb(s, o, 0, rejected))
<1>1. ~(0 - s.booked[o] > 0)
  BY DEF Blank
<1>2. Absorb(s, o, 0, rejected) = IF rejected THEN Aborted(s) ELSE s
  BY <1>1 DEF Absorb
<1> QED
  BY <1>2, EventsBlank

\* What recoverFills() comes to with no fills to find is what it began with.
StaysFine(r, orders, t, u) == Fine(t) /\ (orders = {} => t = r)

Finding == INSTANCE Folding WITH One <- TakeIn, Two <- TakeIn, Good <- StaysFine

\* recoverFills() writes no order down, and leaves a record alone where
\* there is nothing to find.
LEMMA RecoverFine ==
    ASSUME NEW r, Fine(r)
    PROVE  /\ Fine(RecoverFills(r))
           /\ (\A o \in Order : ~(venue.order[o].filled > 0)) => RecoverFills(r) = r
<1> DEFINE Filled(orders) == {o \in orders : venue.order[o].filled > 0}
           F(base, S) == Finding!FoldOne(r, base, S)
<1>1. ASSUME NEW S, IsFiniteSet(S), NEW base, Fine(base)
      PROVE  Fine(F(base, S))
  <2>1. IsFiniteSet(S) <=> Finding!IsFiniteSet(S)
    BY DEF IsFiniteSet, Finding!IsFiniteSet
  <2>2. \A s \in SUBSET S : \A o \in s : \A t, u :
          StaysFine(base, s \ {o}, t, u) => StaysFine(base, s, TakeIn(base, o, t), TakeIn(base, o, u))
    BY AbsorbFine DEF StaysFine, TakeIn, AbsorbNow
  <2>3. StaysFine(base, {}, base, base)
    BY <1>1 DEF StaysFine
  <2>4. StaysFine(base, S, Finding!FoldOne(base, base, S), Finding!FoldTwo(base, base, S))
    BY <1>1, <2>1, <2>2, <2>3, Finding!FoldTogether
  <2>5. Finding!FoldOne(base, base, S) = F(base, S)
    BY DEF Finding!FoldOne, TakeIn
  <2> QED
    BY <2>4, <2>5 DEF StaysFine
<1>2. \A base : Fine(base) => F(base, {}) = base
  <2> SUFFICES ASSUME NEW base, Fine(base) PROVE F(base, {}) = base
    OBVIOUS
  <2>1. Finding!IsFiniteSet({})
    BY FS_EmptySet DEF IsFiniteSet, Finding!IsFiniteSet
  <2>2. StaysFine(base, {}, base, base)
    BY DEF StaysFine
  <2>3. StaysFine(base, {}, Finding!FoldOne(base, base, {}), Finding!FoldTwo(base, base, {}))
    BY <2>1, <2>2, Finding!FoldTogether
  <2>4. Finding!FoldOne(base, base, {}) = F(base, {})
    BY DEF Finding!FoldOne, TakeIn
  <2> QED
    BY <2>3, <2>4 DEF StaysFine
<1>3. IsFiniteSet(Filled(Entries)) /\ IsFiniteSet(Filled(Exits))
  BY OrdersAreFinite, FS_Subset
<1>4. RecoverFills(r) = F(F(r, Filled(Exits)), Filled(Entries))
  BY DEF RecoverFills, Finding!FoldOne, Finding!FoldSet, Finding!MapThenFoldSet,
    FoldSet, MapThenFoldSet, TakeIn
<1>5. (\A o \in Order : ~(venue.order[o].filled > 0)) => Filled(Entries) = {} /\ Filled(Exits) = {}
  BY DEF Order
<1> HIDE DEF Filled, F
<1>6. Fine(F(r, Filled(Exits)))
  BY <1>1, <1>3
<1>7. Fine(RecoverFills(r))
  BY <1>1, <1>3, <1>4, <1>6
<1> QED
  BY <1>2, <1>4, <1>5, <1>7

-----------------------------------------------------------------------------
(* What happens to the two entries at the venue *)

\* The venue has an account of its position and of what each entry is for.
Kept(v, w) ==
    /\ Sound(w) /\ "net" \in DOMAIN w
    /\ \A o \in Entries :
         /\ "size" \in DOMAIN w.order[o]
         /\ w.order[o].size = v.order[o].size /\ w.order[o].filled = v.order[o].filled
         /\ Known(w, o) <=> Known(v, o)
         /\ Resting(w, o) => Resting(v, o)

\* What happens to other orders leaves the entries as they are.
Whole(v) == Kept(v, v)

\* One after the other, two things that leave the entries alone do.
LEMMA KeptOn ==
    /\ \A u, v, w : Kept(u, v) /\ Kept(v, w) => Kept(u, w)
    /\ \A v, w : Kept(v, w) => Whole(w)
  BY DEF Kept, Whole

\* What leaves the entries alone keeps the venue's account of them.
LEMMA KeptIsFine ==
    ASSUME NEW v, EntriesFine(v), NEW w, Kept(v, w)
    PROVE  /\ EntriesFine(w) /\ (Unsold(w) <=> Unsold(v)) /\ (WrittenOff(v) => WrittenOff(w))
           /\ \A o \in Entries : Known(w, o) <=> Known(v, o)
           /\ \A o \in Entries : Resting(w, o) => Resting(v, o)
<1>1. Entry \in Entries
  BY DEF Entries
<1>2. /\ \A o \in Entries : Known(w, o) <=> Known(v, o)
      /\ \A o \in Entries : Resting(w, o) => Resting(v, o)
      /\ \A o \in Entries : w.order[o].size = v.order[o].size
      /\ \A o \in Entries : w.order[o].filled = v.order[o].filled
      /\ \A o \in Entries : "size" \in DOMAIN w.order[o]
      /\ "net" \in DOMAIN w
  BY DEF Kept
<1>3. Unsold(w) <=> Unsold(v)
  BY <1>2 DEF Unsold
<1>4. WrittenOff(v) => WrittenOff(w)
  BY <1>1, <1>2 DEF WrittenOff
<1>5. EntriesFine(w)
  BY <1>1, <1>2 DEF EntriesFine
<1> QED
  BY <1>2, <1>3, <1>4, <1>5

\* An order that is no entry may be written anew.
LEMMA WithKept ==
    ASSUME NEW v, Whole(v), NEW o, NEW s, Sound(With(v, o, s)),
           o \in Entries => /\ "size" \in DOMAIN s
                            /\ s.size = v.order[o].size /\ s.filled = v.order[o].filled
                            /\ s.status # "none" <=> v.order[o].status # "none"
                            /\ s.status = "open" => v.order[o].status = "open"
    PROVE  Kept(v, With(v, o, s)) /\ With(v, o, s).net = v.net
<1>1. "order" \in DOMAIN v /\ "net" \in DOMAIN v
  BY DEF Whole, Kept, Sound
<1>2. /\ "net" \in DOMAIN With(v, o, s) /\ With(v, o, s).net = v.net
      /\ \A p \in Order : With(v, o, s).order[p] = IF p = o THEN s ELSE v.order[p]
  BY <1>1 DEF With
<1>3. \A p \in Entries : p \in Order
  BY DEF Order
<1> HIDE DEF With
<1>4. \A p \in Entries :
        /\ "size" \in DOMAIN With(v, o, s).order[p]
        /\ With(v, o, s).order[p].size = v.order[p].size
        /\ With(v, o, s).order[p].filled = v.order[p].filled
        /\ Known(With(v, o, s), p) <=> Known(v, p)
        /\ Resting(With(v, o, s), p) => Resting(v, p)
  <2> TAKE p \in Entries
  <2>1. CASE p = o
    <3>1. With(v, o, s).order[p] = s
      BY <1>2, <1>3, <2>1
    <3> QED
      BY <2>1, <3>1 DEF Known, Resting
  <2>2. CASE p # o
    <3>1. With(v, o, s).order[p] = v.order[p]
      BY <1>2, <1>3, <2>2
    <3> QED
      BY <3>1 DEF Whole, Kept, Known, Resting
  <2> QED
    BY <2>1, <2>2
<1> QED
  BY <1>2, <1>4 DEF Kept

\* An order that comes to its end fills no more by it.
LEMMA SettleKept ==
    ASSUME NEW v, Whole(v), NEW o, NEW status \in {"over", "rejected"}
    PROVE  /\ Kept(v, Settle(v, o, status)) /\ Settle(v, o, status).net = v.net
           /\ Sound(v)
           /\ o \in Order /\ Known(v, o) => ~Resting(Settle(v, o, status), o)
<1>0. Sound(v)
  BY DEF Whole, Kept
<1>1. CASE ~Resting(v, o)
  BY <1>0, <1>1 DEF Settle, Whole
<1>2. CASE Resting(v, o)
  <2> DEFINE s == [v.order[o] EXCEPT !.status = status]
  <2>1. Settle(v, o, status) = With(v, o, s)
    BY <1>2 DEF Settle
  <2>2. Sound(With(v, o, s))
    BY <1>0, <2>1, SettleGrows DEF Grows
  <2>3. o \in Order => {"status", "filled"} \subseteq DOMAIN v.order[o]
    BY <1>0 DEF Sound
  <2>4. o \in Order => s.status = status /\ s.filled = v.order[o].filled
    BY <2>3
  <2>5. o \in Entries => /\ o \in Order /\ "size" \in DOMAIN s /\ s.size = v.order[o].size
    BY <2>3 DEF Order, Whole, Kept
  <2>6. v.order[o].status = "open"
    BY <1>2 DEF Resting
  <2> HIDE DEF s
  <2>7. Kept(v, With(v, o, s)) /\ With(v, o, s).net = v.net
    BY <2>2, <2>4, <2>5, <2>6, WithKept
  <2>8. o \in Order => ~Resting(With(v, o, s), o)
    <3>1. o \in Order => With(v, o, s).order[o] = s
      BY <1>0 DEF With, Sound
    <3> QED
      BY <2>4, <3>1 DEF Resting
  <2> QED
    BY <1>0, <2>1, <2>7, <2>8
<1> QED
  BY <1>1, <1>2

\* The other orders may be moved, put on and filled.
LEMMA ExitsKeep ==
    ASSUME NEW v, Whole(v), NEW o, o \notin Entries, NEW size
    PROVE  /\ Kept(v, Edit(v, o, size)) /\ Kept(v, Accept(v, o, size))
           /\ \A n \in Nat : Kept(v, Fills(v, o, n))
<1>0. Sound(v)
  BY DEF Whole, Kept
<1>1. Kept(v, Edit(v, o, size))
  <2>1. Sound(Edit(v, o, size))
    BY <1>0, EditGrows DEF Grows
  <2> QED
    BY <2>1, WithKept DEF Edit
<1>2. Kept(v, Accept(v, o, size))
  <2>1. Sound(Accept(v, o, size))
    BY <1>0, AcceptGrows DEF Grows
  <2>2. CASE Known(v, o)
    BY <2>2 DEF Accept, Whole
  <2>3. CASE ~Known(v, o)
    BY <2>1, <2>3, WithKept DEF Accept
  <2> QED
    BY <2>2, <2>3
<1>3. ASSUME NEW n \in Nat PROVE Kept(v, Fills(v, o, n))
  <2> DEFINE was == v.order[o]
             now == [was EXCEPT !.filled = @ + n,
                                !.status = IF was.filled + n >= was.size THEN "over" ELSE "open"]
             w == With(v, o, now)
  <2>1. Sound(Fills(v, o, n))
    BY <1>0, FillsGrows DEF Grows
  <2>2. "order" \in DOMAIN v /\ "net" \in DOMAIN v
    BY <1>0 DEF Whole, Kept, Sound
  <2>3. /\ "order" \in DOMAIN w /\ "net" \in DOMAIN w
        /\ \A p \in Entries : w.order[p] = v.order[p]
    <3>1. \A p \in Entries : p \in Order /\ p # o
      BY DEF Order
    <3> HIDE DEF now
    <3> QED
      BY <2>2, <3>1 DEF With
  <2>4. \E m : Fills(v, o, n) = [w EXCEPT !.net = m]
    BY DEF Fills
  <2> HIDE DEF w
  <2>5. /\ "net" \in DOMAIN Fills(v, o, n)
        /\ \A p \in Entries : Fills(v, o, n).order[p] = v.order[p]
    BY <2>3, <2>4
  <2> QED
    BY <2>1, <2>5 DEF Whole, Kept, Known, Resting
<1> QED
  BY <1>1, <1>2, <1>3

\* A call about an exit leaves the entries alone, however it ends.
LEMMA OutcomesKeep ==
    ASSUME NEW v, Whole(v), NEW o, o \notin Entries, NEW size
    PROVE  /\ \A w \in MarketOutcomes(v, o, size) : Kept(v, w)
           /\ \A w \in LimitOutcomes(v, o, size) : Kept(v, w)
           /\ Kept(v, Unfilled(v, o, size)) /\ Kept(v, Accept(v, o, size)) /\ Kept(v, v)
<1> DEFINE a == Accept(v, o, size)
<1>1. Kept(v, v) /\ Kept(v, a) /\ Whole(a)
  BY ExitsKeep, KeptOn DEF Whole
<1>2. \A n \in Nat : Kept(v, Fills(a, o, n)) /\ Whole(Fills(a, o, n))
  BY <1>1, ExitsKeep, KeptOn
<1>3. \A n \in Nat : Kept(v, Cancel(Fills(a, o, n), o))
  <2> TAKE n \in Nat
  <2>1. Kept(Fills(a, o, n), Cancel(Fills(a, o, n), o))
    BY <1>2, SettleKept DEF Cancel
  <2> QED
    BY <1>2, <2>1, KeptOn
<1>4. ASSUME NEW w \in MarketOutcomes(v, o, size) PROVE Kept(v, w)
  <2>1. \/ w = v
        \/ \E n \in 1 .. size : w = Fills(a, o, n) \/ w = Cancel(Fills(a, o, n), o)
    BY <1>4 DEF MarketOutcomes
  <2> HIDE DEF a
  <2> QED
    BY <1>1, <1>2, <1>3, <2>1
<1>5. ASSUME NEW w \in LimitOutcomes(v, o, size) PROVE Kept(v, w)
  <2>1. \/ w = v \/ w = a
        \/ \E n \in 1 .. Fillable(a, o) : w = Fills(a, o, n)
    BY <1>5 DEF LimitOutcomes
  <2> HIDE DEF a
  <2> QED
    BY <1>1, <1>2, <2>1
<1>6. Kept(v, Unfilled(v, o, size))
  <2>1. Unfilled(v, o, size) = v \/ Unfilled(v, o, size) = Settle(a, o, "rejected")
    BY DEF Unfilled
  <2> HIDE DEF a
  <2>2. Kept(a, Settle(a, o, "rejected"))
    BY <1>1, SettleKept
  <2> QED
    BY <1>1, <2>1, <2>2, KeptOn
<1> QED
  BY <1>1, <1>4, <1>5, <1>6

\* cancelAll() takes off what rests and fills nothing.
LEMMA CancelAllKept ==
    ASSUME NEW v, Whole(v), NEW orders
    PROVE  Kept(v, CancelAll(v, orders))
<1>0. Sound(v) /\ "order" \in DOMAIN v /\ "net" \in DOMAIN v
  BY DEF Whole, Kept, Sound
<1>1. Sound(CancelAll(v, orders))
  BY <1>0, CancelAllGrows DEF Grows
<1>2. /\ "net" \in DOMAIN CancelAll(v, orders)
      /\ \A o \in Order : CancelAll(v, orders).order[o] =
           IF o \in orders /\ Resting(v, o) THEN [v.order[o] EXCEPT !.status = "over"]
           ELSE v.order[o]
  BY <1>0 DEF CancelAll
<1> HIDE DEF CancelAll
<1>3. \A o \in Entries : LET q == CancelAll(v, orders).order[o]
                         IN /\ "size" \in DOMAIN q
                            /\ q.size = v.order[o].size /\ q.filled = v.order[o].filled
                            /\ q.status # "none" <=> v.order[o].status # "none"
                            /\ q.status = "open" => v.order[o].status = "open"
  <2> TAKE o \in Entries
  <2>1. {"status", "filled", "size"} \subseteq DOMAIN v.order[o] /\ o \in Order
    BY <1>0 DEF Sound, Order, Whole, Kept
  <2>2. CASE o \in orders /\ Resting(v, o)
    <3>1. CancelAll(v, orders).order[o] = [v.order[o] EXCEPT !.status = "over"]
      BY <1>2, <2>1, <2>2
    <3>2. v.order[o].status = "open"
      BY <2>2 DEF Resting
    <3> QED
      BY <2>1, <3>1, <3>2
  <2>3. CASE ~(o \in orders /\ Resting(v, o))
    <3>1. CancelAll(v, orders).order[o] = v.order[o]
      BY <1>2, <2>1, <2>3
    <3> QED
      BY <2>1, <3>1
  <2> QED
    BY <2>2, <2>3
<1> QED
  BY <1>1, <1>2, <1>3 DEF Kept, Known, Resting

\* Nothing is put on by taking off.
LEMMA QuietStays ==
    ASSUME NEW v, Whole(v), Quiet(v)
    PROVE  /\ \A o \in Order : Known(v, o) => o \in Entries
           /\ \A o \in Exits : ~Resting(v, o) /\ v.order[o].filled = 0 /\ Settle(v, o, "over") = v
           /\ \A o \in Entries : \A status \in {"over", "rejected"} : Quiet(Settle(v, o, status))
<1>0. Sound(v)
  BY DEF Whole, Kept
<1>1. \A o \in Order : Known(v, o) => o \in Entries
  BY DEF Quiet, Order
<1>2. \A o \in Exits : ~Resting(v, o) /\ v.order[o].filled = 0
  BY <1>0 DEF Quiet, Known, Resting, Sound, Order
<1>3. ASSUME NEW o \in Entries, NEW status \in {"over", "rejected"} PROVE Quiet(Settle(v, o, status))
  <2> DEFINE s == [v.order[o] EXCEPT !.status = status]
  <2>1. Settle(v, o, status).net = 0
    BY SettleKept DEF Quiet
  <2>2. Settle(v, o, status) = v \/ Settle(v, o, status) = With(v, o, s)
    BY DEF Settle
  <2>3. \A p \in Exits : p \in Order /\ p # o
    BY DEF Order, Exits, Entries, Entry, FallbackEntry, Targets, Stops, Closes
  <2>4. \A p \in Exits : With(v, o, s).order[p] = v.order[p]
    BY <1>0, <2>3 DEF With, Sound
  <2> HIDE DEF s
  <2> QED
    BY <2>1, <2>2, <2>4 DEF Quiet, Known
<1> QED
  BY <1>1, <1>2, <1>3 DEF Settle

-----------------------------------------------------------------------------
(* A job goes on *)

Inv == BooksInv /\ CopiesFine /\ JobInv /\ UnsoldInv /\ SaleInv

\* A job goes on, or begins, with r and l over these stages.
Carries(r, l, stages) ==
    /\ \E m : Go(r, l, m, stages)
    /\ trade' = r \/ trade' = trade
    /\ Underway' => UNCHANGED opening
    /\ stages \in Seq(Stage) /\ Ordered(stages)
    /\ Fine(r) /\ LookFine(l)
    /\ Len(stages) >= 1 =>
         /\ stages[1] \in {"settle_target", "settle_stop", "record"} => r.position < 0
         /\ stages[1] = "send" => r.closing.order \notin Entries
         /\ stages[1] = "fallback" => Timed /\ WrittenOff(venue')
         /\ stages[1] = "entry_gone" /\ l.fallback =>
              /\ Timed /\ Known(venue', Entry) /\ ~Resting(venue', Entry)
              /\ ~Known(venue', FallbackEntry) /\ Blank(r)
    /\ Timed /\ l.entryOpen /\ (\E i \in 1 .. Len(stages) : stages[i] = "overdue") =>
         /\ stages[1] # "entry"
         /\ Known(venue', Entry) /\ ~Known(venue', FallbackEntry) /\ Blank(r)
    /\ Unsold(venue') => Blank(r) /\ l.net = 0 /\ Quiet(venue')

\* Where Go() lands, what is to be known of the stage is known.
LEMMA Landed ==
    ASSUME NEW r, NEW l, NEW stages, Carries(r, l, stages), todo' # <<>>
    PROVE  /\ Ordered(todo') /\ todo' \in Seq(Stage) /\ Head(todo') = todo'[1]
           /\ HeadFine(todo'[1], r, l) /\ rec' = r /\ look' = l
           /\ Len(stages) >= 1
           /\ todo'[1] \in {"entry", "entry_gone", "fallback"} => stages[1] = todo'[1]
           /\ \A i \in 1 .. Len(todo') : \E j \in 1 .. Len(stages) : todo'[i] = stages[j]
<1>1. PICK m : Go(r, l, m, stages)
  BY DEF Carries
<1>2. stages \in Seq(Stage) /\ Ordered(stages)
  BY DEF Carries
<1>3. Len(stages) >= 1
  <2>1. \E k \in 1 .. Len(stages) : TRUE
    BY <1>1, <1>2, GoLands
  <2> QED
    BY <1>2, <2>1
<1>4. stages[1] \in {"settle_target", "settle_stop", "record"} => r.position < 0
  BY <1>3 DEF Carries
<1>5. stages[1] = "send" => r.closing.order \notin Entries
  BY <1>3 DEF Carries
<1> QED
  BY <1>1, <1>2, <1>3, <1>4, <1>5, GoesOnFine

\* With nothing sold now there was nothing sold before.
LEMMA UnsoldBefore ==
    ASSUME Sound(venue), Grows(venue, venue'), Unsold(venue')
    PROVE  Unsold(venue)
<1>1. \A o \in Entries : /\ venue.order[o].filled \in Nat /\ venue'.order[o].filled \in Nat
                         /\ venue.order[o].filled <= venue'.order[o].filled
  BY DEF Sound, Grows, Order
<1>2. \A o \in Entries : venue'.order[o].filled = 0
  BY DEF Unsold
<1>3. \A o \in Entries : venue.order[o].filled = 0
  BY <1>1, <1>2
<1> QED
  BY <1>3 DEF Unsold

\* A job that goes on with a fine record over ordered stages keeps Inv's
\* parts on records and stages.
LEMMA JobKept ==
    ASSUME Inv, Fine(trade), Unsold(venue) => Blank(trade),
           Grows(venue, venue'), Sales(venue'), MemFine(mem'),
           NEW r, NEW l, NEW stages, Carries(r, l, stages)
    PROVE  CopiesFine' /\ JobInv' /\ UnsoldInv' /\ SaleInv'
<1>0. Unsold(venue') => Unsold(venue)
  BY UnsoldBefore DEF Inv, BooksInv
<1>1. Fine(trade') /\ Fine(r) /\ LookFine(l) /\ (Underway' => UNCHANGED opening)
  BY DEF Carries
<1>2. todo' # <<>> => rec' = r /\ look' = l
  BY Landed
<1>3. CopiesFine'
  BY <1>1, <1>2 DEF Inv, CopiesFine, Idle, Underway
<1>4. Ordered(todo')
  <2>1. CASE todo' = <<>>
    BY <2>1, StagesOrdered
  <2>2. CASE todo' # <<>>
    BY <2>2, Landed
  <2> QED
    BY <2>1, <2>2
<1>5. JobInv'
  <2>1. todo' # <<>> => HeadFine(Head(todo'), rec', look')
    BY Landed
  <2> QED
    BY <1>4, <2>1 DEF JobInv, Idle
<1>6. UnsoldInv'
  <2> SUFFICES ASSUME Unsold(venue')
               PROVE  /\ Quiet(venue')
                      /\ trade' # None => Blank(trade')
                      /\ ~Idle' => Blank(rec') /\ Blank(trade') /\ look'.net = 0
                      /\ Underway' => Blank(opening'.rec)
    BY DEF UnsoldInv
  <2>1. Blank(r) /\ l.net = 0 /\ Quiet(venue')
    BY DEF Carries
  <2>2. Blank(trade')
    BY <1>0, <2>1 DEF Carries
  <2>3. Underway' => Blank(opening'.rec)
    BY <1>0, <1>1 DEF Inv, UnsoldInv, Underway
  <2> QED
    BY <1>2, <2>1, <2>2, <2>3 DEF Idle
<1>7. SaleInv'
  <2>1. todo' # <<>> /\ Head(todo') = "fallback" => Timed /\ WrittenOff(venue')
    BY Landed DEF Carries
  <2>2. todo' # <<>> /\ Head(todo') = "entry_gone" /\ look'.fallback =>
          /\ Timed /\ Known(venue', Entry) /\ ~Resting(venue', Entry)
          /\ ~Known(venue', FallbackEntry) /\ Blank(rec')
    BY Landed DEF Carries
  <2>3. ASSUME Timed, look'.entryOpen, NEW i \in 1 .. Len(todo'), todo'[i] = "overdue"
        PROVE  /\ todo' # <<>> /\ Head(todo') = "overdue"
               /\ Known(venue', Entry) /\ ~Known(venue', FallbackEntry) /\ Blank(rec')
    <3>1. todo' # <<>>
      <4>1. todo' = <<>> => Len(todo') = 0
        OBVIOUS
      <4> QED
        BY <2>3, <4>1
    <3>2. /\ Ordered(todo') /\ todo' \in Seq(Stage) /\ Head(todo') = todo'[1]
          /\ HeadFine(todo'[1], r, l) /\ rec' = r /\ look' = l
          /\ todo'[1] = "entry" => stages[1] = "entry"
          /\ \E j \in 1 .. Len(stages) : stages[j] = "overdue"
      BY <2>3, <3>1, Landed
    <3>3. /\ stages[1] # "entry"
          /\ Known(venue', Entry) /\ ~Known(venue', FallbackEntry) /\ Blank(r)
      BY <2>3, <3>2 DEF Carries
    <3>4. todo'[1] \in {"entry", "target", "stop", "overdue"}
      BY <2>3, <3>2, OverdueComes
    <3>5. todo'[1] # "target" /\ todo'[1] # "stop"
      BY <3>2, <3>3 DEF HeadFine, Blank
    <3> QED
      BY <3>1, <3>2, <3>3, <3>4, <3>5
  <2> QED
    BY <2>1, <2>2, <2>3 DEF SaleInv, At
<1> QED
  BY <1>3, <1>5, <1>6, <1>7

\* The two entries are two orders.
LEMMA Elements ==
    /\ Entry \in Order /\ FallbackEntry \in Order
    /\ Entry \in Entries /\ FallbackEntry \in Entries /\ Entry # FallbackEntry
  BY DEF Order, Entries, Entry, FallbackEntry

\* What a step of a running job starts from.
LEMMA Running ==
    ASSUME Inv, ~Idle
    PROVE  /\ Fine(rec) /\ Fine(trade) /\ LookFine(look)
           /\ Sound(venue) /\ Whole(venue) /\ Sales(venue) /\ EntriesFine(venue)
           /\ Backed(venue, rec) /\ Backed(venue, trade)
           /\ todo \in Seq(Stage) /\ Ordered(todo) /\ todo # <<>> /\ Head(todo) = todo[1]
           /\ HeadFine(todo[1], rec, look)
           /\ Unsold(venue) => Blank(rec) /\ Blank(trade) /\ look.net = 0 /\ Quiet(venue)
<1>1. Fine(rec) /\ Fine(trade) /\ LookFine(look)
  BY DEF Inv, CopiesFine
<1>2. Sound(venue) /\ Backed(venue, rec) /\ Backed(venue, trade)
  BY DEF Inv, BooksInv
<1>3. Sales(venue) /\ EntriesFine(venue)
  BY DEF Inv, SaleInv, Sales
<1>4. Whole(venue)
  BY <1>2, <1>3 DEF EntriesFine, Whole, Kept
<1>5. todo \in Seq(Stage) /\ Ordered(todo) /\ todo # <<>> /\ HeadFine(Head(todo), rec, look)
  BY DEF Inv, JobInv, Ordered, Idle
<1>6. Unsold(venue) => Blank(rec) /\ Blank(trade) /\ look.net = 0 /\ Quiet(venue)
  BY DEF Inv, UnsoldInv
<1>7. Head(todo) = todo[1]
  BY <1>5
<1> QED
  BY <1>1, <1>2, <1>3, <1>4, <1>5, <1>6, <1>7

\* With nothing sold there is nothing held: a job comes to no stage that is
\* for what is held.
LEMMA BlankHead ==
    ASSUME Inv, ~Idle, Unsold(venue)
    PROVE  Head(todo) \notin {"cover", "protect", "settle_target", "settle_stop", "record",
                              "send", "follow", "target", "stop"}
<1>1. HeadFine(Head(todo), rec, look) /\ Blank(rec)
  BY Running
<1>2. rec.position = 0 /\ rec.takeProfit = None /\ rec.stopLoss = None
  BY <1>1 DEF Blank
<1> QED
  BY <1>1, <1>2 DEF HeadFine

\* What comes after the stage a job is at may come after it.
LEMMA TailFine ==
    ASSUME Inv, ~Idle
    PROVE  /\ Tail(todo) \in Seq(Stage) /\ Ordered(Tail(todo))
           /\ Len(Tail(todo)) >= 1 =>
                /\ Follows(Head(todo), Tail(todo)[1])
           /\ Timed /\ look.entryOpen =>
                \A i \in 1 .. Len(Tail(todo)) : Tail(todo)[i] # "overdue"
<1>1. /\ todo \in Seq(Stage) /\ Ordered(todo) /\ todo # <<>> /\ Head(todo) = todo[1]
  BY Running
<1>2. /\ Ordered(Tail(todo)) /\ Len(todo) \in Nat /\ Len(Tail(todo)) = Len(todo) - 1
      /\ \A i \in 1 .. Len(Tail(todo)) : Tail(todo)[i] = todo[i + 1]
  BY <1>1, OrderedTail
<1>3. Tail(todo) \in Seq(Stage)
  BY <1>2 DEF Ordered
<1>4. ASSUME Len(Tail(todo)) >= 1 PROVE Follows(Head(todo), Tail(todo)[1])
  <2>1. 2 \in 2 .. Len(todo) /\ 1 \in 1 .. Len(Tail(todo))
    BY <1>2, <1>4
  <2>2. Tail(todo)[1] = todo[2] /\ Follows(todo[1], todo[2])
    BY <1>1, <1>2, <2>1 DEF Ordered
  <2> QED
    BY <1>1, <2>2
<1>5. ASSUME Timed, look.entryOpen, NEW i \in 1 .. Len(Tail(todo)), Tail(todo)[i] = "overdue"
      PROVE  FALSE
  <2>1. i + 1 \in 1 .. Len(todo) /\ todo[i + 1] = "overdue" /\ i + 1 > 1
    BY <1>2, <1>5
  <2>2. Head(todo) = "overdue"
    BY <1>5, <2>1 DEF Inv, SaleInv, At
  <2>3. todo[1] # "overdue"
    BY <1>1, <2>1, OverdueComes
  <2> QED
    BY <1>1, <2>2, <2>3
<1> QED
  BY <1>2, <1>3, <1>4, <1>5

\* A step goes on with the rest of the job...
LEMMA GoesOnward ==
    ASSUME Inv, ~Idle, NEW r, NEW l, NEW m, Go(r, l, m, Tail(todo)),
           trade' = r \/ trade' = trade, UNCHANGED opening,
           Fine(r), LookFine(l), l.entryOpen = look.entryOpen \/ l.entryOpen = FALSE,
           Head(todo) \in {"settle_target", "settle_stop"} => r.position < 0,
           Head(todo) = "submit" => r.closing.order \notin Entries,
           Unsold(venue') => Blank(r) /\ l.net = 0 /\ Quiet(venue')
    PROVE  Carries(r, l, Tail(todo))
<1>1. /\ Tail(todo) \in Seq(Stage) /\ Ordered(Tail(todo))
      /\ Len(Tail(todo)) >= 1 => Follows(Head(todo), Tail(todo)[1])
      /\ Timed /\ look.entryOpen => \A i \in 1 .. Len(Tail(todo)) : Tail(todo)[i] # "overdue"
  BY TailFine
<1>2. Len(Tail(todo)) >= 1 =>
        /\ Tail(todo)[1] \notin {"fallback", "entry_gone", "settle_target"}
        /\ Tail(todo)[1] \in {"settle_stop", "record"} => r.position < 0
        /\ Tail(todo)[1] = "send" => r.closing.order \notin Entries
  BY <1>1 DEF Follows
<1>3. ~(Timed /\ l.entryOpen /\ \E i \in 1 .. Len(Tail(todo)) : Tail(todo)[i] = "overdue")
  BY <1>1
<1> QED
  BY <1>1, <1>2, <1>3 DEF Carries

\* ... or with other stages before it.
LEMMA GoesThrough ==
    ASSUME Inv, ~Idle, Head(todo) \notin Leads,
           NEW s \in Seq(Stage), Ordered(s), s # <<>>,
           s[Len(s)] \notin {"settle_target", "settle_stop"},
           \A i \in 1 .. Len(s) : s[i] # "overdue",
           NEW r, NEW l, NEW m, Go(r, l, m, s \o Tail(todo)),
           trade' = r \/ trade' = trade, UNCHANGED opening,
           Fine(r), LookFine(l), l.entryOpen = look.entryOpen \/ l.entryOpen = FALSE,
           s[1] \in {"settle_target", "settle_stop", "record"} => r.position < 0,
           s[1] \notin {"send", "fallback"},
           s[1] = "entry_gone" /\ l.fallback =>
             /\ Timed /\ Known(venue', Entry) /\ ~Resting(venue', Entry)
             /\ ~Known(venue', FallbackEntry) /\ Blank(r),
           Unsold(venue') => Blank(r) /\ l.net = 0 /\ Quiet(venue')
    PROVE  Carries(r, l, s \o Tail(todo))
<1>1. todo \in Seq(Stage) /\ Ordered(todo) /\ todo # <<>> /\ Head(todo) = todo[1]
  BY Running
<1>2. Tail(todo) = SubSeq(todo, 2, Len(todo)) /\ Len(todo) \in Nat
  BY <1>1, OrderedTail
<1> DEFINE t == s \o Tail(todo)
<1>3. Ordered(t) /\ t # <<>> /\ t[1] = s[1]
  <2>1. 2 \in Nat /\ 2 >= 2 /\ (2 <= Len(todo) => todo[2 - 1] \notin Leads)
    BY <1>1
  <2>2. /\ Ordered(s \o SubSeq(todo, 2, Len(todo))) /\ s \o SubSeq(todo, 2, Len(todo)) # <<>>
        /\ (s \o SubSeq(todo, 2, Len(todo)))[1] = s[1]
    BY <1>1, <2>1, Prepended
  <2> QED
    BY <1>2, <2>2
<1>4. Timed /\ look.entryOpen => \A i \in 1 .. Len(Tail(todo)) : Tail(todo)[i] # "overdue"
  BY TailFine
<1>5. Timed /\ look.entryOpen => \A i \in 1 .. Len(t) : t[i] # "overdue"
  <2> SUFFICES ASSUME Timed, look.entryOpen, NEW i \in 1 .. Len(t) PROVE t[i] # "overdue"
    OBVIOUS
  <2>1. /\ Tail(todo) \in Seq(Stage) /\ s \in Seq(Stage)
    BY TailFine
  <2>2. i \in 1 .. Len(s) \/ (i - Len(s) \in 1 .. Len(Tail(todo)))
    BY <2>1
  <2>3. CASE i \in 1 .. Len(s)
    BY <2>1, <2>3
  <2>4. CASE i - Len(s) \in 1 .. Len(Tail(todo))
    <3>1. t[i] = Tail(todo)[i - Len(s)]
      BY <2>1, <2>4
    <3> HIDE DEF t
    <3> QED
      BY <1>4, <2>4, <3>1
  <2> QED
    BY <2>2, <2>3, <2>4
<1>6. t \in Seq(Stage)
  BY <1>3 DEF Ordered
<1>7. Go(r, l, m, t)
  OBVIOUS
<1> HIDE DEF t
<1>8. ~(Timed /\ l.entryOpen /\ \E i \in 1 .. Len(t) : t[i] = "overdue")
  BY <1>5
<1>9. Carries(r, l, t)
  BY <1>3, <1>6, <1>7, <1>8 DEF Carries
<1> QED
  BY <1>9 DEF t

\* What a step of a job comes to.
Steps ==
    /\ \E r, l, stages : Carries(r, l, stages)
    /\ Sales(venue') /\ MemFine(mem') /\ Grows(venue, venue')

\* A job that is over is over whatever record it had.
LEMMA GoNowhere ==
    ASSUME NEW r, NEW l, NEW m, Go(r, l, m, <<>>)
    PROVE  \A s : Go(s, l, m, <<>>)
<1>1. \A s : {i \in DOMAIN <<>> : Applies(<<>>[i], s, l, m)} = {} OBVIOUS
<1>2. QED BY <1>1 DEF Go

\* What leaves the entries alone keeps what is known of the sale.
LEMMA KeptSales ==
    ASSUME NEW v, Sales(v), NEW w, Kept(v, w)
    PROVE  /\ Sales(w) /\ (Unsold(w) <=> Unsold(v)) /\ (WrittenOff(v) => WrittenOff(w))
           /\ \A o \in Entries : Known(w, o) <=> Known(v, o)
           /\ \A o \in Entries : Resting(w, o) => Resting(v, o)
<1>1. EntriesFine(v) BY DEF Sales
<1>2. /\ EntriesFine(w) /\ (Unsold(w) <=> Unsold(v)) /\ (WrittenOff(v) => WrittenOff(w))
      /\ \A o \in Entries : Known(w, o) <=> Known(v, o)
      /\ \A o \in Entries : Resting(w, o) => Resting(v, o)
  BY <1>1, KeptIsFine
<1>3. Sales(w) BY <1>2, Elements DEF Sales
<1>4. QED BY <1>2, <1>3

\* What else is kept in memory is no matter.
LEMMA MemKept ==
    ASSUME MemFine(mem)
    PROVE  /\ \A b : MemFine([mem EXCEPT !.hold = b]) /\ MemFine([mem EXCEPT !.leftover = b])
           /\ \A b, c : MemFine([mem EXCEPT !.hold = b, !.owed = c])
           /\ \A b : MemFine([mem EXCEPT !.gaveUp = b])
           /\ MemFine([mem EXCEPT !.deadline = "none"])
           /\ (mem.deadline = "armed" => MemFine([mem EXCEPT !.deadline = "due"]))
  BY DEF MemFine

\* A step of a job that leaves the entries alone, with the rest of the job...
LEMMA StepsOn ==
    ASSUME Inv, ~Idle, Grows(venue, venue'), Kept(venue, venue'), MemFine(mem'),
           NEW r, NEW l, NEW m, Go(r, l, m, Tail(todo)),
           trade' = r \/ trade' = trade, UNCHANGED opening,
           Fine(r), LookFine(l), l.entryOpen = look.entryOpen \/ l.entryOpen = FALSE,
           Head(todo) \in {"settle_target", "settle_stop"} => r.position < 0,
           Head(todo) = "submit" => r.closing.order \notin Entries,
           Unsold(venue) => Blank(r) /\ l.net = 0 /\ Quiet(venue')
    PROVE  Steps
<1>1. Sales(venue') /\ (Unsold(venue') <=> Unsold(venue))
  BY Running, KeptSales
<1>2. Carries(r, l, Tail(todo))
  BY <1>1, GoesOnward
<1>3. QED BY <1>1, <1>2 DEF Steps

\* ... or with other stages before it.
LEMMA StepsThrough ==
    ASSUME Inv, ~Idle, Grows(venue, venue'), Kept(venue, venue'), MemFine(mem'),
           Head(todo) \notin Leads,
           NEW s \in Seq(Stage), Ordered(s), s # <<>>,
           s[Len(s)] \notin {"settle_target", "settle_stop"},
           \A i \in 1 .. Len(s) : s[i] # "overdue",
           NEW r, NEW l, NEW m, Go(r, l, m, s \o Tail(todo)),
           trade' = r \/ trade' = trade, UNCHANGED opening,
           Fine(r), LookFine(l), l.entryOpen = look.entryOpen \/ l.entryOpen = FALSE,
           s[1] \in {"settle_target", "settle_stop", "record"} => r.position < 0,
           s[1] \notin {"send", "fallback", "entry_gone"},
           Unsold(venue) => Blank(r) /\ l.net = 0 /\ Quiet(venue')
    PROVE  Steps
<1>1. Sales(venue') /\ (Unsold(venue') <=> Unsold(venue))
  BY Running, KeptSales
<1>2. Carries(r, l, s \o Tail(todo))
  BY <1>1, GoesThrough
<1>3. QED BY <1>1, <1>2 DEF Steps

\* One stage to go to first.
LEMMA StepsVia ==
    ASSUME Inv, ~Idle, Grows(venue, venue'), Kept(venue, venue'), MemFine(mem'),
           Head(todo) \notin Leads, NEW h \in {"believe", "protect", "clear"},
           NEW r, NEW l, NEW m, Go(r, l, m, <<h>> \o Tail(todo)),
           trade' = r \/ trade' = trade, UNCHANGED opening,
           Fine(r), LookFine(l), l.entryOpen = look.entryOpen \/ l.entryOpen = FALSE,
           Unsold(venue) => Blank(r) /\ l.net = 0 /\ Quiet(venue')
    PROVE  Steps
<1> DEFINE s == <<h>>
<1>1. /\ s \in Seq(Stage) /\ s # <<>> /\ Len(s) = 1 /\ s[1] = h
      /\ \A i \in 1 .. Len(s) : s[i] = h
  BY DEF Stage
<1>2. Ordered(s) BY StagesOrdered DEF Stage
<1>3. /\ s[Len(s)] \notin {"settle_target", "settle_stop"}
      /\ \A i \in 1 .. Len(s) : s[i] # "overdue"
      /\ s[1] \notin {"settle_target", "settle_stop", "record", "send", "fallback", "entry_gone"}
  BY <1>1
<1>4. Go(r, l, m, s \o Tail(todo)) OBVIOUS
<1> HIDE DEF s
<1>5. QED BY <1>1, <1>2, <1>3, <1>4, StepsThrough

\* A step that leaves the venue alone leaves the entries alone.
LEMMA Untouched ==
    ASSUME Inv, ~Idle, venue' = venue
    PROVE  /\ Grows(venue, venue') /\ Kept(venue, venue')
           /\ Unsold(venue) => Quiet(venue')
<1>1. Sound(venue) /\ Whole(venue) BY Running
<1>2. QED BY <1>1, Running, GrowsOn DEF Whole

\* The time limit runs where the plan has one, in the state a step finds.
LEMMA MemFineNow ==
    ASSUME Inv
    PROVE  MemFine(mem)
  BY DEF Inv, SaleInv

\* What a reading of an order leaves of the job's record.
LEMMA ReadFine ==
    ASSUME Inv, ~Idle
    PROVE  /\ \A o : Fine(AbsorbOf(venue, rec, o))
           /\ \A o \in Order : Unsold(venue) => Blank(AbsorbOf(venue, rec, o))
<1>1. \A o : Fine(AbsorbOf(venue, rec, o)) BY Running, AbsorbFine
<1>2. ASSUME NEW o \in Order, Unsold(venue) PROVE Blank(AbsorbOf(venue, rec, o))
  <2>1. Fine(rec) /\ Blank(rec) /\ Quiet(venue) /\ Whole(venue)
    BY <1>2, Running
  <2>2. venue.order[o].filled = 0
    BY <1>2, <2>1, QuietStays DEF Unsold, Order
  <2>3. QED BY <2>1, <2>2, AbsorbBlank DEF AbsorbOf
<1>3. QED BY <1>1, <1>2

\* A leg looked at, a close waited for, the position read: the job goes on.
LEMMA LooksStep ==
    ASSUME Inv, ~Idle, LookLeg("take_profit") \/ LookLeg("stop_loss") \/ FollowUpWaits \/ Sync
    PROVE  Steps
<1>1. /\ Fine(rec) /\ LookFine(look) /\ MemFine(mem) /\ todo # <<>>
      /\ Unsold(venue) => Blank(rec) /\ look.net = 0
  BY Running, MemFineNow
<1>2. CASE LookLeg("take_profit") \/ LookLeg("stop_loss")
  <2>1. PICK role \in {"take_profit", "stop_loss"} : LookLeg(role) BY <1>2
  <2>2. /\ Head(todo) \in {"target", "stop"}
        /\ \E r \in {rec, LegRead(rec, role)} :
             Go(r, look, mem, Tail(todo)) /\ (trade' = r \/ trade' = trade)
        /\ UNCHANGED <<opening, mem, venue>>
    BY <2>1 DEF LookLeg, At, SaveIfChanged, On
  <2>3. PICK r \in {rec, LegRead(rec, role)} :
             Go(r, look, mem, Tail(todo)) /\ (trade' = r \/ trade' = trade)
    BY <2>2
  <2>4. Fine(LegRead(rec, role))
    BY <1>1, ReadFine, EventsFine DEF LegRead
  <2>5. ~Unsold(venue) BY <2>2, BlankHead
  <2>6. QED BY <1>1, <2>2, <2>3, <2>4, <2>5, Untouched, StepsOn
<1>3. CASE FollowUpWaits
  <2>1. /\ Head(todo) = "follow" /\ Go(rec, look, mem, Tail(todo))
        /\ UNCHANGED <<trade, opening, mem, venue>>
    BY <1>3 DEF FollowUpWaits, At, On
  <2>2. QED BY <1>1, <2>1, Untouched, StepsOn
<1>4. CASE Sync
  <2>1. /\ Head(todo) = "sync" /\ UNCHANGED <<trade, opening, mem, venue>>
        /\ \/ Go(rec, look, mem, Tail(todo))
           \/ Go(rec, [look EXCEPT !.net = venue.net], mem, <<"believe">> \o Tail(todo))
    BY <1>4 DEF Sync, At, On
  <2>2. CASE Go(rec, look, mem, Tail(todo))
    BY <1>1, <2>1, <2>2, Untouched, StepsOn
  <2>3. CASE Go(rec, [look EXCEPT !.net = venue.net], mem, <<"believe">> \o Tail(todo))
    <3>1. /\ LookFine([look EXCEPT !.net = venue.net])
          /\ [look EXCEPT !.net = venue.net].entryOpen = look.entryOpen
          /\ [look EXCEPT !.net = venue.net].net = venue.net
      BY <1>1 DEF LookFine, NoLook
    <3>2. Unsold(venue) => venue.net = 0
      BY Running DEF Quiet
    <3>3. Head(todo) \notin Leads BY <2>1 DEF Leads
    <3>4. QED BY <1>1, <2>1, <2>3, <3>1, <3>2, <3>3, Untouched, StepsVia
  <2>4. QED BY <2>1, <2>2, <2>3
<1>5. QED BY <1>2, <1>3, <1>4

-----------------------------------------------------------------------------
(* The entries put on *)

\* The venue w has taken the order o on, for the whole size, and v had not.
Placed(v, w, o) ==
    /\ "net" \in DOMAIN w
    /\ \A p \in Order : p # o => w.order[p] = v.order[p]
    /\ "size" \in DOMAIN w.order[o]
    /\ w.order[o].size = Requested /\ w.order[o].filled \in 0 .. Requested
    /\ Known(w, o)
    /\ w.order[o].filled = 0 => w.net = v.net
    /\ w.order[o].filled = Requested => ~Resting(w, o)

\* An entry taken on, not filled.
LEMMA EntryAccepted ==
    ASSUME NEW v, Whole(v), NEW o \in Entries, ~Known(v, o)
    PROVE  LET a == Accept(v, o, Requested)
           IN /\ "net" \in DOMAIN a /\ a.net = v.net
              /\ "order" \in DOMAIN a /\ a.order = [p \in Order |-> a.order[p]]
              /\ \A p \in Order : p # o => a.order[p] = v.order[p]
              /\ a.order[o] = [status |-> "open", size |-> Requested, filled |-> 0]
              /\ Fillable(a, o) = Requested
<1> DEFINE a == Accept(v, o, Requested)
<1>0. "order" \in DOMAIN v /\ "net" \in DOMAIN v /\ o \in Order
  BY DEF Whole, Kept, Sound, Order
<1>1. a = With(v, o, [status |-> "open", size |-> Requested, filled |-> 0])
  BY DEF Accept
<1>2. /\ "net" \in DOMAIN a /\ a.net = v.net
      /\ "order" \in DOMAIN a /\ a.order = [p \in Order |-> a.order[p]]
      /\ \A p \in Order : p # o => a.order[p] = v.order[p]
      /\ a.order[o] = [status |-> "open", size |-> Requested, filled |-> 0]
  BY <1>0, <1>1 DEF With
<1> HIDE DEF a
<1>3. Resting(a, o) /\ Left(a, o) = Requested
  BY <1>2, PlanAssumption DEF Resting, Left
<1>4. Fillable(a, o) = Requested BY <1>3 DEF Fillable
<1>5. QED BY <1>2, <1>4 DEF a

\* An entry taken on and filled at once.
LEMMA EntryFilled ==
    ASSUME NEW v, Whole(v), NEW o \in Entries, ~Known(v, o), NEW n \in 1 .. Requested
    PROVE  LET w == Fills(Accept(v, o, Requested), o, n)
           IN Placed(v, w, o) /\ Placed(v, Cancel(w, o), o)
<1> DEFINE a == Accept(v, o, Requested)
           w == Fills(a, o, n)
           now == [a.order[o] EXCEPT !.filled = @ + n,
                      !.status = IF a.order[o].filled + n >= a.order[o].size THEN "over" ELSE "open"]
<1>0. o \in Order BY DEF Order
<1>1. /\ "net" \in DOMAIN a /\ "order" \in DOMAIN a
      /\ \A p \in Order : p # o => a.order[p] = v.order[p]
      /\ a.order[o] = [status |-> "open", size |-> Requested, filled |-> 0]
  BY EntryAccepted
<1>2. w = [With(a, o, now) EXCEPT !.net = @ - n]
  BY DEF Fills
<1> HIDE DEF a
<1>3. /\ {"size", "status", "filled"} = DOMAIN now
      /\ now.size = Requested /\ now.filled = n
      /\ now.status = IF n >= Requested THEN "over" ELSE "open"
  BY <1>1, PlanAssumption
<1> HIDE DEF now
<1>4. /\ "net" \in DOMAIN w /\ "order" \in DOMAIN w
      /\ \A p \in Order : w.order[p] = IF p = o THEN now ELSE a.order[p]
  BY <1>1, <1>2 DEF With
<1> HIDE DEF w
<1>5. Placed(v, w, o)
  BY <1>0, <1>1, <1>3, <1>4, PlanAssumption DEF Placed, Known, Resting
<1>6. Placed(v, Cancel(w, o), o)
  <2>1. CASE ~Resting(w, o) BY <1>5, <2>1 DEF Cancel, Settle
  <2>2. CASE Resting(w, o)
    <3> DEFINE over == [w.order[o] EXCEPT !.status = "over"]
               c == With(w, o, over)
    <3>1. Cancel(w, o) = c BY <2>2 DEF Cancel, Settle
    <3>2. /\ over.size = Requested /\ over.filled = n /\ over.status = "over" /\ "size" \in DOMAIN over
      BY <1>0, <1>3, <1>4
    <3> HIDE DEF over
    <3>3. /\ "net" \in DOMAIN c /\ \A p \in Order : c.order[p] = IF p = o THEN over ELSE w.order[p]
      BY <1>4 DEF With
    <3> HIDE DEF c
    <3>4. Placed(v, c, o)
      BY <1>0, <1>1, <1>4, <3>2, <3>3, PlanAssumption DEF Placed, Known, Resting
    <3>5. QED BY <3>1, <3>4
  <2>3. QED BY <2>1, <2>2
<1>7. QED BY <1>5, <1>6 DEF w, a

\* However the placing of an entry ends that the venue took on.
LEMMA Placements ==
    ASSUME NEW v, Whole(v), NEW o \in Entries, ~Known(v, o)
    PROVE  /\ \A w \in MarketOutcomes(v, o, Requested) : Placed(v, w, o)
           /\ \A w \in LimitOutcomes(v, o, Requested) : Placed(v, w, o)
           /\ Placed(v, Unfilled(v, o, Requested), o)
<1> DEFINE a == Accept(v, o, Requested)
<1>0. o \in Order BY DEF Order
<1>1. /\ "net" \in DOMAIN a /\ a.net = v.net /\ "order" \in DOMAIN a
      /\ \A p \in Order : p # o => a.order[p] = v.order[p]
      /\ a.order[o] = [status |-> "open", size |-> Requested, filled |-> 0]
      /\ Fillable(a, o) = Requested
  BY EntryAccepted
<1>2. Placed(v, a, o)
  BY <1>0, <1>1, PlanAssumption DEF Placed, Known, Resting
<1>3. \A n \in 1 .. Requested : Placed(v, Fills(a, o, n), o) /\ Placed(v, Cancel(Fills(a, o, n), o), o)
  BY EntryFilled
<1>4. ASSUME NEW w \in MarketOutcomes(v, o, Requested) PROVE Placed(v, w, o)
  <2>1. \E n \in 1 .. Requested : w = Fills(a, o, n) \/ w = Cancel(Fills(a, o, n), o)
    BY <1>4 DEF MarketOutcomes
  <2>2. QED BY <1>3, <2>1
<1>5. ASSUME NEW w \in LimitOutcomes(v, o, Requested) PROVE Placed(v, w, o)
  <2>1. w = a \/ \E n \in 1 .. Fillable(a, o) : w = Fills(a, o, n)
    BY <1>5 DEF LimitOutcomes
  <2> HIDE DEF a
  <2>2. QED BY <1>1, <1>2, <1>3, <2>1
<1>6. Placed(v, Unfilled(v, o, Requested), o)
  <2> DEFINE no == [a.order[o] EXCEPT !.status = "rejected"]
             w == With(a, o, no)
  <2>1. Unfilled(v, o, Requested) = w
    BY <1>1 DEF Unfilled, Settle, Resting
  <2> HIDE DEF a
  <2>2. no.size = Requested /\ no.filled = 0 /\ no.status = "rejected" /\ "size" \in DOMAIN no
    BY <1>1
  <2> HIDE DEF no
  <2>3. /\ "net" \in DOMAIN w /\ w.net = a.net
        /\ \A p \in Order : w.order[p] = IF p = o THEN no ELSE a.order[p]
    BY <1>1 DEF With
  <2> HIDE DEF w
  <2>4. Placed(v, w, o)
    BY <1>0, <1>1, <2>2, <2>3, PlanAssumption DEF Placed, Known, Resting
  <2>5. QED BY <2>1, <2>4
<1>7. QED BY <1>4, <1>5, <1>6

\* Exits are as they were, and nothing is held that was not sold.
LEMMA PlacedQuiet ==
    ASSUME NEW v, NEW w, NEW o \in Entries, Placed(v, w, o), Unsold(w), Quiet(v)
    PROVE  Quiet(w)
<1>1. w.net = 0 BY DEF Placed, Unsold, Quiet
<1>2. \A p \in Exits : p \in Order /\ p # o
  BY DEF Order, Exits, Entries, Entry, FallbackEntry, Targets, Stops, Closes
<1>3. \A p \in Exits : ~Known(w, p)
  BY <1>2 DEF Placed, Quiet, Known
<1>4. QED BY <1>1, <1>3 DEF Quiet

-----------------------------------------------------------------------------
(* The entry's own steps *)

\* The market entry is placed where the plan has a time limit to pass, and
\* then nothing goes wrong with the entry's cancel or the reading after it.
OneSale ==
    Timeout /\ Fallback =>
      ~PartialEntry /\ ~MarketEntry /\ FaultKinds \cap {"read", "cancel"} = {}

\* reconcile() reads the entry, and says whether its time may run out.
LEMMA LookEntrySteps ==
    ASSUME Inv, ~Idle, LookEntry
    PROVE  Steps
<1>1. /\ Fine(rec) /\ LookFine(look) /\ MemFine(mem)
      /\ Unsold(venue) => Blank(rec) /\ look.net = 0
  BY Running, MemFineNow
<1>2. Head(todo) = "entry" /\ UNCHANGED <<opening, mem, venue>>
  BY DEF LookEntry, At
<1> DEFINE r == AbsorbOf(venue, rec, Entry)
           l == [look EXCEPT !.entryOpen = Resting(venue, Entry)]
<1>3. CASE UNCHANGED trade /\ Go(rec, look, mem, Tail(todo))
  BY <1>1, <1>2, <1>3, Untouched, StepsOn
<1>4. CASE (trade' = r \/ trade' = trade) /\ Go(r, l, mem, Tail(todo))
  <2>1. Fine(r) /\ (Unsold(venue) => Blank(r))
    BY ReadFine, Elements
  <2>2. LookFine(l) /\ l.entryOpen = Resting(venue, Entry) /\ l.net = look.net
    BY <1>1 DEF LookFine, NoLook
  <2>3. /\ Tail(todo) \in Seq(Stage) /\ Ordered(Tail(todo))
        /\ Len(Tail(todo)) >= 1 => Follows("entry", Tail(todo)[1])
    BY <1>2, TailFine
  <2>4. ASSUME Timed, Resting(venue, Entry)
        PROVE  Known(venue, Entry) /\ ~Known(venue, FallbackEntry) /\ Blank(r)
    <3>1. Sales(venue) /\ EntriesFine(venue) /\ Sound(venue) BY Running
    <3>2. ~Known(venue, FallbackEntry)
      BY <2>4, <3>1 DEF Sales, WrittenOff
    <3>3. venue.order[FallbackEntry].filled = 0
      BY <3>1, <3>2, Elements DEF Sound, Known
    <3>4. venue.order[Entry].filled = 0
      BY <2>4, <3>1 DEF EntriesFine
    <3>5. Unsold(venue) BY <3>3, <3>4 DEF Unsold, Entries
    <3>6. QED BY <2>1, <2>4, <3>2, <3>5 DEF Known, Resting
  <2>5. Unsold(venue) => Blank(r) /\ l.net = 0 /\ Quiet(venue)
    BY <1>1, <2>1, <2>2, Running
  <2>6. Len(Tail(todo)) >= 1 =>
          Tail(todo)[1] \notin {"entry", "entry_gone", "fallback", "settle_target",
                                "settle_stop", "record", "send"}
    BY <2>3 DEF Follows
  <2>7. ASSUME \E i \in 1 .. Len(Tail(todo)) : Tail(todo)[i] = "overdue"
        PROVE  Tail(todo)[1] # "entry"
    <3>1. Len(Tail(todo)) >= 1 BY <2>3, <2>7
    <3>2. QED BY <2>6, <3>1
  <2> HIDE DEF r, l
  <2>8. Carries(r, l, Tail(todo))
    BY <1>2, <1>4, <2>1, <2>2, <2>3, <2>4, <2>5, <2>6, <2>7 DEF Carries
  <2>9. QED BY <1>1, <1>2, <2>8, Running, Untouched DEF Steps
<1>5. QED BY <1>3, <1>4 DEF LookEntry, On, SaveIfChanged

\* The entry's time is up: it is cancelled, and nothing was sold by it.
LEMMA CancelOverdueSteps ==
    ASSUME OneSale, Inv, ~Idle, CancelOverdue
    PROVE  Steps
<1>1. /\ Fine(rec) /\ LookFine(look) /\ MemFine(mem) /\ Whole(venue) /\ Sales(venue)
      /\ Unsold(venue) => Blank(rec) /\ look.net = 0 /\ Quiet(venue)
  BY Running, MemFineNow
<1>2. Head(todo) = "overdue" /\ todo # <<>> /\ UNCHANGED opening
  BY DEF CancelOverdue, At
<1>3. CASE On(rec) /\ UNCHANGED <<trade, mem, venue>>
  <2>1. Go(rec, look, mem, Tail(todo)) BY <1>3 DEF On
  <2>2. QED BY <1>1, <1>2, <1>3, <2>1, Untouched, StepsOn
<1>4. ASSUME NEW late \in BOOLEAN, late => mem.deadline = "due",
             \/ venue' = Cancel(venue, Entry)
             \/ Fault("cancel") /\ UNCHANGED venue,
             Save(rec), mem' = [mem EXCEPT !.deadline = "none"],
             Go(rec, [look EXCEPT !.fallback = late /\ Fallback], mem,
                <<"entry_gone">> \o Tail(todo))
      PROVE  Steps
  <2> DEFINE l == [look EXCEPT !.fallback = late /\ Fallback]
             s == <<"entry_gone">>
  <2>1. /\ LookFine(l) /\ l.entryOpen = look.entryOpen /\ l.net = look.net
        /\ l.fallback = (late /\ Fallback)
    BY <1>1 DEF LookFine, NoLook
  <2>2. Kept(venue, venue') /\ Grows(venue, venue')
    <3>1. Sound(venue) BY Running
    <3>2. CASE venue' = Cancel(venue, Entry)
      BY <1>1, <3>1, <3>2, SettleKept, SettleGrows DEF Cancel
    <3>3. CASE venue' = venue BY <3>3, Untouched
    <3>4. QED BY <1>4, <3>2, <3>3
  <2>3. /\ Sales(venue') /\ (Unsold(venue') <=> Unsold(venue))
        /\ \A o \in Entries : Known(venue', o) <=> Known(venue, o)
    BY <1>1, <2>2, KeptSales
  <2>4. MemFine(mem') BY <1>1, <1>4, MemKept
  <2>5. Unsold(venue) => Quiet(venue')
    <3>1. CASE venue' = Cancel(venue, Entry)
      BY <1>1, <3>1, QuietStays, Elements DEF Cancel
    <3>2. CASE venue' = venue BY <1>1, <3>2
    <3>3. QED BY <1>4, <3>1, <3>2
  <2>6. ASSUME l.fallback
        PROVE  /\ Timed /\ Known(venue', Entry) /\ ~Resting(venue', Entry)
               /\ ~Known(venue', FallbackEntry) /\ Blank(rec)
    <3>1. late /\ Fallback BY <2>1, <2>6
    <3>2. Timed BY <1>1, <1>4, <3>1 DEF MemFine, Timed
    <3>3. look.entryOpen BY <1>2, Running DEF HeadFine
    <3>4. \E i \in 1 .. Len(todo) : todo[i] = "overdue"
      <4>1. Len(todo) \in Nat /\ Len(todo) >= 1 /\ todo[1] = "overdue" BY <1>2, Running
      <4>2. QED BY <4>1
    <3>5. Known(venue, Entry) /\ ~Known(venue, FallbackEntry) /\ Blank(rec)
      BY <3>2, <3>3, <3>4 DEF Inv, SaleInv
    <3>6. venue' = Cancel(venue, Entry)
      BY <1>4, <3>2 DEF OneSale, Timed, Fault
    <3>7. ~Resting(venue', Entry)
      BY <1>1, <3>5, <3>6, SettleKept, Elements DEF Cancel
    <3>8. QED BY <2>3, <3>2, <3>5, <3>7, Elements
  <2>7. /\ s \in Seq(Stage) /\ s # <<>> /\ Len(s) = 1 /\ s[1] = "entry_gone"
        /\ \A i \in 1 .. Len(s) : s[i] = "entry_gone"
    BY DEF Stage
  <2>8. Ordered(s) BY StagesOrdered DEF Stage
  <2>9. Go(rec, l, mem, s \o Tail(todo)) BY <1>4
  <2>10. Head(todo) \notin Leads BY <1>2 DEF Leads
  <2>11. /\ s[Len(s)] \notin {"settle_target", "settle_stop"}
         /\ \A i \in 1 .. Len(s) : s[i] # "overdue"
         /\ s[1] \notin {"settle_target", "settle_stop", "record", "send", "fallback"}
    BY <2>7
  <2> HIDE DEF l, s
  <2>12. Carries(rec, l, s \o Tail(todo))
    BY <1>1, <1>2, <1>4, <2>1, <2>3, <2>5, <2>6, <2>7, <2>8, <2>9, <2>10, <2>11, GoesThrough
    DEF Save
  <2>13. QED BY <2>2, <2>3, <2>4, <2>12 DEF Steps
<1>5. QED BY <1>3, <1>4 DEF CancelOverdue

\* What the entry is found to have sold is held.
LEMMA FoundIsHeld ==
    ASSUME NEW s, Fine(s), Blank(s), NEW n \in Nat \ {0}, NEW rejected
    PROVE  Absorb(s, Entry, n, rejected).position # 0
<1> DEFINE entry == s.entrySize + IF Entry \in Entries THEN n ELSE 0
           exit == s.exitSize + IF Entry \in Entries THEN 0 ELSE n
           t == [s EXCEPT !.booked[Entry] = @ + n, !.entrySize = entry,
                          !.exitSize = exit, !.position = exit - entry]
           u == Opens(t, {"entry_pending", "entry_unknown", "precheck"})
<1>1. n - s.booked[Entry] = n /\ n > 0
  BY Elements DEF Blank
<1>2. Fill(s, Entry, n) = u
  BY Elements, Zenon DEF Fill
<1>3. entry = n /\ exit = 0
  BY Elements DEF Blank
<1> HIDE DEF entry, exit
<1>fields. /\ DOMAIN t = DOMAIN InitialTrade
      /\ t.position = exit - entry
  BY DEF Fine, InitialTrade
<1>sold. t.position = -n BY <1>3, <1>fields
<1> HIDE DEF t
<1>4. u.position = -n /\ DOMAIN u = DOMAIN InitialTrade
  BY <1>fields, <1>sold DEF Opens, InitialTrade
<1> HIDE DEF u
<1>5. Aborted(u).position = -n
  BY <1>4 DEF Aborted, InitialTrade
<1>6. Absorb(s, Entry, n, rejected) = IF rejected THEN Aborted(u) ELSE u
  BY <1>1, <1>2 DEF Absorb
<1>7. -n # 0 OBVIOUS
<1>8. QED BY <1>4, <1>5, <1>6, <1>7

\* The entry is over: written off, or replaced by the market entry.
LEMMA EntryGoneSteps ==
    ASSUME OneSale, Inv, ~Idle, EntryGone
    PROVE  Steps
<1>1. /\ Fine(rec) /\ LookFine(look) /\ MemFine(mem) /\ Whole(venue) /\ Sales(venue)
      /\ EntriesFine(venue) /\ Sound(venue) /\ todo # <<>>
      /\ Unsold(venue) => Blank(rec) /\ look.net = 0 /\ Quiet(venue)
  BY Running, MemFineNow
<1>2. Head(todo) = "entry_gone" /\ UNCHANGED <<opening, mem, venue>>
  BY DEF EntryGone, At
<1>3. PICK r \in {rec, AbsorbOf(venue, rec, Entry)} :
        /\ IF r = AbsorbOf(venue, rec, Entry) THEN NoFault ELSE Fault("read")
        /\ Save(EntryCancelled(r))
        /\ Go(EntryCancelled(r), look, mem,
              IF r.position # 0 THEN Tail(todo)
              ELSE IF look.fallback THEN <<"fallback">> ELSE <<>>)
  BY DEF EntryGone
<1> DEFINE e == EntryCancelled(r)
<1>4. Fine(r) /\ Fine(e) /\ trade' = e
  BY <1>1, <1>3, ReadFine, EventsFine DEF Save
<1>5. Unsold(venue) => Blank(r) /\ Blank(e)
  BY <1>1, <1>3, <1>4, ReadFine, Elements, EventsBlank
<1>6. Grows(venue, venue') /\ Kept(venue, venue') BY <1>2, Untouched
<1> HIDE DEF e
<1>7. CASE r.position # 0
  <2>1. Go(e, look, mem, Tail(todo)) BY <1>3, <1>7 DEF e
  <2>2. QED BY <1>1, <1>2, <1>4, <1>5, <1>6, <2>1, StepsOn
<1>8. CASE r.position = 0 /\ ~look.fallback
  <2>1. Go(e, look, mem, <<>>) BY <1>3, <1>8 DEF e
  <2>2. <<>> \in Seq(Stage) /\ Ordered(<<>>) /\ Len(<<>>) = 0 BY StagesOrdered
  <2>3. Carries(e, look, <<>>)
    BY <1>1, <1>2, <1>4, <1>5, <2>1, <2>2 DEF Carries
  <2>4. QED BY <1>1, <1>2, <1>6, <2>3 DEF Steps
<1>9. CASE r.position = 0 /\ look.fallback
  <2> DEFINE s == <<"fallback">>
  <2>1. /\ Timed /\ Known(venue, Entry) /\ ~Resting(venue, Entry)
        /\ ~Known(venue, FallbackEntry) /\ Blank(rec)
    BY <1>1, <1>2, <1>9 DEF Inv, SaleInv, At
  <2>2. r = AbsorbOf(venue, rec, Entry)
    BY <1>3, <2>1 DEF OneSale, Timed, Fault
  <2>3. venue.order[Entry].filled = 0
    <3>1. SUFFICES ASSUME venue.order[Entry].filled # 0 PROVE FALSE OBVIOUS
    <3>2. venue.order[Entry].filled \in Nat \ {0}
      BY <1>1, <3>1, Elements DEF Sound
    <3>3. r.position # 0
      BY <1>1, <2>1, <2>2, <3>2, FoundIsHeld DEF AbsorbOf
    <3>4. QED BY <1>9, <3>3
  <2>4. WrittenOff(venue) BY <2>1, <2>3 DEF WrittenOff
  <2>5. Go(e, look, mem, s) BY <1>3, <1>9 DEF e
  <2>6. /\ s \in Seq(Stage) /\ Len(s) = 1 /\ s[1] = "fallback"
        /\ \A i \in 1 .. Len(s) : s[i] # "overdue"
    BY DEF Stage
  <2>7. Ordered(s) BY StagesOrdered DEF Stage
  <2> HIDE DEF s
  <2>8. Carries(e, look, s)
    BY <1>1, <1>2, <1>4, <1>5, <2>1, <2>4, <2>5, <2>6, <2>7 DEF Carries
  <2>9. QED BY <1>1, <1>2, <1>6, <2>8 DEF Steps
<1>10. QED BY <1>7, <1>8, <1>9

\* The market entry put on: the one entry there is, the other written off.
LEMMA FallbackSells ==
    ASSUME NEW v, Whole(v), Sales(v), Timed, WrittenOff(v), NEW w,
           w = v \/ Placed(v, w, FallbackEntry)
    PROVE  /\ Sales(w)
           /\ Unsold(w) /\ Quiet(v) => Quiet(w)
<1>1. CASE w = v BY <1>1
<1>2. CASE Placed(v, w, FallbackEntry)
  <2>1. w.order[Entry] = v.order[Entry] BY <1>2, Elements DEF Placed
  <2>2. EntriesFine(w)
    <3>1. EntriesFine(v) BY DEF Sales
    <3>2. /\ "net" \in DOMAIN w
          /\ "size" \in DOMAIN w.order[FallbackEntry]
          /\ w.order[FallbackEntry].size = Requested
          /\ w.order[FallbackEntry].filled <= Requested
      BY <1>2, PlanAssumption DEF Placed
    <3>3. /\ "size" \in DOMAIN w.order[Entry]
          /\ Known(w, Entry) => w.order[Entry].size = Requested
          /\ w.order[Entry].filled <= Requested
          /\ w.order[Entry].filled = 0
      BY <2>1, <3>1, Elements DEF EntriesFine, Known, WrittenOff
    <3>4. QED BY <3>2, <3>3 DEF EntriesFine, Entries
  <2>3. WrittenOff(w) BY <2>1 DEF WrittenOff, Known, Resting
  <2>4. Sales(w) BY <2>2, <2>3 DEF Sales
  <2>5. QED BY <1>2, <2>4, PlacedQuiet, Elements
<1>3. QED BY <1>1, <1>2

\* marketFallback() puts the market entry on, once.
LEMMA PlaceFallbackSteps ==
    ASSUME Inv, ~Idle, PlaceFallback
    PROVE  Steps
<1>1. /\ Fine(trade) /\ MemFine(mem) /\ Whole(venue) /\ Sales(venue) /\ Sound(venue)
      /\ todo # <<>>
      /\ Unsold(venue) => Blank(trade) /\ Quiet(venue)
  BY Running, MemFineNow
<1>2. Head(todo) = "fallback" /\ UNCHANGED <<opening, mem>>
  BY DEF PlaceFallback, At
<1>3. Timed /\ WrittenOff(venue) BY <1>1, <1>2 DEF Inv, SaleInv, At
<1>4. LookFine(NoLook) /\ NoLook.net = 0 /\ NoLook.entryOpen = FALSE /\ NoLook.fallback = FALSE
  BY DEF LookFine, NoLook
<1> DEFINE O == MarketOutcomes(venue, FallbackEntry, Requested)
                  \cup {venue, Unfilled(venue, FallbackEntry, Requested)}
<1>5. ASSUME NEW w \in O PROVE w = venue \/ Placed(venue, w, FallbackEntry)
  <2>1. CASE Known(venue, FallbackEntry)
    BY <1>5, <2>1 DEF MarketOutcomes, Unfilled
  <2>2. CASE ~Known(venue, FallbackEntry)
    BY <1>1, <1>5, <2>2, Placements, Elements
  <2>3. QED BY <2>1, <2>2
<1>6. \A w \in O : Grows(venue, w)
  BY <1>1, OutcomesGrow, GrowsOn
<1>7. PICK r, s :
        /\ venue' \in O /\ Go(r, NoLook, mem, s)
        /\ trade' = r \/ trade' = trade
        /\ r \in {trade, Aborted(trade), EntrySubmitUnknown(trade)}
        /\ s \in {<<"fallback_sent">>, <<>>}
  <2>1. CASE venue' \in O /\ Go(trade, NoLook, mem, <<"fallback_sent">>) /\ UNCHANGED trade
    BY <2>1
  <2>2. CASE Save(Aborted(trade)) /\ Go(trade, NoLook, mem, <<>>) /\ UNCHANGED venue
    BY <2>2, GoNowhere DEF Save
  <2>3. CASE venue' \in O /\ Save(EntrySubmitUnknown(trade)) /\ Go(trade, NoLook, mem, <<>>)
    BY <2>3, GoNowhere DEF Save
  <2>4. QED BY <2>1, <2>2, <2>3 DEF PlaceFallback
<1> HIDE DEF O
<1>8. Sales(venue') /\ Grows(venue, venue') /\ (Unsold(venue') /\ Quiet(venue) => Quiet(venue'))
  BY <1>1, <1>3, <1>5, <1>6, <1>7, FallbackSells
<1>9. Unsold(venue') => Unsold(venue) BY <1>1, <1>8, UnsoldBefore
<1>10. Fine(r) /\ (Unsold(venue') => Blank(r))
  BY <1>1, <1>7, <1>9, EventsFine, EventsBlank
<1>11. /\ s \in Seq(Stage) /\ Ordered(s) /\ Len(s) \in {0, 1}
       /\ \A i \in 1 .. Len(s) : s[i] = "fallback_sent"
  <2>1. CASE s = <<>> BY <2>1, StagesOrdered
  <2>2. CASE s = <<"fallback_sent">>
    <3>1. s \in Seq(Stage) /\ Len(s) = 1 /\ \A i \in 1 .. Len(s) : s[i] = "fallback_sent"
      BY <2>2 DEF Stage
    <3>2. Ordered(s) BY <2>2, StagesOrdered DEF Stage
    <3>3. QED BY <3>1, <3>2
  <2>3. QED BY <1>7, <2>1, <2>2
<1>12. Len(s) >= 1 => s[1] = "fallback_sent" BY <1>11
<1>13. \A i \in 1 .. Len(s) : s[i] # "overdue" BY <1>11
<1>14. Carries(r, NoLook, s)
  BY <1>1, <1>2, <1>4, <1>7, <1>8, <1>9, <1>10, <1>11, <1>12, <1>13 DEF Carries
<1>15. QED BY <1>1, <1>2, <1>8, <1>14 DEF Steps

\* The market entry's answer is taken in.
LEMMA FallbackSentSteps ==
    ASSUME Inv, ~Idle, FallbackSent
    PROVE  Steps
<1>1. /\ Fine(rec) /\ LookFine(look) /\ MemFine(mem)
      /\ Unsold(venue) => look.net = 0
  BY Running, MemFineNow
<1>2. /\ Head(todo) = "fallback_sent" /\ UNCHANGED <<opening, mem, venue>>
      /\ LET r == AbsorbOf(venue, rec, FallbackEntry)
         IN /\ trade' = r \/ trade' = trade
            /\ Go(r, look, mem, <<"protect">> \o Tail(todo))
  BY DEF FallbackSent, At, SaveIfChanged, Do
<1>3. Head(todo) \notin Leads BY <1>2 DEF Leads
<1>4. QED BY <1>1, <1>2, <1>3, ReadFine, Elements, Untouched, StepsVia

-----------------------------------------------------------------------------
(* protect() *)

\* A leg of protect() leaves the entries alone, and writes none of them down.
Harmless(leg) ==
    /\ {"venue", "id"} \subseteq DOMAIN leg
    /\ Kept(venue, leg.venue) /\ NoEntry(leg.id)

\* A leg is such a leg where its order is.
LEMMA LegHarms ==
    ASSUME NEW v, Kept(venue, v), NEW id, NoEntry(id), NEW r, NEW failed, NEW wrong
    PROVE  Harmless(Leg(v, r, id, failed, wrong))
  BY DEF Harmless, Leg

\* Whatever went wrong on the way.
LEMMA DespiteHarmless ==
    ASSUME NEW kind, NEW legs, \A l \in legs : Harmless(l), NEW leg \in Despite(kind, legs)
    PROVE  Harmless(leg)
<1>1. ASSUME NEW l, Harmless(l) PROVE Harmless([l EXCEPT !.wrong = @ \cup {kind}])
  BY <1>1 DEF Harmless
<1> QED BY <1>1 DEF Despite

\* placeTarget() and placeStop() are such legs.
LEMMA LegsHarmless ==
    ASSUME Whole(venue), NEW role \in {"take_profit", "stop_loss"},
           NEW book, DOMAIN book \cap Entries = {}
    PROVE  \A leg \in MakeRight(role, book) : Harmless(leg)
<1>1. ASSUME NEW v, Kept(venue, v), NEW leg \in Placing(v, role) PROVE Harmless(leg)
  <2> DEFINE cid == <<role, rec.marks>>
             placed == IF role = "take_profit" THEN LimitOutcomes(v, cid, look.size)
                       ELSE {Accept(v, cid, look.size)}
  <2>1. cid \notin Entries BY DEF Entries, Entry, FallbackEntry
  <2>2. \A w \in placed \cup {v} : Kept(venue, w)
    <3>1. Whole(v) BY <1>1, KeptOn
    <3>2. \A w \in placed : Kept(v, w)
      <4> HIDE DEF cid
      <4> QED BY <2>1, <3>1, OutcomesKeep
    <3> HIDE DEF placed
    <3> QED BY <1>1, <3>1, <3>2, KeptOn
  <2>3. \E w \in placed \cup {v} : \E id \in {None, cid} : \E failed, wrong :
           leg = Leg(w, rec, id, failed, wrong)
    BY <1>1 DEF Placing
  <2>4. NoEntry(None) /\ NoEntry(cid) BY <2>1 DEF NoEntry
  <2> HIDE DEF placed, cid
  <2> QED BY <2>2, <2>3, <2>4, LegHarms
<1>2. ASSUME NEW v, Kept(venue, v), NEW live, NEW keep, \A o \in keep : NoEntry(o),
             NEW leg \in Replacing(v, role, live, keep)
      PROVE  Harmless(leg)
  <2> DEFINE kept == IF keep = {} THEN None ELSE CHOOSE o \in keep : TRUE
  <2>1. \A orders : Kept(venue, CancelAll(v, orders))
    <3>1. Whole(v) BY <1>2, KeptOn
    <3> QED BY <1>2, <3>1, CancelAllKept, KeptOn
  <2>2. NoEntry(kept)
    <3>1. CASE keep = {} BY <3>1 DEF NoEntry
    <3>2. CASE keep # {} BY <1>2, <3>2
    <3>3. QED BY <3>1, <3>2
  <2>3. \/ \E orders, failed, wrong :
             leg = Leg(CancelAll(v, orders), rec, kept, failed, wrong)
        \/ leg \in Placing(CancelAll(v, live \ keep), role)
    BY <1>2 DEF Replacing
  <2> HIDE DEF kept
  <2> QED BY <1>1, <2>1, <2>2, <2>3, LegHarms
<1>3. ASSUME NEW o, NoEntry(o), o \notin Entries, NEW leg \in Editing(role, o) PROVE Harmless(leg)
  <2> DEFINE moved == Edit(venue, o, look.size)
             replaced(v) == Replacing(v, role, {o}, {})
  <2>1. Kept(venue, venue) /\ Kept(venue, moved)
    BY <1>3, ExitsKeep DEF Whole
  <2>2. \/ leg = Leg(moved, rec, o, FALSE, {})
        \/ leg = Leg(venue, rec, o, TRUE, {"edit"})
        \/ leg \in Despite("edit", replaced(venue) \cup replaced(moved))
        \/ leg \in replaced(venue)
    BY <1>3 DEF Editing
  <2> HIDE DEF moved
  <2>3. \A l \in replaced(venue) \cup replaced(moved) : Harmless(l)
    BY <1>2, <2>1
  <2> HIDE DEF replaced
  <2>4. \A v, failed, wrong : Kept(venue, v) => Harmless(Leg(v, rec, o, failed, wrong))
    BY <1>3, LegHarms
  <2>5. leg \in Despite("edit", replaced(venue) \cup replaced(moved)) => Harmless(leg)
    BY <2>3, DespiteHarmless
  <2> QED BY <2>1, <2>2, <2>3, <2>4, <2>5
<1>4. ASSUME NEW leg \in MakeRight(role, book) PROVE Harmless(leg)
  <2> DEFINE live == DOMAIN book
             keep == {o \in live : /\ Wants(role) /\ o \notin Closes
                                   /\ book[o].size - book[o].filled = look.size}
             kept == IF keep = {} THEN {} ELSE {CHOOSE o \in keep : TRUE}
  <2>1. \/ Cardinality(live) = 1 /\ leg \in Editing(role, CHOOSE o \in live : TRUE)
        \/ leg \in Replacing(venue, role, live, kept)
    BY <1>4, Zenon DEF MakeRight
  <2>2. \A o \in live : NoEntry(o) /\ o \notin Entries BY DEF NoEntry
  <2>3. \A o \in kept : o \in live OBVIOUS
  <2>4. CASE Cardinality(live) = 1 /\ leg \in Editing(role, CHOOSE o \in live : TRUE)
    <3>1. live # {} BY <2>4, FS_EmptySet
    <3> HIDE DEF live
    <3>2. (CHOOSE o \in live : TRUE) \in live BY <3>1
    <3>3. QED BY <1>3, <2>2, <2>4, <3>2
  <2> HIDE DEF kept, live
  <2>5. CASE leg \in Replacing(venue, role, live, kept) BY <1>2, <2>2, <2>3, <2>5 DEF Whole
  <2>6. QED BY <2>1, <2>4, <2>5
<1> QED BY <1>4

\* So is whatever settling a leg comes to.
LEMMA SettledHarmless ==
    ASSUME Inv, ~Idle, NEW role \in {"take_profit", "stop_loss"}, NEW leg \in Settled(role)
    PROVE  /\ Harmless(leg) /\ Grows(venue, leg.venue) /\ Fine(leg.rec)
           /\ leg.rec = rec \/ leg.filled
<1> DEFINE o == Recorded(rec, role)
           fills == AbsorbOf(venue, rec, o)
           listed == [p \in DOMAIN look.book \cap Shape(role) |-> look.book[p]]
           with == [p \in DOMAIN listed \cup {o} |->
                      IF p = o THEN venue.order[o] ELSE listed[p]]
           unseen == o # None /\ o \notin DOMAIN listed
           waits == IF role = "take_profit" THEN {Leg(venue, rec, o, TRUE, {})} ELSE {}
           goesOn == MakeRight(role, listed)
           held == IF role = "take_profit" THEN waits ELSE goesOn
           lost == Despite("read", held) \cup Despite("nowhere", waits \cup goesOn)
           filled == [Leg(venue, fills, o, FALSE, {}) EXCEPT !.filled = TRUE]
           found == IF Resting(venue, o) THEN MakeRight(role, with)
                    ELSE IF fills # rec THEN {filled} ELSE goesOn
           Fit(l) == Harmless(l) /\ Grows(venue, l.venue) /\ Fine(l.rec) /\ (l.rec = rec \/ l.filled)
           Good(l) == Harmless(l) /\ "rec" \in DOMAIN l /\ Grows(venue, l.venue) /\ l.rec = rec
<1>0. Fine(rec) /\ Whole(venue) /\ Sound(venue) /\ Kept(venue, venue) /\ Grows(venue, venue)
  BY Running, GrowsOn DEF Whole
<1>1. NoEntry(o) BY <1>0 DEF NoEntry, Recorded, Fine
<1>2. Shape(role) \cap Entries = {}
  BY DEF Shape, Entries, Entry, FallbackEntry, Targets, Stops, Closes
<1>3. DOMAIN listed = DOMAIN look.book \cap Shape(role)
      /\ DOMAIN with = DOMAIN listed \cup {o}
  OBVIOUS
<1>4. DOMAIN listed \cap Entries = {} BY <1>2, <1>3
<1>5. unseen => DOMAIN with \cap Entries = {} BY <1>1, <1>3, <1>4 DEF NoEntry
<1> HIDE DEF listed, with
<1>6. ASSUME NEW book, DOMAIN book \cap Entries = {}, NEW l \in MakeRight(role, book) PROVE Good(l)
  <2>1. Harmless(l) BY <1>0, <1>6, LegsHarmless
  <2>2. Moved(l) BY <1>0, <1>6, LegsMove
  <2>3. QED BY <1>0, <2>1, <2>2 DEF Moved
<1>7. Fine(fills) BY ReadFine
<1>8. Good(Leg(venue, rec, o, TRUE, {}))
  <2> HIDE DEF o
  <2>1. Harmless(Leg(venue, rec, o, TRUE, {})) BY <1>0, <1>1, LegHarms
  <2> QED BY <1>0, <2>1 DEF Leg
<1>9. Fit(filled)
  <2> HIDE DEF o, fills
  <2>1. /\ filled.venue = venue /\ filled.rec = fills /\ filled.id = o
        /\ {"venue", "id", "rec"} \subseteq DOMAIN filled /\ filled.filled
    BY DEF Leg
  <2> HIDE DEF filled
  <2>2. QED BY <1>0, <1>1, <1>7, <2>1 DEF Harmless
<1>10. ASSUME NEW kind, NEW legs, \A l \in legs : Good(l), NEW l \in Despite(kind, legs)
      PROVE  Good(l)
  <2>1. PICK p \in legs : l = [p EXCEPT !.wrong = @ \cup {kind}] BY <1>10 DEF Despite
  <2>2. Good(p) BY <1>10
  <2> QED BY <2>1, <2>2 DEF Harmless
<1>11. Settled(role) = IF unseen THEN lost \cup found ELSE goesOn
  BY DEF Settled, listed, with
<1>12. \A l \in waits \cup goesOn : Good(l)
  <2> HIDE DEF o, Good
  <2> QED BY <1>4, <1>6, <1>8
<1>13. leg \in lost => Good(leg)
  <2>1. held \subseteq waits \cup goesOn OBVIOUS
  <2> HIDE DEF held, waits, goesOn, Good
  <2> QED BY <1>10, <1>12, <2>1
<1>14. unseen /\ leg \in found => Good(leg) \/ leg = filled
  <2> HIDE DEF o, fills, filled, unseen, Good
  <2> QED BY <1>4, <1>5, <1>6
<1>15. leg \in goesOn => Good(leg)
  <2> HIDE DEF Good
  <2> QED BY <1>4, <1>6
<1>16. Good(leg) \/ leg = filled
  <2> HIDE DEF unseen, lost, found, filled, goesOn, Good
  <2> QED BY <1>11, <1>13, <1>14, <1>15
<1> HIDE DEF filled
<1>17. Fit(leg) BY <1>0, <1>9, <1>16
<1>18. QED BY <1>17

\* What comes after a part of a job comes after it in the whole.
LEMMA Joined ==
    ASSUME NEW s \in Seq(Stage), NEW u \in Seq(Stage)
    PROVE  Len(s \o u) = Len(s) + Len(u) /\ \A i \in 1 .. Len(u) : (s \o u)[i + Len(s)] = u[i]
  OBVIOUS

\* A leg that filled: on with what comes after the legs.
LEMMA StepsPast ==
    ASSUME Inv, ~Idle, Grows(venue, venue'), Kept(venue, venue'), MemFine(mem'),
           NEW k \in {3, 4}, Head(todo) = IF k = 4 THEN "settle_target" ELSE "settle_stop",
           NEW r, NEW m, Fine(r), trade' = r \/ trade' = trade, UNCHANGED opening,
           Go(r, look, m, <<"losers">> \o SubSeq(todo, k, Len(todo)))
    PROVE  Steps
<1> DEFINE s == <<"losers">>
           u == SubSeq(todo, k, Len(todo))
           t == s \o u
<1>1. /\ todo \in Seq(Stage) /\ Ordered(todo) /\ todo # <<>> /\ Head(todo) = todo[1]
      /\ LookFine(look) /\ Sales(venue)
  BY Running
<1>2. Len(todo) \in Nat /\ Len(todo) >= 1 BY <1>1
<1>3. \A i \in 2 .. Len(todo) : Follows(todo[i - 1], todo[i]) BY <1>1 DEF Ordered
<1>4. k <= Len(todo) => todo[k - 1] = "record"
  <2>1. CASE k = 3 /\ 3 <= Len(todo)
    <3>1. Follows(todo[2 - 1], todo[2]) BY <1>2, <1>3, <2>1
    <3>2. todo[2] = "record" BY <1>1, <2>1, <3>1 DEF Follows
    <3>3. QED BY <2>1, <3>2
  <2>2. CASE k = 4 /\ 4 <= Len(todo)
    <3>1. Follows(todo[2 - 1], todo[2]) /\ Follows(todo[3 - 1], todo[3]) BY <1>2, <1>3, <2>2
    <3>2. todo[2] = "settle_stop" BY <1>1, <2>2, <3>1 DEF Follows
    <3>3. todo[3] = "record" BY <3>1, <3>2 DEF Follows
    <3>4. QED BY <2>2, <3>3
  <2>3. QED BY <2>1, <2>2
<1>5. /\ s \in Seq(Stage) /\ s # <<>> /\ Len(s) = 1 /\ s[1] = "losers" BY DEF Stage
<1>6. Ordered(s) BY StagesOrdered DEF Stage
<1>7. s[Len(s)] \notin {"settle_target", "settle_stop"} BY <1>5
<1>8. k <= Len(todo) => todo[k - 1] \notin Leads BY <1>4 DEF Leads
<1>9. Go(r, look, m, t) OBVIOUS
<1> HIDE DEF s
<1>10. Ordered(t) /\ t # <<>> /\ t[1] = "losers"
  <2>1. k \in Nat /\ k >= 2 OBVIOUS
  <2>2. QED BY <1>1, <1>5, <1>6, <1>7, <1>8, <2>1, Prepended
<1>11. t \in Seq(Stage) BY <1>10 DEF Ordered
<1>12. \A i \in 1 .. Len(t) : t[i] = "overdue" => \E j \in 1 .. Len(todo) : todo[j] = "overdue"
  <2>1. /\ u \in Seq(Stage) /\ Len(u) \in Nat
        /\ \A i \in 1 .. Len(u) : u[i] = todo[i + k - 1] /\ i + k - 1 \in 1 .. Len(todo)
    BY <1>1, <1>2
  <2> HIDE DEF u
  <2>2. /\ Len(t) = 1 + Len(u)
        /\ \A i \in 2 .. Len(t) : t[i] = u[i - 1] /\ i - 1 \in 1 .. Len(u)
    <3>1. Len(t) = 1 + Len(u) /\ \A i \in 1 .. Len(u) : t[i + Len(s)] = u[i]
      BY <1>5, <2>1, Joined
    <3>2. ASSUME NEW i \in 2 .. Len(t) PROVE t[i] = u[i - 1] /\ i - 1 \in 1 .. Len(u)
      <4> HIDE DEF t
      <4>1. i - 1 \in 1 .. Len(u) BY <2>1, <3>1, <3>2
      <4>2. t[(i - 1) + Len(s)] = u[i - 1] BY <3>1, <4>1
      <4>3. (i - 1) + Len(s) = i BY <1>5
      <4>4. QED BY <4>1, <4>2, <4>3
    <3>3. QED BY <3>1, <3>2
  <2> HIDE DEF t
  <2> SUFFICES ASSUME NEW i \in 1 .. Len(t), t[i] = "overdue"
               PROVE  \E j \in 1 .. Len(todo) : todo[j] = "overdue"
    OBVIOUS
  <2>3. i # 1 BY <1>10
  <2>4. t[i] = u[i - 1] /\ i - 1 \in 1 .. Len(u) BY <2>1, <2>2, <2>3
  <2>5. u[i - 1] = todo[(i - 1) + k - 1] /\ (i - 1) + k - 1 \in 1 .. Len(todo) BY <2>1, <2>4
  <2>6. QED BY <2>4, <2>5
<1> HIDE DEF t
<1>13. ~(Timed /\ look.entryOpen /\ (\E i \in 1 .. Len(t) : t[i] = "overdue"))
  <2>1. SUFFICES ASSUME Timed, look.entryOpen, \E i \in 1 .. Len(t) : t[i] = "overdue" PROVE FALSE
    OBVIOUS
  <2>2. \E j \in 1 .. Len(todo) : todo[j] = "overdue" BY <1>12, <2>1
  <2>3. Head(todo) = "overdue" BY <2>1, <2>2 DEF Inv, SaleInv, At
  <2>4. QED BY <2>3
<1>14. Sales(venue') /\ ~Unsold(venue')
  <2>1. ~Unsold(venue) BY BlankHead
  <2>2. QED BY <1>1, <2>1, KeptSales
<1>15. Carries(r, look, t)
  BY <1>1, <1>9, <1>10, <1>11, <1>13, <1>14 DEF Carries
<1>16. QED BY <1>14, <1>15 DEF Steps

\* protect() puts a leg on, or finds it filled.
LEMMA SettleLegSteps ==
    ASSUME Inv, ~Idle, NEW role \in {"take_profit", "stop_loss"}, SettleLeg(role)
    PROVE  Steps
<1>1. Fine(rec) /\ LookFine(look) /\ MemFine(mem) /\ HeadFine(Head(todo), rec, look)
  BY Running, MemFineNow
<1>2. /\ Head(todo) = IF role = "take_profit" THEN "settle_target" ELSE "settle_stop"
      /\ UNCHANGED <<opening, mem>>
  BY DEF SettleLeg, At
<1>3. ~Unsold(venue) /\ rec.position < 0
  BY <1>1, <1>2, BlankHead DEF HeadFine
<1> DEFINE side == IF role = "take_profit" THEN "takeProfit" ELSE "stopLoss"
           next(leg) == [look EXCEPT ![side] = leg.id,
                                     !.failed = IF leg.failed THEN @ \cup {role} ELSE @]
           k == IF role = "take_profit" THEN 4 ELSE 3
<1>4. PICK leg \in Settled(role) :
        /\ venue' = leg.venue
        /\ SaveIfChanged(leg.rec)
        /\ IF leg.filled
             THEN Go(leg.rec, look, mem, <<"losers">> \o SubSeq(todo, k, Len(todo)))
             ELSE Go(rec, next(leg), mem, Tail(todo))
  BY Zenon DEF SettleLeg
<1>saved. trade' = leg.rec \/ trade' = trade BY <1>4 DEF SaveIfChanged
<1>5. /\ Harmless(leg) /\ Fine(leg.rec) /\ Grows(venue, venue') /\ Kept(venue, venue')
      /\ NoEntry(leg.id)
  BY <1>4, SettledHarmless DEF Harmless
<1>6. CASE leg.filled
  <2>1. k \in {3, 4} /\ (k = 4 <=> role = "take_profit") OBVIOUS
  <2>2. Go(leg.rec, look, mem, <<"losers">> \o SubSeq(todo, k, Len(todo))) BY <1>4, <1>6
  <2> HIDE DEF k
  <2>3. Head(todo) = IF k = 4 THEN "settle_target" ELSE "settle_stop" BY <1>2, <2>1
  <2>4. QED BY <1>1, <1>2, <1>saved, <1>5, <2>1, <2>2, <2>3, StepsPast
<1>7. CASE ~leg.filled
  <2>1. Go(rec, next(leg), mem, Tail(todo)) BY <1>4, <1>7
  <2>2. LookFine(next(leg)) /\ next(leg).entryOpen = look.entryOpen
    <3>1. side \in {"takeProfit", "stopLoss"} OBVIOUS
    <3> HIDE DEF side
    <3>2. QED BY <1>1, <1>5, <3>1 DEF LookFine, NoLook, NoEntry
  <2>3. trade' = rec \/ trade' = trade
    <3>1. leg.rec = rec \/ leg.filled BY SettledHarmless
    <3>2. QED BY <1>saved, <1>7, <3>1
  <2> HIDE DEF next
  <2>4. QED BY <1>1, <1>2, <1>3, <1>5, <2>1, <2>2, <2>3, StepsOn
<1>8. QED BY <1>6, <1>7

\* protect() reads what rests, and goes on with the legs or the record.
LEMMA ReadBookSteps ==
    ASSUME Inv, ~Idle, ReadBook
    PROVE  Steps
<1>1. Fine(rec) /\ LookFine(look) /\ MemFine(mem) /\ HeadFine(Head(todo), rec, look)
  BY Running, MemFineNow
<1>2. Head(todo) \in {"cover", "protect"} /\ UNCHANGED <<trade, opening, venue>>
  BY DEF ReadBook, At
<1>3. ~Unsold(venue) /\ rec.position < 0 /\ Head(todo) \notin Leads
  BY <1>1, <1>2, BlankHead DEF HeadFine, Leads
<1>4. MemFine(mem') BY <1>1, MemKept DEF ReadBook
<1> DEFINE over(book) == [look EXCEPT !.book = book, !.size = Size, !.failed = {},
                                      !.takeProfit = None, !.stopLoss = None]
           s == <<"settle_target", "settle_stop", "record">>
<1>5. \/ Go(rec, look, mem, <<"clear">> \o Tail(todo))
      \/ Go(rec, look, mem, Tail(todo))
      \/ \E book : Go(rec, over(book), mem, s \o Tail(todo))
  BY Zenon DEF ReadBook, Do, On
<1>6. CASE Go(rec, look, mem, <<"clear">> \o Tail(todo))
  BY <1>1, <1>2, <1>3, <1>4, <1>6, Untouched, StepsVia
<1>7. CASE Go(rec, look, mem, Tail(todo))
  BY <1>1, <1>2, <1>3, <1>4, <1>7, Untouched, StepsOn
<1>8. ASSUME NEW book, Go(rec, over(book), mem, s \o Tail(todo)) PROVE Steps
  <2>1. LookFine(over(book)) /\ over(book).entryOpen = look.entryOpen
    BY <1>1 DEF LookFine, NoLook
  <2>2. /\ s \in Seq(Stage) /\ s # <<>> /\ Len(s) = 3
        /\ s[1] = "settle_target" /\ s[2] = "settle_stop" /\ s[3] = "record"
    BY DEF Stage
  <2>3. Ordered(s) BY StagesOrdered
  <2>4. Go(rec, over(book), mem, s \o Tail(todo)) BY <1>8
  <2> HIDE DEF s, over
  <2>5. /\ s[Len(s)] \notin {"settle_target", "settle_stop"}
        /\ s[1] \notin {"send", "fallback", "entry_gone"}
    BY <2>2
  <2>6. \A i \in 1 .. Len(s) : s[i] # "overdue"
    <3>1. \A i \in 1 .. 3 : i = 1 \/ i = 2 \/ i = 3 OBVIOUS
    <3>2. QED BY <2>2, <3>1
  <2>7. QED BY <1>1, <1>2, <1>3, <1>4, <2>1, <2>2, <2>3, <2>4, <2>5, <2>6, Untouched, StepsThrough
<1>9. QED BY <1>5, <1>6, <1>7, <1>8

\* protect() writes both legs down.
LEMMA RecordProtectionSteps ==
    ASSUME Inv, ~Idle, RecordProtection
    PROVE  Steps
<1>1. Fine(rec) /\ LookFine(look) /\ MemFine(mem)
  BY Running, MemFineNow
<1> DEFINE same == /\ look.takeProfit = rec.takeProfit
                   /\ look.stopLoss = rec.stopLoss /\ look.size = rec.cover
           r == IF same THEN rec
                ELSE ProtectionPlaced(rec, look.takeProfit, look.stopLoss, look.size)
           s == IF look.failed = {} THEN r
                ELSE ProtectionFailed(r, look.failed = {"take_profit"})
<1>2. /\ Head(todo) = "record" /\ UNCHANGED <<opening, venue>>
      /\ mem' = [mem EXCEPT !.hold = look.failed # {}, !.owed = look.failed # {}]
      /\ Go(s, look, mem', Tail(todo))
      /\ trade' = s \/ trade' = trade
  BY DEF RecordProtection, At, SaveIfChanged
<1>3. ~Unsold(venue) BY <1>2, BlankHead
<1>4. MemFine(mem') BY <1>1, <1>2, MemKept
<1>5. NoEntry(look.takeProfit) /\ NoEntry(look.stopLoss) BY <1>1 DEF LookFine, NoEntry
<1>6. Fine(r)
  <2>1. Fine(ProtectionPlaced(rec, look.takeProfit, look.stopLoss, look.size))
    BY <1>1, <1>5, EventsFine
  <2>2. QED BY <1>1, <2>1
<1>7. Fine(s)
  <2> HIDE DEF r
  <2>1. Fine(ProtectionFailed(r, look.failed = {"take_profit"})) BY <1>6, EventsFine
  <2>2. QED BY <1>6, <2>1
<1> HIDE DEF s
<1>8. QED BY <1>1, <1>2, <1>3, <1>4, <1>7, Untouched, StepsOn

\* Taking everything off leaves a venue that holds nothing as quiet.
LEMMA CancelAllQuiet ==
    ASSUME NEW v, Whole(v), Quiet(v), NEW orders
    PROVE  Quiet(CancelAll(v, orders))
<1>1. "order" \in DOMAIN v /\ "net" \in DOMAIN v BY DEF Whole, Kept, Sound
<1>2. \A o \in Exits : o \in Order /\ ~Resting(v, o) BY QuietStays DEF Order
<1>3. /\ CancelAll(v, orders).net = v.net
      /\ \A o \in Exits : CancelAll(v, orders).order[o] = v.order[o]
  BY <1>1, <1>2 DEF CancelAll
<1>4. QED BY <1>3 DEF Quiet, Known

\* clearProtection() takes both legs off.
LEMMA ClearProtectionSteps ==
    ASSUME Inv, ~Idle, ClearProtection
    PROVE  Steps
<1>1. /\ Fine(rec) /\ LookFine(look) /\ MemFine(mem) /\ Whole(venue) /\ Sound(venue)
      /\ Unsold(venue) => Blank(rec) /\ look.net = 0 /\ Quiet(venue)
  BY Running, MemFineNow
<1> DEFINE r == IF rec.takeProfit = None /\ rec.stopLoss = None THEN rec
                ELSE ProtectionPlaced(rec, None, None, 0)
<1>2. /\ Head(todo) = "clear" /\ UNCHANGED <<opening, mem>>
      /\ venue' = venue \/ \E orders : venue' = CancelAll(venue, orders)
      /\ Go(r, look, mem, Tail(todo))
      /\ trade' = r \/ trade' = trade
  BY DEF ClearProtection, At, SaveIfChanged, On
<1>3. Fine(r) /\ (Unsold(venue) => Blank(r))
  <2>1. NoEntry(None) BY DEF NoEntry
  <2>2. Fine(ProtectionPlaced(rec, None, None, 0)) BY <1>1, <2>1, EventsFine
  <2>3. QED BY <1>1, <2>2 DEF Blank
<1>4. Grows(venue, venue') /\ Kept(venue, venue') /\ (Unsold(venue) => Quiet(venue'))
  <2>1. CASE venue' = venue BY <2>1, Untouched
  <2>2. ASSUME NEW orders, venue' = CancelAll(venue, orders)
        PROVE  Grows(venue, venue') /\ Kept(venue, venue') /\ (Unsold(venue) => Quiet(venue'))
    BY <1>1, <2>2, CancelAllGrows, CancelAllKept, CancelAllQuiet
  <2>3. QED BY <1>2, <2>1, <2>2
<1> HIDE DEF r
<1>5. QED BY <1>1, <1>2, <1>3, <1>4, StepsOn

-----------------------------------------------------------------------------
(* The exits taken off, and the close sent *)

\* cancelSiblings() leaves the entries alone.
LEMMA TakenOffKept ==
    ASSUME Whole(venue), NEW r, Fine(r), NEW legs, NEW t \in TakeOffs(r, legs)
    PROVE  /\ Kept(venue, t.end.venue) /\ Fine(t.end.rec)
           /\ legs = {} => t.end.venue = venue /\ t.end.rec = r
<1> DEFINE Good(x) == Kept(venue, x.venue) /\ Fine(x.rec)
           x0 == [venue |-> venue, rec |-> r, sure |-> TRUE]
           off(x, role, how) == IF role \in legs THEN TakeOffLeg(x, role, how) ELSE x
<1>1. ASSUME NEW x, Good(x), NEW role, NEW how PROVE Good(TakeOffLeg(x, role, how))
  <2> DEFINE o == Recorded(x.rec, role)
             v == IF how \in {"taken", "unverified"} THEN Cancel(x.venue, o) ELSE x.venue
             seen == how \notin {"unread", "nowhere"}
             s == IF seen /\ x.venue.order[o].filled > 0 /\ x.rec.position # 0
                    THEN AbsorbOf(v, x.rec, o) ELSE x.rec
             gone == how \in {"taken", "nowhere"}
  <2>1. Kept(venue, v)
    <3>1. Whole(x.venue) BY <1>1, KeptOn
    <3>2. Kept(x.venue, v) BY <3>1, SettleKept DEF Cancel, Whole
    <3> HIDE DEF v
    <3> QED BY <1>1, <3>2, KeptOn
  <2>2. Fine(s)
    <3>1. \A w, p : Fine(AbsorbOf(w, x.rec, p)) BY <1>1, AbsorbFine
    <3> HIDE DEF v
    <3> QED BY <1>1, <3>1
  <2>3. Fine(SiblingCancelled(s, role))
    <3> HIDE DEF s
    <3> QED BY <2>2, EventsFine
  <2>4. /\ TakeOffLeg(x, role, how).venue = v
        /\ TakeOffLeg(x, role, how).rec = IF gone THEN SiblingCancelled(s, role) ELSE s
    BY DEF TakeOffLeg
  <2> HIDE DEF v, s, gone
  <2> QED BY <2>1, <2>2, <2>3, <2>4
<1>2. x0.venue = venue /\ x0.rec = r
  OBVIOUS
<1>3. Good(x0)
  <2> HIDE DEF x0
  <2> QED BY <1>2 DEF Whole
<1>4. \E g, h : t.end = off(off(x0, "take_profit", g), "stop_loss", h)
  <2> DEFINE hows(role) == IF role \in legs THEN Hows(venue, Recorded(r, role))
                           ELSE {<<"taken", "none">>}
             off2(h) == off(off(x0, "take_profit", h[1][1]), "stop_loss", h[2][1])
             fault(h) == IF h[1][2] = "none" THEN h[2][2] ELSE h[1][2]
             H == {p \in hows("take_profit") \X hows("stop_loss") :
                     "none" \in {p[1][2], p[2][2]}}
  <2>1. TakeOffs(r, legs) = {[end |-> off2(h), fault |-> fault(h)] : h \in H}
    BY DEF TakeOffs
  <2>2. PICK h \in H : t.end = off2(h)
    <3> HIDE DEF off2, fault, H
    <3> QED
      BY <2>1
  <2> HIDE DEF off, H
  <2> QED
    BY <2>2
<1> HIDE DEF Good, x0
<1>5. Good(t.end)
  BY <1>1, <1>3, <1>4
<1>6. legs = {} => t.end = x0
  BY <1>4
<1> QED
  BY <1>2, <1>5, <1>6 DEF Good

\* A record with no fill has no legs to take off.
LEMMA NoLegs ==
    ASSUME NEW r, Blank(r)
    PROVE  BothLegs(r) = {} /\ Losers(r) = {}
  BY DEF Blank, BothLegs, Losers, Recorded

\* The legs are taken off before a close, or after an exit.
LEMMA CancelSiblingsSteps ==
    ASSUME Inv, ~Idle, CancelSiblings
    PROVE  Steps
<1>1. /\ Fine(rec) /\ LookFine(look) /\ MemFine(mem) /\ Whole(venue) /\ Sound(venue)
      /\ Backed(venue, rec)
      /\ Unsold(venue) => Blank(rec) /\ look.net = 0 /\ Quiet(venue)
  BY Running, MemFineNow
<1> DEFINE legs == IF At("losers") THEN Losers(rec) ELSE BothLegs(rec)
           l == IF At("take_off") THEN CloseSize ELSE look
<1>2. Head(todo) \in {"losers", "take_off", "close_out"} /\ UNCHANGED opening
  BY DEF CancelSiblings, At
<1>3. PICK t \in TakeOffs(rec, legs) :
        /\ venue' = t.end.venue
        /\ mem' = NoteLeftover(t.end.sure)
        /\ LET r == IF At("close_out") THEN Reconciled(t.end.rec, 0) ELSE t.end.rec
           IN SaveIfChanged(r) /\ Go(r, l, mem', Tail(todo))
  BY DEF CancelSiblings
<1> DEFINE r == IF At("close_out") THEN Reconciled(t.end.rec, 0) ELSE t.end.rec
<1>4. SaveIfChanged(r) /\ Go(r, l, mem', Tail(todo)) BY <1>3
<1>5. Kept(venue, venue') /\ Fine(t.end.rec) /\ Grows(venue, venue')
  BY <1>1, <1>3, TakenOffKept, TakenOffBooks
<1>6. Fine(r) BY <1>5, EventsFine
<1>7. Unsold(venue) => venue' = venue /\ Blank(r)
  <2> SUFFICES ASSUME Unsold(venue) PROVE venue' = venue /\ Blank(r)
    OBVIOUS
  <2>1. legs = {} BY <1>1, NoLegs
  <2> HIDE DEF legs
  <2>2. venue' = venue /\ t.end.rec = rec BY <1>1, <1>3, <2>1, TakenOffKept
  <2>3. QED BY <1>1, <2>2, EventsBlank
<1>8. LookFine(l) /\ l.entryOpen = look.entryOpen /\ l.net = look.net
  BY <1>1 DEF LookFine, NoLook, CloseSize
<1>9. MemFine(mem') BY <1>1, <1>3, MemKept DEF NoteLeftover
<1> HIDE DEF r, l
<1>10. trade' = r \/ trade' = trade BY <1>4 DEF SaveIfChanged
<1>11. QED BY <1>1, <1>2, <1>4, <1>5, <1>6, <1>7, <1>8, <1>9, <1>10, StepsOn

\* The close is written down before it is sent.
LEMMA SubmitCloseSteps ==
    ASSUME Inv, ~Idle, SubmitClose
    PROVE  Steps
<1>1. /\ Fine(rec) /\ LookFine(look) /\ MemFine(mem)
      /\ Unsold(venue) => Blank(rec) /\ look.net = 0
  BY Running, MemFineNow
<1> DEFINE sending == IF look.want > Size THEN Size ELSE look.want
           cid == <<IF look.limit THEN "exit_limit" ELSE "exit", rec.exits + 1>>
           c == [order |-> cid, size |-> sending, before |-> Size,
                 all |-> look.all \/ sending >= Size]
           r == ExitSubmitted(rec, c)
<1>2. /\ Head(todo) = "submit" /\ UNCHANGED <<opening, mem, venue>>
      /\ trade' = r /\ Go(r, look, mem, Tail(todo))
  BY DEF SubmitClose, At, Save, On
<1>3. c.order = cid /\ cid \notin Entries
  BY DEF Entries, Entry, FallbackEntry
<1> HIDE DEF c, cid
<1>4. Fine(r) /\ r.closing = c
  BY <1>1, <1>3, EventsFine DEF ExitSubmitted, Fine, InitialTrade
<1>5. Unsold(venue) => Blank(r) BY <1>1, EventsBlank
<1> HIDE DEF r
<1>6. QED BY <1>1, <1>2, <1>3, <1>4, <1>5, Untouched, StepsOn

\* The close is sent, and its answer taken in.
LEMMA SendCloseSteps ==
    ASSUME Inv, ~Idle, SendClose
    PROVE  Steps
<1> DEFINE c == rec.closing
           out == IF c.order[1] = "exit" THEN MarketOutcomes(venue, c.order, c.size)
                  ELSE LimitOutcomes(venue, c.order, c.size)
           failed == ProtectionFailed(rec, FALSE)
           r == AbsorbOf(venue', rec, c.order)
<1>1. /\ Fine(rec) /\ LookFine(look) /\ MemFine(mem) /\ Whole(venue) /\ Sound(venue)
      /\ HeadFine(Head(todo), rec, look)
  BY Running, MemFineNow
<1>2. Head(todo) = "send" /\ UNCHANGED <<opening, mem>>
  BY DEF SendClose, At
<1>3. c.order \notin Entries /\ ~Unsold(venue) /\ Head(todo) \notin Leads
  BY <1>1, <1>2, BlankHead DEF HeadFine, Leads
<1>4. /\ venue' \in out \cup {venue, Unfilled(venue, c.order, c.size)}
      /\ \/ (trade' = r \/ trade' = trade) /\ Go(r, look, mem, Tail(todo))
         \/ trade' = failed /\ Go(failed, look, mem, <<"protect">> \o Tail(todo))
         \/ trade' = failed /\ Go(failed, look, mem, Tail(todo))
  BY DEF SendClose, On, Do, SaveIfChanged, Save
<1>5. Kept(venue, venue') /\ Grows(venue, venue')
  <2>1. \A w \in out \cup {venue, Unfilled(venue, c.order, c.size)} : Kept(venue, w)
    <3> HIDE DEF c
    <3>1. \A w \in out : Kept(venue, w) BY <1>1, <1>3, OutcomesKeep
    <3>2. Kept(venue, venue) /\ Kept(venue, Unfilled(venue, c.order, c.size))
      BY <1>1, <1>3, OutcomesKeep
    <3> HIDE DEF out
    <3>3. QED BY <3>1, <3>2
  <2>2. \A w \in out \cup {venue, Unfilled(venue, c.order, c.size)} : Grows(venue, w)
    <3> HIDE DEF c
    <3>1. \A w \in out : Grows(venue, w) BY <1>1, OutcomesGrow
    <3>2. Grows(venue, venue) /\ Grows(venue, Unfilled(venue, c.order, c.size))
      BY <1>1, OutcomesGrow, GrowsOn
    <3> HIDE DEF out
    <3>3. QED BY <3>1, <3>2
  <2> HIDE DEF out
  <2>3. QED BY <1>4, <2>1, <2>2
<1>6. Fine(r) /\ Fine(failed) BY <1>1, AbsorbFine, EventsFine
<1> HIDE DEF r, failed, out
<1>7. CASE (trade' = r \/ trade' = trade) /\ Go(r, look, mem, Tail(todo))
  BY <1>1, <1>2, <1>3, <1>5, <1>6, <1>7, StepsOn
<1>8. CASE trade' = failed /\ Go(failed, look, mem, <<"protect">> \o Tail(todo))
  BY <1>1, <1>2, <1>3, <1>5, <1>6, <1>8, StepsVia
<1>9. CASE trade' = failed /\ Go(failed, look, mem, Tail(todo))
  BY <1>1, <1>2, <1>3, <1>5, <1>6, <1>9, StepsOn
<1>10. QED BY <1>4, <1>7, <1>8, <1>9

\* A close begun in the middle of another job.
LEMMA StepsClose ==
    ASSUME Inv, ~Idle, Grows(venue, venue'), Kept(venue, venue'), MemFine(mem'),
           Head(todo) \notin Leads,
           NEW r, NEW l, NEW m, Go(r, l, m, CloseStages \o Tail(todo)),
           trade' = r \/ trade' = trade, UNCHANGED opening,
           Fine(r), LookFine(l), l.entryOpen = FALSE,
           Unsold(venue) => Blank(r) /\ l.net = 0 /\ Quiet(venue')
    PROVE  Steps
<1> DEFINE s == CloseStages
<1>1. /\ s \in Seq(Stage) /\ s # <<>> /\ Len(s) = 4
      /\ s[1] = "sync" /\ s[2] = "take_off" /\ s[3] = "submit" /\ s[4] = "send"
  BY DEF CloseStages, Stage
<1>2. Ordered(s) BY StagesOrdered
<1>3. Go(r, l, m, s \o Tail(todo)) OBVIOUS
<1> HIDE DEF s
<1>4. /\ s[Len(s)] \notin {"settle_target", "settle_stop"}
      /\ s[1] \notin {"settle_target", "settle_stop", "record", "send", "fallback", "entry_gone"}
  BY <1>1
<1>5. \A i \in 1 .. Len(s) : s[i] # "overdue"
  <2>1. \A i \in 1 .. 4 : i = 1 \/ i = 2 \/ i = 3 \/ i = 4 OBVIOUS
  <2>2. QED BY <1>1, <2>1
<1>6. QED BY <1>1, <1>2, <1>3, <1>4, <1>5, StepsThrough

\* The exits that were read are judged together.
LEMMA JudgeExitsSteps ==
    ASSUME Inv, ~Idle, JudgeExits
    PROVE  Steps
<1>1. /\ Fine(rec) /\ Fine(trade) /\ LookFine(look) /\ MemFine(mem)
      /\ Unsold(venue) => Blank(rec) /\ Blank(trade) /\ look.net = 0
  BY Running, MemFineNow
<1>2. /\ Head(todo) = "judge" /\ UNCHANGED <<trade, opening, mem, venue>>
      /\ \/ Go(rec, look, mem, Tail(todo))
         \/ \E limit : Go(trade, [NoLook EXCEPT !.limit = limit], mem, CloseStages \o Tail(todo))
  BY DEF JudgeExits, At, On
<1>3. CASE Go(rec, look, mem, Tail(todo))
  BY <1>1, <1>2, <1>3, Untouched, StepsOn
<1>4. ASSUME NEW limit,
             Go(trade, [NoLook EXCEPT !.limit = limit], mem, CloseStages \o Tail(todo))
      PROVE  Steps
  <2> DEFINE l == [NoLook EXCEPT !.limit = limit]
  <2>1. LookFine(l) /\ l.entryOpen = FALSE /\ l.net = 0
    BY DEF LookFine, NoLook
  <2>2. Head(todo) \notin Leads BY <1>2 DEF Leads
  <2>3. Go(trade, l, mem, CloseStages \o Tail(todo)) BY <1>4
  <2> HIDE DEF l
  <2>4. QED BY <1>1, <1>2, <2>1, <2>2, <2>3, Untouched, StepsClose
<1>5. QED BY <1>2, <1>3, <1>4

\* A close that is out is followed up.
LEMMA FollowUpSteps ==
    ASSUME Inv, ~Idle, FollowUp
    PROVE  Steps
<1> DEFINE x == rec.closing.order
           r == AbsorbOf(venue, rec, x)
           again(want) == [NoLook EXCEPT !.want = want]
<1>1. /\ Fine(rec) /\ LookFine(look) /\ MemFine(mem) /\ Whole(venue) /\ Sound(venue)
  BY Running, MemFineNow
<1>2. Head(todo) = "follow" /\ UNCHANGED opening
  BY DEF FollowUp, At
<1>3. ~Unsold(venue) /\ Head(todo) \notin Leads
  BY <1>2, BlankHead DEF Leads
<1>4. \A s, v : ResendClose(s, v) =>
        /\ venue' = v /\ (trade' = s \/ trade' = trade)
        /\ mem' = mem \/ mem' = [mem EXCEPT !.gaveUp = TRUE]
        /\ \/ Go(s, look, mem, Tail(todo))
           \/ \E want : Go(s, again(want), mem, CloseStages \o Tail(todo))
  BY Zenon DEF ResendClose, SaveIfChanged, On
<1>5. PICK s \in {rec, r} :
        /\ venue' = venue \/ venue' = Cancel(venue, x)
        /\ trade' = s \/ trade' = trade
        /\ mem' = mem \/ mem' = [mem EXCEPT !.gaveUp = TRUE]
        /\ \/ Go(s, look, mem, Tail(todo))
           \/ \E want : Go(s, again(want), mem, CloseStages \o Tail(todo))
  <2>1. \/ (venue' = venue \/ venue' = Cancel(venue, x)) /\ SaveIfChanged(r) /\ On(r) /\ mem' = mem
        \/ ResendClose(r, Cancel(venue, x))
        \/ ResendClose(rec, venue)
    BY DEF FollowUp
  <2> HIDE DEF x, r, again
  <2>2. CASE (venue' = venue \/ venue' = Cancel(venue, x)) /\ SaveIfChanged(r) /\ On(r) /\ mem' = mem
    BY <2>2 DEF SaveIfChanged, On
  <2>3. CASE ResendClose(r, Cancel(venue, x)) BY <1>4, <2>3
  <2>4. CASE ResendClose(rec, venue) BY <1>4, <2>4
  <2>5. QED BY <2>1, <2>2, <2>3, <2>4
<1>6. Kept(venue, venue') /\ Grows(venue, venue')
  <2>1. CASE venue' = venue BY <2>1, Untouched
  <2>2. CASE venue' = Cancel(venue, x)
    <3> HIDE DEF x
    <3> QED BY <1>1, <2>2, SettleKept, SettleGrows DEF Cancel
  <2>3. QED BY <1>5, <2>1, <2>2
<1>7. Fine(s) BY <1>1, ReadFine
<1>8. MemFine(mem') BY <1>1, <1>5, MemKept
<1>9. \A want : LookFine(again(want)) /\ again(want).entryOpen = FALSE
  BY DEF LookFine, NoLook
<1> HIDE DEF again, r
<1>10. CASE Go(s, look, mem, Tail(todo))
  BY <1>1, <1>2, <1>3, <1>5, <1>6, <1>7, <1>8, <1>10, StepsOn
<1>11. ASSUME NEW want, Go(s, again(want), mem, CloseStages \o Tail(todo)) PROVE Steps
  <2>1. PICK l : l = again(want) OBVIOUS
  <2>2. LookFine(l) /\ l.entryOpen = FALSE BY <1>9, <2>1
  <2>3. Go(s, l, mem, CloseStages \o Tail(todo)) BY <1>11, <2>1
  <2>4. trade' = s \/ trade' = trade BY <1>5
  <2>5. QED BY <1>2, <1>3, <1>6, <1>7, <1>8, <2>2, <2>3, <2>4, StepsClose
<1>12. QED BY <1>5, <1>10, <1>11

-----------------------------------------------------------------------------
(* reconcile() *)

\* reconcile() reads the exits, the close and the position.
LEMMA LookAgainSteps ==
    ASSUME Inv, ~Idle, LookAgain
    PROVE  Steps
<1> DEFINE r == AbsorbOf(venue, rec, Entry)
           t == EntrySubmitted(r)
           s == IF r.phase = "entry_unknown" THEN AbsorbOf(venue, t, Entry) ELSE r
           l == [look EXCEPT !.heard = FALSE]
<1>1. /\ Fine(rec) /\ LookFine(look) /\ MemFine(mem)
      /\ Unsold(venue) => Blank(rec) /\ look.net = 0
  BY Running, MemFineNow
<1>2. /\ Head(todo) = "look_again" /\ UNCHANGED <<opening, mem, venue>>
      /\ \/ (trade' = s \/ trade' = trade) /\ Go(s, look, mem, Tail(todo))
         \/ trade' = trade /\ Go(rec, l, mem, Tail(todo))
  BY DEF LookAgain, At, SaveIfChanged, On
<1>3. Fine(s) /\ (Unsold(venue) => Blank(s))
  <2>1. Fine(r) /\ (Unsold(venue) => Blank(r)) BY ReadFine, Elements
  <2> HIDE DEF r
  <2>2. Fine(t) /\ (Unsold(venue) => Blank(t)) BY <2>1, EventsFine, EventsBlank
  <2> HIDE DEF t
  <2>3. Fine(AbsorbOf(venue, t, Entry)) BY <2>2, AbsorbFine
  <2>4. Unsold(venue) => Blank(AbsorbOf(venue, t, Entry))
    <3> SUFFICES ASSUME Unsold(venue) PROVE Blank(AbsorbOf(venue, t, Entry)) OBVIOUS
    <3>1. venue.order[Entry].filled = 0 BY Elements DEF Unsold
    <3>2. QED BY <2>2, <3>1, AbsorbBlank, Elements DEF AbsorbOf
  <2>5. QED BY <2>1, <2>3, <2>4
<1>4. LookFine(l) /\ l.entryOpen = look.entryOpen /\ l.net = look.net
  BY <1>1 DEF LookFine, NoLook
<1> HIDE DEF s, l
<1>5. CASE (trade' = s \/ trade' = trade) /\ Go(s, look, mem, Tail(todo))
  BY <1>1, <1>2, <1>3, <1>5, Untouched, StepsOn
<1>6. CASE trade' = trade /\ Go(rec, l, mem, Tail(todo))
  BY <1>1, <1>2, <1>4, <1>6, Untouched, StepsOn
<1>7. QED BY <1>2, <1>5, <1>6

\* The fills that are found: none, while none is sold.
LEMMA FoundFine ==
    ASSUME Inv, ~Idle
    PROVE  /\ Fine(RecoverFills(rec))
           /\ Unsold(venue) => RecoverFills(rec) = rec
<1>1. Fine(rec) /\ Whole(venue) BY Running
<1>2. Unsold(venue) => \A o \in Order : ~(venue.order[o].filled > 0)
  <2> SUFFICES ASSUME Unsold(venue) PROVE \A o \in Order : venue.order[o].filled = 0
    OBVIOUS
  <2>1. Quiet(venue) BY Running
  <2>2. QED BY <1>1, <2>1, QuietStays DEF Unsold, Order
<1>3. QED BY <1>1, <1>2, RecoverFine

\* recoverFills() over every order the record names.
LEMMA RecoverSteps ==
    ASSUME Inv, ~Idle, Recover
    PROVE  Steps
<1>1. /\ Fine(rec) /\ LookFine(look) /\ MemFine(mem)
      /\ Unsold(venue) => Blank(rec) /\ look.net = 0
  BY Running, MemFineNow
<1>2. Head(todo) = "recover" /\ UNCHANGED <<opening, mem, venue>>
  BY DEF Recover, At
<1>3. PICK r \in {rec, RecoverFills(rec)} :
        (trade' = r \/ trade' = trade) /\ Go(r, look, mem, Tail(todo))
  BY DEF Recover, SaveIfChanged, On
<1>4. Fine(r) /\ (Unsold(venue) => Blank(r)) BY <1>1, FoundFine
<1>5. QED BY <1>1, <1>2, <1>3, <1>4, Untouched, StepsOn

\* The venue's position is believed, or the record's.
LEMMA BelieveSteps ==
    ASSUME Inv, ~Idle, Believe
    PROVE  Steps
<1>1. /\ Fine(rec) /\ LookFine(look) /\ MemFine(mem)
      /\ Unsold(venue) => Blank(rec) /\ look.net = 0
  BY Running, MemFineNow
<1>2. Head(todo) = "believe" /\ UNCHANGED <<opening, mem, venue>>
  BY DEF Believe, At
<1>3. PICK r \in {rec, RecoverFills(rec)} :
        \/ (trade' = r \/ trade' = trade) /\ Go(r, look, mem, Tail(todo))
        \/ LET s == Reconciled(r, look.net)
           IN /\ trade' = s
              /\ \E h \in {"protect", "clear"} : Go(s, look, mem, <<h>> \o Tail(todo))
  BY DEF Believe, SaveIfChanged, Save, On, Do
<1>4. Fine(r) /\ (Unsold(venue) => Blank(r)) BY <1>1, FoundFine
<1> DEFINE s == Reconciled(r, look.net)
<1>5. Fine(s) /\ (Unsold(venue) => Blank(s)) BY <1>1, <1>4, EventsFine, EventsBlank
<1>6. CASE (trade' = r \/ trade' = trade) /\ Go(r, look, mem, Tail(todo))
  BY <1>1, <1>2, <1>4, <1>6, Untouched, StepsOn
<1>7. Head(todo) \notin Leads BY <1>2 DEF Leads
<1>8. (trade' = s /\ \E h \in {"protect", "clear"} : Go(s, look, mem, <<h>> \o Tail(todo)))
        \/ ((trade' = r \/ trade' = trade) /\ Go(r, look, mem, Tail(todo)))
  BY <1>3
<1> HIDE DEF s
<1>9. ASSUME trade' = s, NEW h \in {"protect", "clear"}, Go(s, look, mem, <<h>> \o Tail(todo))
      PROVE  Steps
  BY <1>1, <1>2, <1>5, <1>7, <1>9, Untouched, StepsVia
<1>10. QED BY <1>6, <1>8, <1>9

\* An entry that the venue does not know is written off.
LEMMA NeverLandedSteps ==
    ASSUME Inv, ~Idle, NeverLanded
    PROVE  Steps
<1>1. /\ Fine(rec) /\ LookFine(look) /\ MemFine(mem)
      /\ Unsold(venue) => Blank(rec) /\ look.net = 0
  BY Running, MemFineNow
<1>2. /\ Head(todo) = "never_landed" /\ UNCHANGED <<opening, mem, venue>>
      /\ trade' = Aborted(rec) /\ Go(Aborted(rec), look, mem, Tail(todo))
  BY DEF NeverLanded, At, Save, On
<1>3. Fine(Aborted(rec)) /\ (Unsold(venue) => Blank(Aborted(rec)))
  BY <1>1, EventsFine, EventsBlank
<1>4. QED BY <1>1, <1>2, <1>3, Untouched, StepsOn

\* A step of a job that runs keeps what is known of the one entry sold.
LEMMA WorksKeep ==
    ASSUME OneSale, Inv, Works
    PROVE  CopiesFine' /\ JobInv' /\ UnsoldInv' /\ SaleInv'
<1>1. ~Idle BY WorksRuns
<1>2. Steps
  BY <1>1, LookEntrySteps, LooksStep, CancelOverdueSteps, EntryGoneSteps, PlaceFallbackSteps,
     FallbackSentSteps, ReadBookSteps, SettleLegSteps, RecordProtectionSteps,
     ClearProtectionSteps, CancelSiblingsSteps, SubmitCloseSteps, SendCloseSteps,
     JudgeExitsSteps, FollowUpSteps, LookAgainSteps, RecoverSteps, BelieveSteps,
     NeverLandedSteps
     DEF Works
<1>3. PICK r, l, stages : Carries(r, l, stages) BY <1>2 DEF Steps
<1>4. Fine(trade) /\ (Unsold(venue) => Blank(trade)) BY <1>1, Running
<1>5. QED BY <1>2, <1>3, <1>4, JobKept DEF Steps

-----------------------------------------------------------------------------
(* A job that begins, and what is done beside one *)

\* A job begins with the record in the journal.
LEMMA BeginKeeps ==
    ASSUME Inv, trade # None, Grows(venue, venue'), Kept(venue, venue'), MemFine(mem'),
           Unsold(venue) => Quiet(venue'),
           NEW l, LookFine(l), l.entryOpen = FALSE, l.fallback = FALSE, l.net = 0,
           NEW s \in {PollStages, CloseStages, ReconcileStages, <<"entry_gone">>, <<>>},
           NEW m, Go(trade, l, m, s), trade' = trade, Underway' => UNCHANGED opening
    PROVE  CopiesFine' /\ JobInv' /\ UnsoldInv' /\ SaleInv'
<1>1. Fine(trade) /\ (Unsold(venue) => Blank(trade)) /\ Sales(venue)
  BY DEF Inv, CopiesFine, UnsoldInv, SaleInv
<1>2. Sales(venue') /\ (Unsold(venue') <=> Unsold(venue)) BY <1>1, KeptSales
<1>3. s \in Seq(Stage) /\ Ordered(s)
  <2>1. Ordered(s) BY StagesOrdered DEF Stage
  <2>2. QED BY <2>1 DEF Ordered
<1>4. Len(s) >= 1 =>
        s[1] \notin {"settle_target", "settle_stop", "record", "send", "fallback"}
  <2>1. s = <<>> \/ s[1] \in {"entry", "sync", "look_again", "entry_gone"}
    BY DEF PollStages, CloseStages, ReconcileStages
  <2>2. s = <<>> => Len(s) = 0 OBVIOUS
  <2>3. QED BY <2>1, <2>2
<1> HIDE DEF Go
<1>5. Carries(trade, l, s) BY <1>1, <1>2, <1>3, <1>4 DEF Carries
<1>6. QED BY <1>1, <1>2, <1>5, JobKept

\* What is over stays over, and nothing more is put on.
Steady(v, w) ==
    /\ WrittenOff(v) => WrittenOff(w)
    /\ Known(v, Entry) => Known(w, Entry)
    /\ Known(v, Entry) /\ ~Resting(v, Entry) => ~Resting(w, Entry)
    /\ Known(v, Entry) /\ ~Known(v, FallbackEntry) => ~Known(w, FallbackEntry)

\* Leaving the entries alone is steady.
LEMMA KeptIsSteady ==
    ASSUME NEW v, Sales(v), NEW w, Kept(v, w)
    PROVE  Steady(v, w)
<1>1. /\ (WrittenOff(v) => WrittenOff(w))
      /\ \A o \in Entries : Known(w, o) <=> Known(v, o)
      /\ \A o \in Entries : Resting(w, o) => Resting(v, o)
  BY KeptSales
<1>2. QED BY <1>1, Elements DEF Steady

\* What happens while the job does not move.
LEMMA OtherKeeps ==
    ASSUME Inv, UNCHANGED <<todo, rec, look>>,
           Grows(venue, venue'), Sales(venue'), Steady(venue, venue'), MemFine(mem'),
           trade' = trade \/ Fine(trade'), Underway' => Fine(opening'.rec),
           Unsold(venue') => /\ Quiet(venue') /\ (trade' = trade \/ Blank(trade'))
                             /\ Underway' => Blank(opening'.rec)
    PROVE  CopiesFine' /\ JobInv' /\ UnsoldInv' /\ SaleInv'
<1>1. Unsold(venue') => Unsold(venue) BY UnsoldBefore DEF Inv, BooksInv
<1>2. CopiesFine'
  BY DEF Inv, CopiesFine, Idle
<1>3. JobInv' BY DEF Inv, JobInv, Idle
<1>4. UnsoldInv'
  <2> SUFFICES ASSUME Unsold(venue')
               PROVE  /\ Quiet(venue')
                      /\ trade' # None => Blank(trade')
                      /\ ~Idle' => Blank(rec') /\ Blank(trade') /\ look'.net = 0
                      /\ Underway' => Blank(opening'.rec)
    BY DEF UnsoldInv
  <2>1. /\ trade # None => Blank(trade)
        /\ ~Idle => Blank(rec) /\ Blank(trade) /\ look.net = 0
    BY <1>1 DEF Inv, UnsoldInv
  <2>2. QED BY <2>1 DEF Idle
<1>5. SaleInv'
  <2>1. At("fallback")' => Timed /\ WrittenOff(venue')
    BY DEF Inv, SaleInv, At, Steady
  <2>2. At("entry_gone")' /\ look'.fallback =>
          /\ Timed /\ Known(venue', Entry) /\ ~Resting(venue', Entry)
          /\ ~Known(venue', FallbackEntry) /\ Blank(rec')
    BY DEF Inv, SaleInv, At, Steady
  <2>3. Timed /\ look'.entryOpen /\ (\E i \in 1 .. Len(todo') : todo'[i] = "overdue") =>
          /\ At("overdue")'
          /\ Known(venue', Entry) /\ ~Known(venue', FallbackEntry) /\ Blank(rec')
    BY DEF Inv, SaleInv, At, Steady
  <2>4. QED BY <2>1, <2>2, <2>3 DEF SaleInv
<1>6. QED BY <1>2, <1>3, <1>4, <1>5

\* Nothing but other orders has moved, and nothing is saved.
LEMMA VenueKeeps ==
    ASSUME Inv, UNCHANGED <<trade, todo, rec, look, opening>>,
           Grows(venue, venue'), Kept(venue, venue'), MemFine(mem'),
           Unsold(venue) => Quiet(venue')
    PROVE  CopiesFine' /\ JobInv' /\ UnsoldInv' /\ SaleInv'
<1>1. Sales(venue) BY DEF Inv, SaleInv
<1>2. Sales(venue') /\ (Unsold(venue') <=> Unsold(venue)) BY <1>1, KeptSales
<1>3. Steady(venue, venue') BY <1>1, KeptIsSteady
<1>4. Underway' => Fine(opening'.rec) BY DEF Inv, CopiesFine, Underway
<1>5. Unsold(venue) /\ Underway' => Blank(opening'.rec) BY DEF Inv, UnsoldInv, Underway
<1>6. QED BY <1>2, <1>3, <1>4, <1>5, OtherKeeps

\* The venue's own steps on an exit.
LEMMA Venues ==
    ASSUME Inv
    PROVE  /\ Sound(venue) /\ Whole(venue) /\ Sales(venue) /\ EntriesFine(venue)
           /\ Unsold(venue) => Quiet(venue)
           /\ MemFine(mem)
           /\ Grows(venue, venue) /\ Kept(venue, venue)
<1>1. Sound(venue) BY DEF Inv, BooksInv
<1>2. Sales(venue) /\ EntriesFine(venue) /\ MemFine(mem) BY DEF Inv, SaleInv, Sales
<1>3. Whole(venue) BY <1>1, <1>2 DEF EntriesFine, Whole, Kept
<1>4. QED BY <1>1, <1>2, <1>3, GrowsOn DEF Inv, UnsoldInv, Whole

\* An exit is taken off: there is one, so something was sold.
LEMMA ExitOff ==
    ASSUME Inv, NEW o \in Exits, Resting(venue, o)
    PROVE  /\ ~Unsold(venue)
           /\ Grows(venue, Cancel(venue, o)) /\ Kept(venue, Cancel(venue, o))
<1>1. Sound(venue) /\ Whole(venue) /\ (Unsold(venue) => Quiet(venue)) BY Venues
<1>2. ~Quiet(venue) BY DEF Quiet, Known, Resting
<1>3. QED BY <1>1, <1>2, SettleKept, SettleGrows DEF Cancel

\* What the entry fills while it rests.
LEMMA EntryFillsSales ==
    ASSUME OneSale, Inv, EntryFills
    PROVE  Sales(venue') /\ ~Unsold(venue') /\ Steady(venue, venue')
<1>1. /\ Sound(venue) /\ Whole(venue) /\ Sales(venue) /\ EntriesFine(venue)
  BY Venues
<1>2. PICK n \in 1 .. Fillable(venue, Entry) :
        (PartialEntry \/ n = Requested) /\ venue' = Fills(venue, Entry, n)
  BY DEF EntryFills
<1>3. Resting(venue, Entry) /\ Fillable(venue, Entry) = Left(venue, Entry)
  BY <1>2, Elements DEF Fillable
<1>4. Known(venue, Entry) BY <1>3 DEF Known, Resting
<1>5. ~Known(venue, FallbackEntry) BY <1>1, <1>3 DEF Sales, WrittenOff
<1> DEFINE was == venue.order[Entry]
           now == [was EXCEPT !.filled = @ + n,
                              !.status = IF was.filled + n >= was.size THEN "over" ELSE "open"]
           w == [With(venue, Entry, now) EXCEPT !.net = @ - n]
<1>6. venue' = w
  <2>1. venue' = [With(venue, Entry, now) EXCEPT !.net = IF Entry \in Entries THEN @ - n ELSE @ + n]
    BY <1>2, Zenon DEF Fills
  <2>2. QED BY <2>1, Elements
<1>7. /\ was.size = Requested /\ "size" \in DOMAIN was /\ {"status", "filled"} \subseteq DOMAIN was
      /\ was.filled \in Nat
  BY <1>1, <1>4, Elements DEF EntriesFine, Sound
<1>8. n \in Nat /\ n >= 1 /\ was.filled + n <= Requested
  BY <1>2, <1>3, <1>7, PlanAssumption DEF Left
<1>9. /\ now.size = Requested /\ "size" \in DOMAIN now
      /\ now.filled = was.filled + n
      /\ now.status = IF was.filled + n >= Requested THEN "over" ELSE "open"
  BY <1>7
<1>10. /\ "net" \in DOMAIN w
       /\ \A o \in Order : w.order[o] = IF o = Entry THEN now ELSE venue.order[o]
  <2> HIDE DEF now
  <2>1. "order" \in DOMAIN venue /\ "net" \in DOMAIN venue BY <1>1 DEF Whole, Kept, Sound
  <2>2. QED BY <2>1 DEF With
<1> HIDE DEF w, now
<1>11. w.order[Entry] = now /\ w.order[FallbackEntry] = venue.order[FallbackEntry]
  BY <1>10, Elements
<1>12. Timed => now.filled = Requested /\ now.status = "over"
  <2> SUFFICES ASSUME Timed PROVE now.filled = Requested /\ now.status = "over"
    OBVIOUS
  <2>1. n = Requested BY <1>2 DEF OneSale, Timed
  <2>2. was.filled = 0 BY <1>1, <1>3 DEF EntriesFine
  <2>3. now.filled = Requested BY <1>9, <2>1, <2>2, PlanAssumption
  <2>4. QED BY <1>9, <2>3, PlanAssumption
<1>13. EntriesFine(w)
  <2>1. /\ "size" \in DOMAIN w.order[Entry]
        /\ w.order[Entry].size = Requested /\ w.order[Entry].filled <= Requested
    BY <1>8, <1>9, <1>11
  <2>2. /\ "size" \in DOMAIN w.order[FallbackEntry]
        /\ Known(w, FallbackEntry) => w.order[FallbackEntry].size = Requested
        /\ w.order[FallbackEntry].filled <= Requested
    BY <1>1, <1>11, Elements DEF EntriesFine, Known
  <2>3. Timed => w.order[Entry].filled = Requested /\ ~Resting(w, Entry)
    BY <1>11, <1>12 DEF Resting
  <2>4. QED BY <1>10, <2>1, <2>2, <2>3 DEF EntriesFine, Entries
<1>14. ~Known(w, FallbackEntry) BY <1>5, <1>11 DEF Known
<1>15. ~Unsold(w)
  <2>1. w.order[Entry].filled > 0 BY <1>7, <1>8, <1>9, <1>11
  <2>2. QED BY <2>1, Elements DEF Unsold
<1>16. Known(w, Entry) BY <1>9, <1>11 DEF Known
<1>17. Sales(w) BY <1>13, <1>14 DEF Sales
<1>18. Steady(venue, w) BY <1>3, <1>14, <1>16 DEF Steady, WrittenOff
<1>19. QED BY <1>6, <1>15, <1>17, <1>18

\* What the venue does by itself keeps Inv.
LEMMA MarketKeeps ==
    ASSUME OneSale, Inv, Market \/ SweepOrphans \/ DeadlinePasses \/ HoldEnds
    PROVE  CopiesFine' /\ JobInv' /\ UnsoldInv' /\ SaleInv'
<1>1. /\ Sound(venue) /\ Whole(venue) /\ Sales(venue) /\ MemFine(mem)
      /\ Unsold(venue) => Quiet(venue)
      /\ Grows(venue, venue) /\ Kept(venue, venue)
  BY Venues
<1>2. UNCHANGED <<trade, todo, rec, look, opening>> /\ Grows(venue, venue')
  BY <1>1, MarketGrows
<1>3. CASE SweepOrphans \/ VenueTrims \/ VenueDrops
  <2>1. mem' = mem
    BY <1>3 DEF SweepOrphans, VenueTrims, VenueDrops
  <2>2. PICK o \in Exits : Resting(venue, o) /\ (venue' = Cancel(venue, o) \/ venue' = venue)
    BY <1>3 DEF SweepOrphans, VenueTrims, VenueDrops, Excess, Exits
  <2>3. ~Unsold(venue) /\ Kept(venue, venue')
    BY <1>1, <2>2, ExitOff
  <2>4. QED BY <1>1, <1>2, <2>1, <2>3, VenueKeeps
<1>4. CASE ClosedByHand
  <2>1. /\ Short(venue) > 0 /\ mem' = mem
        /\ venue' = [venue EXCEPT !.net = @ + 1]
    BY <1>4 DEF ClosedByHand
  <2>2. ~Unsold(venue) BY <1>1, <2>1 DEF Quiet, Short
  <2>3. Kept(venue, venue')
    <3>1. /\ "net" \in DOMAIN venue' /\ venue'.order = venue.order
      BY <1>1, <2>1 DEF Whole, Kept
    <3>2. Sound(venue') BY <1>2 DEF Grows
    <3>3. QED BY <1>1, <3>1, <3>2 DEF Kept, Known, Resting
  <2>4. QED BY <1>1, <1>2, <2>1, <2>2, <2>3, VenueKeeps
<1>5. CASE ExitFills
  <2>1. mem' = mem BY <1>5 DEF ExitFills
  <2>2. PICK o \in Exits : \E n \in 1 .. Fillable(venue, o) : venue' = Fills(venue, o, n)
    BY <1>5 DEF ExitFills
  <2>3. PICK n \in 1 .. Fillable(venue, o) : venue' = Fills(venue, o, n) BY <2>2
  <2>4. Resting(venue, o) BY <2>3 DEF Fillable
  <2>5. ~Unsold(venue) BY <2>4, ExitOff
  <2>6. n \in Nat BY <2>3
  <2>7. o \notin Entries
    BY DEF Exits, Entries, Entry, FallbackEntry, Targets, Stops, Closes
  <2>8. Kept(venue, venue') BY <1>1, <2>3, <2>6, <2>7, ExitsKeep
  <2>9. QED BY <1>1, <1>2, <2>1, <2>5, <2>8, VenueKeeps
<1>6. CASE EntryFills
  <2>1. mem' = mem BY <1>6 DEF EntryFills
  <2>2. Sales(venue') /\ ~Unsold(venue') /\ Steady(venue, venue') BY <1>6, EntryFillsSales
  <2>3. Underway' => Fine(opening'.rec) BY <1>2 DEF Inv, CopiesFine, Underway
  <2>4. QED BY <1>1, <1>2, <2>1, <2>2, <2>3, OtherKeeps
<1>7. CASE DeadlinePasses \/ HoldEnds
  <2>1. venue' = venue /\ MemFine(mem')
    BY <1>1, <1>7, MemKept DEF DeadlinePasses, HoldEnds
  <2>2. QED BY <1>1, <1>2, <2>1, VenueKeeps
<1>8. QED BY <1>3, <1>4, <1>5, <1>6, <1>7 DEF Market

\* Every kind of job that begins keeps Inv.
LEMMA BeginsKeep ==
    ASSUME Inv, Poll \/ Asks \/ SweepLeftovers
    PROVE  CopiesFine' /\ JobInv' /\ UnsoldInv' /\ SaleInv'
<1>1. /\ Sound(venue) /\ Whole(venue) /\ Sales(venue) /\ MemFine(mem)
      /\ Unsold(venue) => Quiet(venue)
      /\ Grows(venue, venue) /\ Kept(venue, venue)
  BY Venues
<1>2. Idle /\ trade # None
  BY DEF Poll, Asks, AskClose, AskReconcile, AskCancel, SweepLeftovers, Free
<1>3. Fine(trade) /\ (Unsold(venue) => Blank(trade))
  BY <1>2 DEF Inv, CopiesFine, UnsoldInv
<1>4. LookFine(NoLook) /\ NoLook.entryOpen = FALSE /\ NoLook.fallback = FALSE /\ NoLook.net = 0
  BY DEF LookFine, NoLook
<1>5. CASE Poll \/ AskReconcile
  <2>1. /\ UNCHANGED <<trade, opening, mem, venue>>
        /\ Go(trade, NoLook, mem, ReconcileStages) \/ Go(trade, NoLook, mem, PollStages)
    BY <1>5 DEF Poll, AskReconcile
  <2>2. QED BY <1>1, <1>2, <1>4, <2>1, BeginKeeps
<1>6. CASE AskClose
  <2>1. PICK want : Go(trade, [NoLook EXCEPT !.want = want], mem, CloseStages)
    BY <1>6 DEF AskClose
  <2>2. UNCHANGED <<trade, opening, mem, venue>> BY <1>6 DEF AskClose
  <2> DEFINE l == [NoLook EXCEPT !.want = want]
  <2>3. LookFine(l) /\ l.entryOpen = FALSE /\ l.fallback = FALSE /\ l.net = 0
    BY DEF LookFine, NoLook
  <2>4. Go(trade, l, mem, CloseStages) BY <2>1
  <2> HIDE DEF l
  <2>5. QED BY <1>1, <1>2, <2>2, <2>3, <2>4, BeginKeeps
<1>7. CASE AskCancel
  <2>1. MemFine(mem') BY <1>1, <1>7, MemKept DEF AskCancel
  <2>2. UNCHANGED opening BY <1>7 DEF AskCancel
  <2>3. CASE /\ venue' = Cancel(venue, Entry) \/ UNCHANGED venue
             /\ Go(trade, NoLook, mem, <<"entry_gone">>) /\ UNCHANGED trade
    <3>1. /\ Grows(venue, Cancel(venue, Entry)) /\ Kept(venue, Cancel(venue, Entry))
          /\ Unsold(venue) => Quiet(Cancel(venue, Entry))
      BY <1>1, SettleGrows, SettleKept, QuietStays, Elements DEF Cancel
    <3>2. Grows(venue, venue') /\ Kept(venue, venue') /\ (Unsold(venue) => Quiet(venue'))
      BY <1>1, <2>3, <3>1
    <3>3. QED BY <1>2, <1>4, <2>1, <2>2, <2>3, <3>2, BeginKeeps
  <2>4. CASE Save(EntryCancelled(trade)) /\ UNCHANGED <<todo, rec, look, venue>>
    <3>1. trade' = EntryCancelled(trade) BY <2>4 DEF Save
    <3>2. Fine(trade') /\ (Unsold(venue) => Blank(trade'))
      BY <1>3, <3>1, EventsFine, EventsBlank
    <3>3. Steady(venue, venue') BY <1>1, <2>4, KeptIsSteady
    <3>4. /\ Underway' => Fine(opening'.rec)
          /\ Unsold(venue) /\ Underway' => Blank(opening'.rec)
      BY <2>2 DEF Inv, CopiesFine, UnsoldInv, Underway
    <3>5. QED BY <1>1, <2>1, <2>4, <3>2, <3>3, <3>4, OtherKeeps
  <2>5. QED BY <1>7, <2>3, <2>4 DEF AskCancel
<1>8. CASE SweepLeftovers
  <2>1. PICK t \in TakeOffs(trade, BothLegs(trade)) :
          /\ venue' = t.end.venue /\ trade' = t.end.rec
          /\ mem' = NoteLeftover(t.end.sure)
    BY <1>8 DEF SweepLeftovers, Save
  <2>2. UNCHANGED <<todo, rec, look, opening>> BY <1>8 DEF SweepLeftovers
  <2>3. Backed(venue, trade) BY <1>2 DEF Inv, BooksInv
  <2>4. /\ Kept(venue, venue') /\ Fine(trade') /\ Grows(venue, venue')
        /\ BothLegs(trade) = {} => venue' = venue /\ trade' = trade
    BY <1>1, <1>3, <2>1, <2>3, TakenOffKept, TakenOffBooks
  <2>5. Unsold(venue) => venue' = venue /\ trade' = trade BY <1>3, <2>4, NoLegs
  <2>6. MemFine(mem') BY <1>1, <2>1, MemKept DEF NoteLeftover
  <2>7. Sales(venue') /\ (Unsold(venue') <=> Unsold(venue)) /\ Steady(venue, venue')
    BY <1>1, <2>4, KeptSales, KeptIsSteady
  <2>8. /\ Underway' => Fine(opening'.rec)
        /\ Unsold(venue) /\ Underway' => Blank(opening'.rec)
    BY <2>2 DEF Inv, CopiesFine, UnsoldInv, Underway
  <2>9. QED BY <1>1, <2>2, <2>4, <2>5, <2>6, <2>7, <2>8, OtherKeeps
<1>9. QED BY <1>5, <1>6, <1>7, <1>8 DEF Asks

\* A restart keeps Inv: the journal has the record, and memory is new.
LEMMA RestartKeeps ==
    ASSUME Inv, Restart
    PROVE  CopiesFine' /\ JobInv' /\ UnsoldInv' /\ SaleInv'
<1>1. /\ Sound(venue) /\ Sales(venue) /\ (Unsold(venue) => Quiet(venue))
      /\ Grows(venue, venue) /\ Kept(venue, venue)
  BY Venues
<1>2. UNCHANGED <<trade, venue>> /\ ~Underway' BY RestartBooks
<1>3. MemFine(mem') BY DEF Restart, MemFine, NoMem
<1>4. CASE Working /\ Go(trade, NoLook, NoMem, ReconcileStages)
  <2>1. LookFine(NoLook) /\ NoLook.entryOpen = FALSE /\ NoLook.fallback = FALSE /\ NoLook.net = 0
    BY DEF LookFine, NoLook
  <2>2. trade # None BY <1>4 DEF Working
  <2>3. QED BY <1>1, <1>2, <1>3, <1>4, <2>1, <2>2, BeginKeeps
<1>5. CASE todo' = <<>>
  <2>1. CopiesFine' BY <1>2, <1>5 DEF Inv, CopiesFine, Idle
  <2>2. JobInv' BY <1>5, StagesOrdered DEF JobInv, Idle
  <2>3. UnsoldInv' BY <1>1, <1>2, <1>5 DEF Inv, UnsoldInv, Idle
  <2>4. SaleInv'
    <3>1. Len(todo') = 0 BY <1>5
    <3>2. QED BY <1>1, <1>2, <1>3, <1>5, <3>1 DEF SaleInv, At
  <2>5. QED BY <2>1, <2>2, <2>3, <2>4
<1>6. QED BY <1>4, <1>5 DEF Restart

-----------------------------------------------------------------------------
(* open() *)

\* An answer that says nothing was filled.
LEMMA AbsorbNothing ==
    ASSUME NEW s, Fine(s), Blank(s), NEW n \in Int, n <= 0, NEW rejected
    PROVE  Blank(Absorb(s, Entry, n, rejected))
<1>1. ~(n - s.booked[Entry] > 0) BY Elements DEF Blank
<1>2. Absorb(s, Entry, n, rejected) = IF rejected THEN Aborted(s) ELSE s
  BY <1>1 DEF Absorb
<1>3. QED BY <1>2, EventsBlank

\* The entry put on by open().
LEMMA EntrySells ==
    ASSUME OneSale, Inv, NEW w,
           w = venue \/ (MarketEntry /\ Placed(venue, w, Entry))
             \/ (/\ Placed(venue, w, Entry)
                 /\ PartialEntry \/ w.order[Entry].filled \in {0, Requested}),
           ~Known(venue, Entry) \/ w = venue, Sound(w)
    PROVE  /\ Sales(w) /\ Steady(venue, w)
           /\ Unsold(w) /\ Quiet(venue) => Quiet(w)
<1>1. /\ Sound(venue) /\ Whole(venue) /\ Sales(venue) /\ EntriesFine(venue) /\ Kept(venue, venue)
  BY Venues
<1>2. CASE w = venue BY <1>1, <1>2, KeptIsSteady
<1>3. CASE w # venue
  <2>1. Placed(venue, w, Entry) /\ ~Known(venue, Entry) BY <1>3
  <2>2. ~Known(venue, FallbackEntry) BY <1>1, <2>1 DEF Sales, WrittenOff
  <2>3. w.order[FallbackEntry] = venue.order[FallbackEntry] BY <2>1, Elements DEF Placed
  <2>4. ~Known(w, FallbackEntry) BY <2>2, <2>3 DEF Known
  <2>5. Timed => w.order[Entry].filled \in {0, Requested}
    BY <1>3 DEF OneSale, Timed
  <2>6. /\ "net" \in DOMAIN w /\ "size" \in DOMAIN w.order[Entry]
        /\ w.order[Entry].size = Requested /\ w.order[Entry].filled <= Requested
        /\ w.order[Entry].filled = Requested => ~Resting(w, Entry)
    BY <2>1, PlanAssumption DEF Placed
  <2>7. /\ "size" \in DOMAIN w.order[FallbackEntry]
        /\ w.order[FallbackEntry].filled <= Requested
    BY <1>1, <2>3, Elements DEF EntriesFine
  <2>8. EntriesFine(w) BY <2>4, <2>5, <2>6, <2>7 DEF EntriesFine, Entries
  <2>9. Sales(w) BY <2>4, <2>8 DEF Sales
  <2>10. Steady(venue, w) BY <2>1 DEF Steady, WrittenOff
  <2>11. QED BY <2>1, <2>9, <2>10, PlacedQuiet, Elements
<1>4. QED BY <1>2, <1>3

\* The entry's answer, taken in by open().
LEMMA EntryAnswered ==
    ASSUME OneSale, Inv, NEW w,
           \/ w \in EntryOutcomes \cup {venue}
           \/ MarketEntry /\ w = Unfilled(venue, Entry, Requested)
    PROVE  /\ Sales(w) /\ Steady(venue, w) /\ Grows(venue, w)
           /\ Unsold(w) /\ Quiet(venue) => Quiet(w)
<1>1. Sound(venue) /\ Whole(venue) /\ Grows(venue, venue) BY Venues
<1>2. Grows(venue, w) BY <1>1, OutcomesGrow DEF EntryOutcomes
<1>3. w = venue \/ ~Known(venue, Entry)
  BY DEF EntryOutcomes, MarketOutcomes, LimitOutcomes, Unfilled
<1>4. \/ w = venue \/ (MarketEntry /\ Placed(venue, w, Entry))
      \/ (/\ Placed(venue, w, Entry)
          /\ PartialEntry \/ w.order[Entry].filled \in {0, Requested})
  <2>1. CASE w = venue BY <2>1
  <2>2. CASE w # venue
    <3>1. ~Known(venue, Entry) BY <1>3, <2>2
    <3>2. CASE MarketEntry
      <4>1. w \in MarketOutcomes(venue, Entry, Requested) \/ w = Unfilled(venue, Entry, Requested)
        BY <2>2, <3>2 DEF EntryOutcomes
      <4>2. QED BY <1>1, <3>1, <3>2, <4>1, Placements, Elements
    <3>3. CASE ~MarketEntry
      <4>1. /\ w \in LimitOutcomes(venue, Entry, Requested)
            /\ PartialEntry \/ w.order[Entry].filled \in {0, Requested}
        BY <2>2, <3>3 DEF EntryOutcomes
      <4>2. QED BY <1>1, <3>1, <4>1, Placements, Elements
    <3>4. QED BY <3>2, <3>3
  <2>3. QED BY <2>1, <2>2
<1>5. Sound(w) BY <1>2 DEF Grows
<1>6. QED BY <1>2, <1>3, <1>4, <1>5, EntrySells

\* The steps of open() keep Inv.
LEMMA OpenKeeps ==
    ASSUME OneSale, Inv, OpenStart \/ OpenRefused \/ OpenPlace \/ OpenSubmitted \/ OpenAbsorb
    PROVE  CopiesFine' /\ JobInv' /\ UnsoldInv' /\ SaleInv'
<1>1. /\ Sound(venue) /\ Whole(venue) /\ Sales(venue) /\ MemFine(mem)
      /\ Unsold(venue) => Quiet(venue)
      /\ Grows(venue, venue) /\ Kept(venue, venue) /\ Steady(venue, venue)
  BY Venues, KeptIsSteady
<1>2. UNCHANGED <<todo, rec, look>>
  BY DEF OpenStart, OpenRefused, OpenPlace, OpenEnds, OpenSubmitted, OpenAbsorb
<1> DEFINE s == opening.rec
           done == [NoOpen EXCEPT !.at = "done"]
<1>3. done.at = "done" BY DEF NoOpen
<1>4. {"at", "rec", "filled", "rejected"} \subseteq DOMAIN opening BY DEF Inv, BooksInv
<1>5. ASSUME NEW r, Fine(r), Unsold(venue) => Blank(r),
             trade' = r \/ trade' = trade, Underway' => opening'.rec = r,
             Sales(venue'), Steady(venue, venue'), Grows(venue, venue'), MemFine(mem'),
             Unsold(venue') /\ Quiet(venue) => Quiet(venue')
      PROVE  CopiesFine' /\ JobInv' /\ UnsoldInv' /\ SaleInv'
  <2>1. Unsold(venue') => Unsold(venue) BY <1>1, <1>5, UnsoldBefore
  <2>2. QED BY <1>1, <1>2, <1>5, <2>1, OtherKeeps
<1>6. CASE OpenStart
  <2>1. /\ trade' = InitialTrade /\ UNCHANGED <<mem, venue>>
        /\ opening' = [NoOpen EXCEPT !.at = "gates", !.rec = InitialTrade]
    BY <1>6 DEF OpenStart, Save
  <2>2. opening'.rec = InitialTrade BY <2>1 DEF NoOpen
  <2>3. Fine(InitialTrade) /\ Blank(InitialTrade)
    BY DEF Fine, Blank, InitialTrade
  <2>4. QED BY <1>1, <1>5, <2>1, <2>2, <2>3
<1>7. ASSUME Underway PROVE Fine(s) /\ (Unsold(venue) => Blank(s))
  BY <1>7 DEF Inv, CopiesFine, UnsoldInv
<1>8. CASE OpenRefused
  <2>1. /\ Underway /\ trade' = Aborted(s) /\ opening' = done /\ UNCHANGED <<mem, venue>>
    BY <1>8 DEF OpenRefused, OpenEnds, Save, Underway
  <2>2. Fine(Aborted(s)) /\ (Unsold(venue) => Blank(Aborted(s)))
    BY <1>7, <2>1, EventsFine, EventsBlank
  <2>3. ~Underway' BY <1>3, <2>1 DEF Underway
  <2>4. QED BY <1>1, <1>5, <2>1, <2>2, <2>3
<1>9. CASE OpenPlace
  <2>1. Underway /\ UNCHANGED mem BY <1>9 DEF OpenPlace, Underway
  <2>2. \/ venue' \in EntryOutcomes \cup {venue}
        \/ MarketEntry /\ venue' = Unfilled(venue, Entry, Requested)
    BY <1>9 DEF OpenPlace
  <2>3. /\ Sales(venue') /\ Steady(venue, venue') /\ Grows(venue, venue')
        /\ Unsold(venue') /\ Quiet(venue) => Quiet(venue')
    BY <2>2, EntryAnswered
  <2>4. \/ /\ trade' = trade
           /\ opening' = [opening EXCEPT
                            !.at = "acked",
                            !.filled = venue'.order[Entry].filled,
                            !.rejected = venue'.order[Entry].status = "rejected"]
        \/ trade' = Aborted(s) /\ opening' = done
        \/ trade' = EntrySubmitUnknown(s) /\ opening' = done
    BY <1>9 DEF OpenPlace, OpenEnds, Save
  <2>5. \E r \in {s, Aborted(s), EntrySubmitUnknown(s)} :
          (trade' = r \/ trade' = trade) /\ (Underway' => opening'.rec = r)
    <3>1. CASE trade' = trade /\ opening' = [opening EXCEPT
                            !.at = "acked",
                            !.filled = venue'.order[Entry].filled,
                            !.rejected = venue'.order[Entry].status = "rejected"]
      <4>1. opening'.rec = s BY <1>4, <3>1
      <4>2. QED BY <3>1, <4>1
    <3>2. CASE trade' = Aborted(s) /\ opening' = done BY <1>3, <3>2 DEF Underway
    <3>3. CASE trade' = EntrySubmitUnknown(s) /\ opening' = done BY <1>3, <3>3 DEF Underway
    <3>4. QED BY <2>4, <3>1, <3>2, <3>3
  <2>6. \A r \in {s, Aborted(s), EntrySubmitUnknown(s)} : Fine(r) /\ (Unsold(venue) => Blank(r))
    BY <1>7, <2>1, EventsFine, EventsBlank
  <2>7. QED BY <1>1, <1>5, <2>1, <2>3, <2>5, <2>6
<1>10. CASE OpenSubmitted
  <2>1. /\ Underway /\ UNCHANGED venue /\ trade' = EntrySubmitted(s)
        /\ opening' = [opening EXCEPT !.at = "submitted", !.rec = EntrySubmitted(s)]
        /\ mem' = [mem EXCEPT !.deadline = IF Timeout THEN "armed" ELSE @]
    BY <1>10 DEF OpenSubmitted, Save, Underway
  <2>2. opening'.rec = EntrySubmitted(s) BY <1>4, <2>1
  <2>3. MemFine(mem') BY <1>1, <2>1 DEF MemFine
  <2>4. Fine(EntrySubmitted(s)) /\ (Unsold(venue) => Blank(EntrySubmitted(s)))
    BY <1>7, <2>1, EventsFine, EventsBlank
  <2>5. QED BY <1>1, <1>5, <2>1, <2>2, <2>3, <2>4
<1>11. CASE OpenAbsorb
  <2> DEFINE r == Absorb(s, Entry, opening.filled, opening.rejected)
  <2>1. /\ Underway /\ UNCHANGED <<mem, venue>> /\ opening' = done
        /\ trade' = r \/ trade' = trade
    BY <1>11 DEF OpenAbsorb, OpenEnds, Save, Underway
  <2>2. opening.filled \in Int /\ opening.filled <= venue.order[Entry].filled
    BY <1>11 DEF OpenAbsorb, Inv, BooksInv
  <2>3. Fine(r) BY <1>7, <2>1, AbsorbFine
  <2>4. Unsold(venue) => Blank(r)
    <3> SUFFICES ASSUME Unsold(venue) PROVE Blank(r) OBVIOUS
    <3>1. venue.order[Entry].filled = 0 BY Elements DEF Unsold
    <3>2. opening.filled <= 0 BY <2>2, <3>1
    <3>3. QED BY <1>7, <2>1, <2>2, <3>2, AbsorbNothing
  <2>5. ~Underway' BY <1>3, <2>1 DEF Underway
  <2> HIDE DEF r
  <2>6. QED BY <1>1, <1>5, <2>1, <2>3, <2>4, <2>5
<1>12. QED BY <1>6, <1>8, <1>9, <1>10, <1>11

-----------------------------------------------------------------------------
(* The plan is sold once *)

\* Inv holds at the start, ...
LEMMA SaleInit == Init => Inv
<1> SUFFICES ASSUME Init PROVE Inv
  OBVIOUS
<1>1. Idle /\ todo = <<>> /\ trade = None /\ ~Underway /\ venue = EmptyVenue /\ mem = NoMem
  BY DEF Init, Idle, Underway, NoOpen
<1>2. BooksInv BY BooksInit
<1>3. CopiesFine BY <1>1 DEF CopiesFine
<1>4. JobInv BY <1>1, StagesOrdered DEF JobInv
<1>5. UnsoldInv
  <2>1. \A o \in Exits : ~Known(EmptyVenue, o) BY DEF EmptyVenue, Known, Order
  <2>2. EmptyVenue.net = 0 BY DEF EmptyVenue
  <2>3. QED BY <1>1, <2>1, <2>2 DEF UnsoldInv, Quiet
<1>6. SaleInv
  <2>1. /\ "net" \in DOMAIN EmptyVenue
        /\ \A o \in Entries : EmptyVenue.order[o] = [status |-> "none", size |-> 0, filled |-> 0]
    BY DEF EmptyVenue, Order
  <2>2. EntriesFine(EmptyVenue)
    BY <2>1, PlanAssumption, Elements DEF EntriesFine, Known
  <2>3. ~Known(EmptyVenue, FallbackEntry) BY <2>1, Elements DEF Known
  <2>4. MemFine(mem) BY <1>1 DEF MemFine, NoMem
  <2>5. Len(todo) = 0 BY <1>1
  <2>6. QED BY <1>1, <2>2, <2>3, <2>4, <2>5 DEF SaleInv, Sales, At
<1>7. QED BY <1>2, <1>3, <1>4, <1>5, <1>6 DEF Inv

\* ... and every step keeps it.
LEMMA SaleNext ==
    ASSUME OneSale, Inv, [Next]_vars
    PROVE  Inv'
<1>1. BooksInv' BY BooksNext DEF Inv
<1>2. CASE Works BY <1>1, <1>2, WorksKeep DEF Inv
<1>3. CASE Poll \/ Asks \/ SweepLeftovers BY <1>1, <1>3, BeginsKeep DEF Inv
<1>4. CASE Market \/ SweepOrphans \/ DeadlinePasses \/ HoldEnds
  BY <1>1, <1>4, MarketKeeps DEF Inv
<1>5. CASE Open BY <1>1, <1>5, OpenKeeps DEF Inv, Open
<1>6. CASE Restart BY <1>1, <1>6, RestartKeeps DEF Inv
<1>7. CASE UNCHANGED vars
  <2>1. /\ UNCHANGED <<trade, todo, rec, look, opening>> /\ venue' = venue /\ mem' = mem
    BY <1>7 DEF vars
  <2>2. CopiesFine' /\ JobInv' /\ UnsoldInv' /\ SaleInv'
    BY <2>1, Venues, VenueKeeps
  <2>3. QED BY <1>1, <2>2 DEF Inv
<1>8. QED BY <1>2, <1>3, <1>4, <1>5, <1>6, <1>7 DEF Next, Sweeps

\* engine.ts, pollInner: an entry whose time is up and the market order that
\* replaces it sell what the plan asks for once, where the one is not filled in
\* part and its cancel and the reading after it do not fail.
THEOREM SoldOnlyOnce == OneSale /\ Spec => []SoldOnce
<1>1. Inv => SoldOnce
  <2> SUFFICES ASSUME Inv PROVE SoldOnce
    OBVIOUS
  <2>1. Sound(venue) /\ Sales(venue) /\ EntriesFine(venue) BY Venues
  <2>2. /\ venue.order[Entry].filled \in Nat /\ venue.order[FallbackEntry].filled \in Nat
        /\ venue.order[Entry].filled <= Requested
        /\ venue.order[FallbackEntry].filled <= Requested
    BY <2>1, Elements DEF Sound, EntriesFine
  <2>3. venue.order[Entry].filled = 0 \/ venue.order[FallbackEntry].filled = 0
    BY <2>1, Elements DEF Sales, WrittenOff, Sound, Known
  <2>4. QED BY <2>2, <2>3, PlanAssumption DEF SoldOnce
<1>2. OneSale /\ Inv /\ [Next]_vars => Inv'
  BY SaleNext
<1>3. SUFFICES ASSUME OneSale PROVE Spec => []SoldOnce
  OBVIOUS
<1>4. QED BY <1>1, <1>2, <1>3, SaleInit, PTL DEF Spec
-----------------------------------------------------------------------------
(* What the record of a trade is *)

\* What the exits come to, of a function on the orders.
Total(f) == SumFunction([o \in Exits |-> f[o]])

\* Two such sums.
LEMMA Totals ==
    ASSUME NEW f, NEW g, \A o \in Exits : f[o] \in Int /\ g[o] \in Int
    PROVE  /\ Total(f) \in Int /\ Total(g) \in Int
           /\ (\A o \in Exits : f[o] = 0) => Total(f) = 0
           /\ \A t \in Exits : (\A o \in Exits \ {t} : g[o] = f[o]) =>
                Total(g) = Total(f) + g[t] - f[t]
           /\ (\A o \in Exits : f[o] = g[o]) => Total(f) = Total(g)
           /\ (\A o \in Exits : f[o] <= g[o]) =>
                /\ Total(f) <= Total(g)
                /\ \A t \in Exits : g[t] - f[t] <= Total(g) - Total(f)
<1> DEFINE F == [o \in Exits |-> f[o]]
           G == [o \in Exits |-> g[o]]
<1>1. /\ DOMAIN F = Exits /\ DOMAIN G = Exits
      /\ \A o \in Exits : F[o] = f[o] /\ G[o] = g[o]
  OBVIOUS
<1>2. Total(f) = SumFunction(F) /\ Total(g) = SumFunction(G) BY DEF Total
<1>3. (\A o \in Exits : f[o] = g[o]) => Total(f) = Total(g)
  <2>1. (\A o \in Exits : f[o] = g[o]) => F = G OBVIOUS
  <2> QED BY <1>2, <2>1
<1> HIDE DEF F, G
<1>4. IsFiniteSet(Exits) BY OrdersAreFinite
<1>5. /\ SumFunction(F) \in Int /\ SumFunction(G) \in Int
      /\ (\A o \in Exits : F[o] = 0) => SumFunction(F) = 0
      /\ \A t \in Exits : (\A o \in Exits \ {t} : G[o] = F[o]) =>
           SumFunction(G) = SumFunction(F) + G[t] - F[t]
      /\ (\A o \in Exits : F[o] <= G[o]) =>
           /\ SumFunction(F) <= SumFunction(G)
           /\ \A t \in Exits : G[t] - F[t] <= SumFunction(G) - SumFunction(F)
  BY <1>1, <1>4, SumsCompared
<1> QED BY <1>1, <1>2, <1>3, <1>5

\* The fields of a record.
Ledger == [
    phase : Phase, position : Int, entrySize : Nat, exitSize : Nat,
    booked : [Order -> Nat],
    takeProfit : Shape("take_profit") \cup {None}, stopLoss : Stops \cup {None},
    cover : 0 .. 2 * Requested,
    winner : {"take_profit", "stop_loss", "manual", None},
    closing : Closing \cup {None}, alarm : BOOLEAN,
    marks : Nat, exits : 0 .. MaxExits]

\* A leg is on record.
Legged(s) == IF s.takeProfit = None /\ s.stopLoss = None THEN 0 ELSE 1

\* The journal has room for k protection events beside the one that each exit
\* still to be sent may bring, and the one that takes the legs off the record.
Spare(s, k) ==
    MaxExits <= MaxMarks => s.marks + (MaxExits - s.exits) + Legged(s) + k <= MaxMarks

\* A record of the journal: its fields, orders that are the trade's, and sizes
\* that are its fills summed, or the exchange's number believed.
Proper(s) ==
    /\ s \in Ledger
    /\ s.position = s.exitSize - s.entrySize \/ s.position \in -2 * Requested .. 2 * Requested
    /\ s.closing # None => s.closing.order \in Closes /\ s.closing.size <= s.closing.before
    /\ s.entrySize = s.booked[Entry] + s.booked[FallbackEntry]
    /\ s.exitSize = Total(s.booked)
    /\ Spare(s, 0)

\* A new trade's record is one.
LEMMA InitialProper == Proper(InitialTrade)
<1> DEFINE b == [o \in Order |-> 0]
<1>1. InitialTrade = [
         phase |-> "precheck", position |-> 0, entrySize |-> 0, exitSize |-> 0,
         booked |-> b, takeProfit |-> None, stopLoss |-> None,
         cover |-> 0, winner |-> None, closing |-> None, alarm |-> FALSE,
         marks |-> 0, exits |-> 0]
  BY DEF InitialTrade
<1>2. b \in [Order -> Nat] /\ (\A o \in Order : b[o] = 0) OBVIOUS
<1> HIDE DEF b
<1>3. Exits \subseteq Order BY DEF Order
<1>4. Total(b) = 0 BY <1>2, <1>3, Totals
<1>5. 0 \in 0 .. 2 * Requested /\ 0 \in 0 .. MaxExits /\ MaxExits \in Nat /\ MaxMarks \in Nat
  BY PlanAssumption
<1>6. InitialTrade \in Ledger BY <1>1, <1>2, <1>5 DEF Ledger, Phase
<1>7. Spare(InitialTrade, 0) BY <1>1, <1>5 DEF Spare, Legged
<1> QED BY <1>1, <1>2, <1>4, <1>6, <1>7, Elements DEF Proper

\* The fields of a record.
LEMMA Fields ==
    ASSUME NEW s, DOMAIN s = DOMAIN InitialTrade
    PROVE  {"phase", "position", "entrySize", "exitSize", "booked", "takeProfit", "stopLoss",
            "cover", "winner", "closing", "alarm", "marks", "exits"} = DOMAIN s
  BY DEF InitialTrade

LEMMA LedgerFields ==
    ASSUME NEW s \in Ledger
    PROVE  DOMAIN s = DOMAIN InitialTrade
  BY DEF InitialTrade, Ledger

\* What room a record has for more protection events.
LEMMA RoomSpares ==
    ASSUME NEW s, Proper(s)
    PROVE  /\ s.marks \in Nat /\ s.exits \in 0 .. MaxExits /\ MaxExits \in Nat /\ MaxMarks \in Nat
           /\ Legged(s) \in {0, 1}
           /\ Spare(s, 1) => Spare(s, 0)
           /\ Room(s) => s.marks \in 0 .. MaxMarks /\ Spare(s, 2)
<1>1. s.marks \in Nat /\ s.exits \in 0 .. MaxExits BY DEF Proper, Ledger
<1>2. Legged(s) \in {0, 1} BY DEF Legged
<1> QED BY <1>1, <1>2, PlanAssumption DEF Spare, Room

\* What the machine's events leave of a record is one.
LEMMA EventsProper ==
    ASSUME NEW s, Proper(s)
    PROVE  /\ Proper(Aborted(s)) /\ Proper(EntrySubmitted(s)) /\ Proper(EntrySubmitUnknown(s))
           /\ \A waiting : Proper(Opens(s, waiting))
           /\ Proper(EntryCancelled(s))
           /\ \A role \in {"take_profit", "stop_loss", "manual"} :
                Proper(WonBy(s, role)) /\ Proper(SiblingCancelled(s, role))
           /\ \A p \in Shape("take_profit") \cup {None}, q \in Stops \cup {None},
                 n \in 0 .. 2 * Requested :
                 Room(s) => Proper(ProtectionPlaced(s, p, q, n))
                            /\ Spare(ProtectionPlaced(s, p, q, n), 1)
           /\ Legged(s) = 1 => Proper(ProtectionPlaced(s, None, None, 0))
           /\ Spare(s, 1) => \A b : Proper(ProtectionFailed(s, b))
           /\ \A c \in Closing : c.size <= c.before /\ s.exits < MaxExits =>
                Proper(ExitSubmitted(s, c)) /\ Spare(ExitSubmitted(s, c), 1)
           /\ \A n \in -2 * Requested .. 2 * Requested : Proper(Reconciled(s, n))
           /\ \A phase \in Phase : /\ Proper([s EXCEPT !.closing = None, !.phase = phase])
                                   /\ Proper([s EXCEPT !.phase = phase])
           /\ Proper([s EXCEPT !.winner = IF @ # None THEN @ ELSE "manual",
                               !.phase = "exit_pending"])
<1>0. {"phase", "position", "entrySize", "exitSize", "booked", "takeProfit", "stopLoss",
       "cover", "winner", "closing", "alarm", "marks", "exits"} = DOMAIN s
  BY DEF Proper, Ledger
<1>m. /\ MaxExits \in Nat /\ MaxMarks \in Nat /\ Requested \in Nat
      /\ s.marks \in Nat /\ s.exits \in 0 .. MaxExits /\ s.position \in Int
  BY PlanAssumption DEF Proper, Ledger
<1>p. {"precheck", "entry_pending", "entry_unknown", "position_open", "unprotected",
       "protected", "exit_pending", "flat", "aborted"} = Phase
  BY DEF Phase
\* An event that leaves the fills, the legs and the counts alone.
<1>a. ASSUME NEW t \in Ledger, t.booked = s.booked, t.entrySize = s.entrySize,
             t.exitSize = s.exitSize, t.marks = s.marks, t.exits = s.exits,
             t.position = s.position \/ t.position \in -2 * Requested .. 2 * Requested,
             t.closing = s.closing \/ t.closing = None,
             t.takeProfit = s.takeProfit \/ t.takeProfit = None,
             t.stopLoss = s.stopLoss \/ t.stopLoss = None
      PROVE  Proper(t)
  <2>1. Legged(t) <= Legged(s) /\ Legged(t) \in {0, 1} /\ Legged(s) \in {0, 1}
    BY <1>a DEF Legged
  <2>2. Spare(t, 0) BY <1>a, <1>m, <2>1 DEF Proper, Spare
  <2> QED BY <1>a, <2>2 DEF Proper
<1>b. s \in Ledger BY DEF Proper
<1>1. Proper(Aborted(s)) /\ Proper(EntrySubmitted(s)) /\ Proper(EntrySubmitUnknown(s))
  <2>1. ASSUME NEW phase \in Phase PROVE Proper([s EXCEPT !.phase = phase])
    <3>1. [s EXCEPT !.phase = phase] \in Ledger BY <1>b DEF Ledger
    <3> QED BY <1>0, <1>a, <3>1
  <2> QED BY <1>p, <2>1 DEF Aborted, EntrySubmitted, EntrySubmitUnknown
<1>2. \A phase \in Phase : /\ Proper([s EXCEPT !.closing = None, !.phase = phase])
                           /\ Proper([s EXCEPT !.phase = phase])
  <2> TAKE phase \in Phase
  <2>1. [s EXCEPT !.phase = phase] \in Ledger
        /\ [s EXCEPT !.closing = None, !.phase = phase] \in Ledger
    BY <1>b DEF Ledger
  <2> QED BY <1>0, <1>a, <2>1
<1>3. \A waiting : Proper(Opens(s, waiting))
  <2> TAKE waiting
  <2>1. \E phase \in Phase : Opens(s, waiting) = [s EXCEPT !.phase = phase]
    <3>1. s.phase \in Phase BY <1>b DEF Ledger
    <3>2. Opens(s, waiting) =
            [s EXCEPT !.phase = IF s.phase \in waiting THEN "position_open" ELSE s.phase]
      BY DEF Opens
    <3> QED BY <1>p, <3>1, <3>2
  <2> QED BY <1>2, <2>1
<1>4. Proper(EntryCancelled(s))
  BY <1>1, <1>3 DEF EntryCancelled
<1>5. \A role \in {"take_profit", "stop_loss", "manual"} :
                Proper(WonBy(s, role)) /\ Proper(SiblingCancelled(s, role))
  <2> TAKE role \in {"take_profit", "stop_loss", "manual"}
  <2>1. WonBy(s, role) \in Ledger /\ SiblingCancelled(s, role) \in Ledger
    <3> DEFINE w == IF s.winner # None THEN s.winner ELSE role
    <3>1. w \in {"take_profit", "stop_loss", "manual", None} BY <1>b DEF Ledger
    <3>2. "flat" \in Phase BY <1>p
    <3>3. WonBy(s, role) = [s EXCEPT !.closing = None, !.winner = w, !.phase = "flat",
                                     !.alarm = FALSE]
      BY DEF WonBy
    <3> HIDE DEF w
    <3>4. WonBy(s, role) \in Ledger BY <1>b, <3>1, <3>2, <3>3 DEF Ledger
    <3>5. SiblingCancelled(s, role) \in Ledger BY <1>b DEF Ledger, SiblingCancelled
    <3> QED BY <3>4, <3>5
  <2>2. LET t == WonBy(s, role)
        IN /\ t.booked = s.booked /\ t.entrySize = s.entrySize
           /\ t.exitSize = s.exitSize /\ t.marks = s.marks /\ t.exits = s.exits
           /\ t.position = s.position /\ t.closing = None
           /\ t.takeProfit = s.takeProfit /\ t.stopLoss = s.stopLoss
    BY <1>0 DEF WonBy
  <2>3. LET t == SiblingCancelled(s, role)
        IN /\ t.booked = s.booked /\ t.entrySize = s.entrySize
           /\ t.exitSize = s.exitSize /\ t.marks = s.marks /\ t.exits = s.exits
           /\ t.position = s.position /\ t.closing = s.closing
           /\ t.takeProfit \in {s.takeProfit, None} /\ t.stopLoss \in {s.stopLoss, None}
    BY <1>0 DEF SiblingCancelled
  <2> QED BY <1>a, <2>1, <2>2, <2>3
<1>6. \A n \in -2 * Requested .. 2 * Requested : Proper(Reconciled(s, n))
  <2> TAKE n \in -2 * Requested .. 2 * Requested
  <2>1. \E phase \in Phase, b \in BOOLEAN :
          Reconciled(s, n) = [s EXCEPT !.position = n, !.phase = phase, !.closing = None,
                                       !.alarm = b]
    BY <1>p DEF Reconciled
  <2>2. PICK phase \in Phase, b \in BOOLEAN :
          Reconciled(s, n) = [s EXCEPT !.position = n, !.phase = phase, !.closing = None,
                                       !.alarm = b]
    BY <2>1
  <2> DEFINE t == [s EXCEPT !.position = n, !.phase = phase, !.closing = None, !.alarm = b]
  <2>3. t \in Ledger
    <3>1. n \in Int BY <1>m
    <3> QED BY <1>b, <3>1 DEF Ledger
  <2>4. /\ t.booked = s.booked /\ t.entrySize = s.entrySize
        /\ t.exitSize = s.exitSize /\ t.marks = s.marks /\ t.exits = s.exits
        /\ t.position = n /\ t.closing = None
        /\ t.takeProfit = s.takeProfit /\ t.stopLoss = s.stopLoss
    BY <1>0
  <2> HIDE DEF t
  <2>5. Proper(t) BY <1>a, <2>3, <2>4
  <2> QED BY <2>2, <2>5 DEF t
<1>7. Proper([s EXCEPT !.winner = IF @ # None THEN @ ELSE "manual", !.phase = "exit_pending"])
  <2> DEFINE t == [s EXCEPT !.winner = IF @ # None THEN @ ELSE "manual",
                            !.phase = "exit_pending"]
  <2>1. t \in Ledger BY <1>b, <1>p DEF Ledger
  <2> QED BY <1>0, <1>a, <2>1
\* An event that is a protection event too.
<1>8. ASSUME NEW p \in Shape("take_profit") \cup {None}, NEW q \in Stops \cup {None},
             NEW n \in 0 .. 2 * Requested
      PROVE  LET t == ProtectionPlaced(s, p, q, n)
             IN /\ t \in Ledger /\ t.booked = s.booked /\ t.entrySize = s.entrySize
                /\ t.exitSize = s.exitSize /\ t.exits = s.exits /\ t.position = s.position
                /\ t.closing = s.closing /\ t.marks = s.marks + 1
                /\ t.takeProfit = p /\ t.stopLoss = q
  <2> DEFINE ph == IF s.position = 0 THEN "flat" ELSE "protected"
             k == s.marks + 1
  <2>1. ph \in Phase BY <1>p
  <2>2. k \in Nat BY <1>m
  <2>3. ProtectionPlaced(s, p, q, n) =
          [s EXCEPT !.phase = ph, !.takeProfit = p, !.stopLoss = q, !.cover = n,
                    !.alarm = FALSE, !.marks = k]
    BY DEF ProtectionPlaced
  <2> HIDE DEF ph
  <2>4. ProtectionPlaced(s, p, q, n) \in Ledger
    <3> HIDE DEF k
    <3> QED BY <1>b, <2>1, <2>2, <2>3 DEF Ledger
  <2> QED BY <1>0, <2>3, <2>4
<1>9. ASSUME NEW p \in Shape("take_profit") \cup {None}, NEW q \in Stops \cup {None},
             NEW n \in 0 .. 2 * Requested,
             NEW k \in 0 .. 1,
             MaxExits <= MaxMarks =>
               s.marks + 1 + (MaxExits - s.exits) + (IF p = None /\ q = None THEN 0 ELSE 1) + k <= MaxMarks
      PROVE  LET t == ProtectionPlaced(s, p, q, n) IN Proper(t) /\ Spare(t, k)
  <2> DEFINE t == ProtectionPlaced(s, p, q, n)
  <2>1. /\ t \in Ledger /\ t.booked = s.booked /\ t.entrySize = s.entrySize
        /\ t.exitSize = s.exitSize /\ t.exits = s.exits /\ t.position = s.position
        /\ t.closing = s.closing /\ t.marks = s.marks + 1
        /\ t.takeProfit = p /\ t.stopLoss = q
    BY <1>8
  <2> HIDE DEF t
  <2>2. Spare(t, k) /\ Spare(t, 0)
    BY <1>9, <1>m, <2>1 DEF Spare, Legged
  <2>3. Proper(t) BY <2>1, <2>2 DEF Proper
  <2> QED BY <2>2, <2>3 DEF t
<1>10. \A p \in Shape("take_profit") \cup {None}, q \in Stops \cup {None},
          n \in 0 .. 2 * Requested :
             Room(s) => Proper(ProtectionPlaced(s, p, q, n))
                        /\ Spare(ProtectionPlaced(s, p, q, n), 1)
  <2> TAKE p \in Shape("take_profit") \cup {None}, q \in Stops \cup {None},
           n \in 0 .. 2 * Requested
  <2> HAVE Room(s)
  <2>1. s.marks + MaxExits + 3 <= MaxMarks BY DEF Room
  <2>2. s.marks + 1 + (MaxExits - s.exits) + (IF p = None /\ q = None THEN 0 ELSE 1) + 1 <= MaxMarks
    BY <1>m, <2>1
  <2> QED BY <1>9, <2>2
<1>11. Legged(s) = 1 => Proper(ProtectionPlaced(s, None, None, 0))
  <2> HAVE Legged(s) = 1
  <2>1. MaxExits <= MaxMarks => s.marks + (MaxExits - s.exits) + 1 + 0 <= MaxMarks
    BY DEF Proper, Spare
  <2>2. MaxExits <= MaxMarks => s.marks + 1 + (MaxExits - s.exits) + 0 + 0 <= MaxMarks
    BY <1>m, <2>1
  <2>3. 0 \in 0 .. 2 * Requested BY <1>m
  <2> QED BY <1>9, <2>2, <2>3
<1>12. Spare(s, 1) => \A b : Proper(ProtectionFailed(s, b))
  <2> HAVE Spare(s, 1)
  <2> TAKE b
  <2> DEFINE t == ProtectionFailed(s, b)
  <2>1. /\ t \in Ledger /\ t.booked = s.booked /\ t.entrySize = s.entrySize
        /\ t.exitSize = s.exitSize /\ t.exits = s.exits /\ t.position = s.position
        /\ t.closing = s.closing /\ t.marks = s.marks + 1
        /\ t.takeProfit = s.takeProfit /\ t.stopLoss = s.stopLoss
    <3> DEFINE k == s.marks + 1
    <3>1. \E ph \in Phase, a \in BOOLEAN :
            t = [s EXCEPT !.marks = k, !.phase = ph, !.alarm = a]
      <4>1. s.phase \in Phase /\ s.alarm \in BOOLEAN BY <1>b DEF Ledger
      <4>2. "flat" \in Phase /\ "unprotected" \in Phase BY <1>p
      <4> DEFINE u == [s EXCEPT !.marks = k]
      <4>3. u.phase = s.phase /\ u.alarm = s.alarm /\ DOMAIN u = DOMAIN s BY <1>0
      <4>4. \/ t = [u EXCEPT !.phase = "flat", !.alarm = FALSE]
            \/ t = u
            \/ t = [u EXCEPT !.phase = "unprotected", !.alarm = TRUE]
        BY DEF ProtectionFailed
      <4>5. u = [s EXCEPT !.marks = k, !.phase = s.phase, !.alarm = s.alarm]
        <5> HIDE DEF k, t
        <5> QED BY <1>b DEF Ledger
      <4> HIDE DEF k, t
      <4> QED BY <4>1, <4>2, <4>4, <4>5
    <3>2. PICK ph \in Phase, a \in BOOLEAN :
            t = [s EXCEPT !.marks = k, !.phase = ph, !.alarm = a]
      BY <3>1
    <3>3. k \in Nat BY <1>m
    <3> HIDE DEF t
    <3>4. t \in Ledger
      <4> HIDE DEF k
      <4> QED BY <1>b, <3>2, <3>3 DEF Ledger
    <3> QED BY <1>0, <3>2, <3>4
  <2> HIDE DEF t
  <2>2. Legged(t) = Legged(s) /\ Legged(s) \in {0, 1} BY <2>1 DEF Legged
  <2>3. Spare(t, 0) BY <1>m, <2>1, <2>2 DEF Spare
  <2>4. Proper(t) BY <2>1, <2>3 DEF Proper
  <2> QED BY <2>4 DEF t
<1>13. \A c \in Closing : c.size <= c.before /\ s.exits < MaxExits =>
                Proper(ExitSubmitted(s, c)) /\ Spare(ExitSubmitted(s, c), 1)
  <2> TAKE c \in Closing
  <2> HAVE c.size <= c.before /\ s.exits < MaxExits
  <2> DEFINE t == ExitSubmitted(s, c)
  <2>1. /\ t \in Ledger /\ t.booked = s.booked /\ t.entrySize = s.entrySize
        /\ t.exitSize = s.exitSize /\ t.exits = s.exits + 1 /\ t.position = s.position
        /\ t.closing = c /\ t.marks = s.marks
        /\ t.takeProfit = s.takeProfit /\ t.stopLoss = s.stopLoss
    <3> DEFINE ph == IF s.position = 0 THEN s.phase ELSE "exit_pending"
               k == s.exits + 1
    <3>1. ph \in Phase
      <4>1. s.phase \in Phase BY <1>b DEF Ledger
      <4> QED BY <1>p, <4>1
    <3>2. k \in 0 .. MaxExits BY <1>m
    <3>3. t = [s EXCEPT !.closing = c, !.phase = ph, !.exits = k] BY DEF ExitSubmitted
    <3> HIDE DEF t, ph
    <3>4. t \in Ledger
      <4> HIDE DEF k
      <4> QED BY <1>b, <3>1, <3>2, <3>3 DEF Ledger
    <3> QED BY <1>0, <3>3, <3>4
  <2> HIDE DEF t
  <2>2. Legged(t) = Legged(s) /\ Legged(s) \in {0, 1} BY <2>1 DEF Legged
  <2>3. Spare(t, 0) /\ Spare(t, 1) BY <1>m, <2>1, <2>2 DEF Spare, Proper
  <2>4. c.order \in Closes BY DEF Closing
  <2>5. Proper(t) BY <2>1, <2>3, <2>4 DEF Proper
  <2> QED BY <2>3, <2>5 DEF t
<1> HIDE DEF Proper
<1> QED BY <1>1, <1>2, <1>3, <1>4, <1>5, <1>6, <1>7, <1>10, <1>11, <1>12, <1>13

\* A fill is booked once, and counted where it belongs.
LEMMA FillProper ==
    ASSUME NEW s, Proper(s), NEW o \in Order, NEW n \in Nat
    PROVE  Proper(Fill(s, o, n))
<1> DEFINE entry == s.entrySize + IF o \in Entries THEN n ELSE 0
           exit == s.exitSize + IF o \in Entries THEN 0 ELSE n
           b == [s.booked EXCEPT ![o] = @ + n]
           t == [s EXCEPT !.booked[o] = @ + n, !.entrySize = entry,
                          !.exitSize = exit, !.position = exit - entry]
<1>0. {"phase", "position", "entrySize", "exitSize", "booked", "takeProfit", "stopLoss",
       "cover", "winner", "closing", "alarm", "marks", "exits"} = DOMAIN s
  BY DEF Proper, Ledger
<1>1. /\ s.booked \in [Order -> Nat] /\ s.entrySize = s.booked[Entry] + s.booked[FallbackEntry]
      /\ s.exitSize = Total(s.booked) /\ s.entrySize \in Nat /\ s.exitSize \in Nat
  BY DEF Proper, Ledger
<1>2. /\ b \in [Order -> Nat] /\ b[o] = s.booked[o] + n
      /\ \A p \in Order \ {o} : b[p] = s.booked[p]
  BY <1>1
<1>3. Exits \subseteq Order /\ Exits \cap Entries = {} /\ (o \in Entries \/ o \in Exits)
  BY DEF Order, Exits, Entries, Entry, FallbackEntry, Targets, Stops, Closes
<1>3a. /\ \A p \in Exits : s.booked[p] \in Int /\ b[p] \in Int
       /\ s.booked[Entry] \in Nat /\ s.booked[FallbackEntry] \in Nat /\ s.booked[o] \in Nat
  BY <1>1, <1>2, <1>3, Elements
<1>3b. t.booked = b BY <1>0
<1> HIDE DEF b, t
<1>4. Total(s.booked) \in Int /\ Total(b) \in Int BY <1>3a, Totals
<1>5. ASSUME o \in Entries PROVE entry = b[Entry] + b[FallbackEntry] /\ exit = Total(b)
  <2>1. Total(b) = Total(s.booked)
    <3>1. \A p \in Exits : s.booked[p] = b[p] BY <1>2, <1>3, <1>5
    <3> QED BY <1>3a, <3>1, Totals
  <2>2. b[Entry] + b[FallbackEntry] = s.booked[Entry] + s.booked[FallbackEntry] + n
    <3>1. CASE o = Entry
      <4>1. b[Entry] = s.booked[Entry] + n /\ b[FallbackEntry] = s.booked[FallbackEntry]
        BY <1>2, <3>1, Elements
      <4> QED BY <1>3a, <4>1
    <3>2. CASE o = FallbackEntry
      <4>1. b[FallbackEntry] = s.booked[FallbackEntry] + n /\ b[Entry] = s.booked[Entry]
        BY <1>2, <3>2, Elements
      <4> QED BY <1>3a, <4>1
    <3> QED BY <1>5, <3>1, <3>2 DEF Entries
  <2>3. entry = s.entrySize + n /\ exit = s.exitSize + 0 BY <1>5
  <2> HIDE DEF entry, exit
  <2> QED BY <1>1, <1>3a, <1>4, <2>1, <2>2, <2>3
<1>6. ASSUME o \in Exits PROVE entry = b[Entry] + b[FallbackEntry] /\ exit = Total(b)
  <2>1. Total(b) = Total(s.booked) + n
    <3>1. \A p \in Exits \ {o} : b[p] = s.booked[p] BY <1>2, <1>3
    <3>2. Total(b) = Total(s.booked) + b[o] - s.booked[o] BY <1>3a, <1>6, <3>1, Totals
    <3> QED BY <1>2, <1>3a, <1>4, <3>2
  <2>2. b[Entry] = s.booked[Entry] /\ b[FallbackEntry] = s.booked[FallbackEntry]
    BY <1>2, <1>3, <1>6, Elements
  <2>3. entry = s.entrySize + 0 /\ exit = s.exitSize + n BY <1>3, <1>6
  <2> HIDE DEF entry, exit
  <2> QED BY <1>1, <1>3a, <1>4, <2>1, <2>2, <2>3
<1>7. entry = b[Entry] + b[FallbackEntry] /\ exit = Total(b)
  <2> HIDE DEF entry, exit
  <2> QED BY <1>3, <1>5, <1>6
<1>8. entry \in Nat /\ exit \in Nat
  BY <1>1
<1>9. Proper(t)
  <2>0. s \in Ledger /\ exit - entry \in Int BY <1>8 DEF Proper
  <2>1. /\ t \in Ledger /\ t.entrySize = entry /\ t.exitSize = exit
        /\ t.position = exit - entry
        /\ t.marks = s.marks /\ t.exits = s.exits /\ t.takeProfit = s.takeProfit
        /\ t.stopLoss = s.stopLoss /\ t.closing = s.closing
    <3> HIDE DEF entry, exit
    <3>1. [s EXCEPT !.booked = b, !.entrySize = entry,
                    !.exitSize = exit, !.position = exit - entry] \in Ledger
      BY <1>2, <1>8, <2>0 DEF Ledger
    <3>2. t = [s EXCEPT !.booked = b, !.entrySize = entry,
                    !.exitSize = exit, !.position = exit - entry]
      BY <1>0 DEF t, b
    <3> QED BY <1>0, <3>1, <3>2
  <2> HIDE DEF t, entry, exit
  <2>2. Spare(t, 0) BY <2>1 DEF Proper, Spare, Legged
  <2> QED BY <1>2, <1>3b, <1>7, <1>8, <2>1, <2>2 DEF Proper
<1>10. Fill(s, o, n) = IF o \in Entries
                         THEN Opens(t, {"entry_pending", "entry_unknown", "precheck"})
                         ELSE ExitFill(t, IF o \in Closes THEN "manual" ELSE o[1])
  BY DEF Fill, t
<1> HIDE DEF t
<1>11. \A role \in {"take_profit", "stop_loss", "manual"} : Proper(ExitFill(t, role))
  <2>1. Proper([t EXCEPT !.closing = None, !.phase = "position_open"])
    BY <1>9, EventsProper DEF Phase
  <2> QED BY <1>9, <2>1, EventsProper DEF ExitFill
<1>12. Proper(Opens(t, {"entry_pending", "entry_unknown", "precheck"}))
  BY <1>9, EventsProper
<1>13. o \notin Entries /\ o \notin Closes => o[1] \in {"take_profit", "stop_loss"}
  BY <1>3 DEF Exits, Targets, Stops
<1> QED BY <1>10, <1>11, <1>12, <1>13

\* So is what a reading of an order books.
LEMMA AbsorbProper ==
    ASSUME NEW s, Proper(s), NEW o \in Order
    PROVE  /\ \A filled \in Int : \A rejected : Proper(Absorb(s, o, filled, rejected))
           /\ \A v : Sound(v) => Proper(AbsorbOf(v, s, o))
<1>1. ASSUME NEW filled \in Int, NEW rejected PROVE Proper(Absorb(s, o, filled, rejected))
  <2> DEFINE fresh == filled - s.booked[o]
             t == IF fresh > 0 THEN Fill(s, o, fresh) ELSE s
  <2>1. s.booked[o] \in Nat BY DEF Proper, Ledger
  <2>2. Proper(t)
    <3>1. fresh > 0 => fresh \in Nat BY <2>1
    <3> HIDE DEF fresh
    <3> QED BY <3>1, FillProper
  <2>3. Absorb(s, o, filled, rejected) = IF rejected THEN Aborted(t) ELSE t
    BY DEF Absorb
  <2> HIDE DEF t
  <2> QED BY <2>2, <2>3, EventsProper
<1>2. \A v : Sound(v) => v.order[o].filled \in Nat BY DEF Sound
<1> QED BY <1>1, <1>2 DEF AbsorbOf

-----------------------------------------------------------------------------
(* The venue's own account of its orders *)

Ticket == [status : {"none", "open", "over", "rejected"},
           size : 0 .. 2 * Requested, filled : Nat]

\* What the exits have bought back, and what the entries have sold.
Bought(v) == Total([o \in Order |-> v.order[o].filled])
Sold(v) == v.order[Entry].filled + v.order[FallbackEntry].filled

\* An entry is for the plan's size and fills no more of it, the position is
\* never turned over, and the exits have bought no more than was sold and is
\* held no longer.
Accounts(v) ==
    /\ v \in [order : [Order -> Ticket], net : Int]
    /\ \A o \in Order : ~Known(v, o) => v.order[o].filled = 0
    /\ \A o \in Entries : /\ v.order[o].filled <= Requested
                          /\ Known(v, o) => v.order[o].size = Requested
    /\ v.net <= 0 /\ Bought(v) <= v.net + Sold(v)

\* What follows of an account, for each order.
LEMMA AccountsSay ==
    ASSUME NEW v, Accounts(v)
    PROVE  /\ Sound(v) /\ v \in VenueState /\ Short(v) = -v.net /\ Short(v) \in 0 .. 2 * Requested
           /\ Sold(v) \in 0 .. 2 * Requested /\ Bought(v) \in 0 .. 2 * Requested
           /\ \A o \in Exits : v.order[o].filled \in 0 .. 2 * Requested
           /\ \A o \in Entries : v.order[o].filled \in 0 .. Requested
           /\ \A o \in Order : v.order[o] \in OrderState
<1> DEFINE f == [o \in Order |-> v.order[o].filled]
           z == [o \in Order |-> 0]
<1>1. /\ \A o \in Order : v.order[o] \in Ticket /\ f[o] = v.order[o].filled /\ f[o] \in Nat
      /\ \A o \in Order : z[o] = 0
      /\ v.net \in Int /\ v.net <= 0 /\ Requested \in Nat
  BY PlanAssumption DEF Accounts, Ticket
<1>2. Bought(v) = Total(f) BY DEF Bought
<1> HIDE DEF f, z
<1>3. Exits \subseteq Order /\ Entries \subseteq Order BY DEF Order
<1>4. Total(z) = 0 /\ Total(f) \in Int /\ Total(z) <= Total(f)
      /\ \A t \in Exits : f[t] - z[t] <= Total(f) - Total(z)
  <2>1. \A o \in Exits : z[o] \in Int /\ f[o] \in Int /\ z[o] = 0 /\ z[o] <= f[o]
    BY <1>1, <1>3
  <2>2. (\A o \in Exits : z[o] = 0) => Total(z) = 0 BY <2>1, Totals
  <2>3. (\A o \in Exits : z[o] <= f[o]) =>
          Total(z) <= Total(f) /\ \A t \in Exits : f[t] - z[t] <= Total(f) - Total(z)
    BY <2>1, Totals
  <2>4. Total(f) \in Int BY <2>1, Totals
  <2> QED BY <2>1, <2>2, <2>3, <2>4
<1>5. \A o \in Entries : v.order[o].filled \in 0 .. Requested
  BY <1>1, <1>3 DEF Accounts
<1>6. Sold(v) \in 0 .. 2 * Requested BY <1>1, <1>5, Elements DEF Sold
<1>7. Bought(v) \in 0 .. 2 * Requested /\ -v.net <= 2 * Requested
  BY <1>1, <1>2, <1>4, <1>6 DEF Accounts
<1>8. \A o \in Exits : v.order[o].filled \in 0 .. 2 * Requested
  BY <1>1, <1>2, <1>3, <1>4, <1>7
<1>9. Short(v) = -v.net /\ Short(v) \in 0 .. 2 * Requested
  BY <1>1, <1>7 DEF Short
<1>10. \A o \in Order : v.order[o] \in OrderState
  <2> TAKE o \in Order
  <2>1. v.order[o].filled \in 0 .. 2 * Requested
    <3>1. o \in Entries \/ o \in Exits BY DEF Order
    <3> QED BY <1>1, <1>5, <1>8, <3>1
  <2> QED BY <1>1, <2>1 DEF Ticket, OrderState
<1>11. v \in VenueState
  <2>1. v.order \in [Order -> OrderState] BY <1>10 DEF Accounts
  <2>2. v.net \in -2 * Requested .. 2 * Requested BY <1>1, <1>7
  <2> QED BY <2>1, <2>2 DEF VenueState, Accounts
<1>12. Sound(v) BY <1>1 DEF Sound, Accounts, Ticket, Known
<1> QED BY <1>5, <1>6, <1>7, <1>8, <1>9, <1>10, <1>11, <1>12

\* An order written anew, that has filled what it had.
LEMMA WithAccounts ==
    ASSUME NEW v, Accounts(v), NEW o \in Order, NEW s \in Ticket,
           s.filled = v.order[o].filled, s.status = "none" => s.filled = 0,
           o \in Entries /\ s.status # "none" => s.size = Requested
    PROVE  Accounts(With(v, o, s))
<1> DEFINE w == With(v, o, s)
<1>1. /\ w \in [order : [Order -> Ticket], net : Int] /\ w.net = v.net
      /\ \A p \in Order : w.order[p] = IF p = o THEN s ELSE v.order[p]
  BY DEF With, Accounts
<1> HIDE DEF w
<1>2. \A p \in Order : w.order[p].filled = v.order[p].filled
  BY <1>1
<1>3. Bought(w) = Bought(v)
  <2>1. [p \in Order |-> w.order[p].filled] = [p \in Order |-> v.order[p].filled] BY <1>2
  <2> QED BY <2>1 DEF Bought
<1>4. Sold(w) = Sold(v) BY <1>2, Elements DEF Sold
<1>5. \A p \in Order : /\ ~Known(w, p) => w.order[p].filled = 0
                       /\ p \in Entries /\ Known(w, p) => w.order[p].size = Requested
                       /\ p \in Entries => w.order[p].filled <= Requested
  BY <1>1, <1>2 DEF Accounts, Known
<1>6. Entries \subseteq Order BY DEF Order
<1> QED BY <1>1, <1>3, <1>4, <1>5, <1>6 DEF Accounts, w

\* Settled, moved or accepted.
LEMMA CallsAccount ==
    ASSUME NEW v, Accounts(v), NEW o \in Order
    PROVE  /\ \A status \in {"over", "rejected"} : Accounts(Settle(v, o, status))
           /\ \A size \in 0 .. 2 * Requested :
                /\ Resting(v, o) /\ o \in Exits => Accounts(Edit(v, o, size))
                /\ o \in Entries /\ size = Requested => Accounts(Accept(v, o, size))
                /\ o \in Exits => Accounts(Accept(v, o, size))
<1>1. v.order[o] \in Ticket /\ (~Known(v, o) => v.order[o].filled = 0)
      /\ (o \in Entries /\ Known(v, o) => v.order[o].size = Requested)
  BY DEF Accounts
<1>2. Exits \cap Entries = {}
  BY DEF Exits, Entries, Entry, FallbackEntry, Targets, Stops, Closes
<1>3. ASSUME NEW status \in {"over", "rejected"} PROVE Accounts(Settle(v, o, status))
  <2>1. CASE ~Resting(v, o) BY <2>1 DEF Settle
  <2>2. CASE Resting(v, o)
    <3> DEFINE s == [v.order[o] EXCEPT !.status = status]
    <3>1. s \in Ticket /\ s.filled = v.order[o].filled /\ s.size = v.order[o].size
          /\ s.status # "none"
      BY <1>1 DEF Ticket
    <3>2. Known(v, o) BY <2>2 DEF Resting, Known
    <3> HIDE DEF s
    <3>3. Accounts(With(v, o, s)) BY <1>1, <3>1, <3>2, WithAccounts
    <3> QED BY <2>2, <3>3 DEF Settle, s
  <2> QED BY <2>1, <2>2
<1>4. ASSUME NEW size \in 0 .. 2 * Requested, Resting(v, o), o \in Exits
      PROVE  Accounts(Edit(v, o, size))
  <2> DEFINE s == [v.order[o] EXCEPT !.size = size]
  <2>1. s \in Ticket /\ s.filled = v.order[o].filled /\ s.status = "open"
    BY <1>1, <1>4 DEF Ticket, Resting
  <2> HIDE DEF s
  <2>2. Accounts(With(v, o, s)) BY <1>2, <1>4, <2>1, WithAccounts
  <2> QED BY <2>2 DEF Edit, s
<1>5. ASSUME NEW size \in 0 .. 2 * Requested, o \in Exits \/ size = Requested
      PROVE  Accounts(Accept(v, o, size))
  <2>1. CASE Known(v, o) BY <2>1 DEF Accept
  <2>2. CASE ~Known(v, o)
    <3> DEFINE s == [status |-> "open", size |-> size, filled |-> 0]
    <3>1. s \in Ticket /\ s.filled = 0 /\ s.status = "open" /\ s.size = size
      BY DEF Ticket
    <3> HIDE DEF s
    <3>2. Accounts(With(v, o, s)) BY <1>1, <1>2, <1>5, <2>2, <3>1, WithAccounts
    <3> QED BY <2>2, <3>2 DEF Accept, s
  <2> QED BY <2>1, <2>2
<1> QED BY <1>3, <1>4, <1>5

\* A fill takes from what is held or from what its entry is for.
LEMMA FillsAccount ==
    ASSUME NEW v, Accounts(v), NEW o \in Order, NEW n \in 1 .. Fillable(v, o)
    PROVE  Accounts(Fills(v, o, n)) /\ Resting(v, o)
<1> DEFINE was == v.order[o]
           now == [was EXCEPT !.filled = @ + n,
                              !.status = IF was.filled + n >= was.size THEN "over" ELSE "open"]
           w == Fills(v, o, n)
           f == [p \in Order |-> v.order[p].filled]
           g == [p \in Order |-> w.order[p].filled]
<1>1. Resting(v, o) /\ n \in Nat /\ n >= 1 BY DEF Fillable
<1>2. /\ was \in Ticket /\ was.filled \in Nat /\ was.size \in Nat /\ v.net \in Int /\ v.net <= 0
      /\ Requested \in Nat
  BY PlanAssumption DEF Accounts, Ticket
<1>3. now \in Ticket /\ now.filled = was.filled + n /\ now.status \in {"over", "open"}
      /\ now.size = was.size
  <2> DEFINE k == was.filled + n
             st == IF k >= was.size THEN "over" ELSE "open"
  <2>1. k \in Nat /\ st \in {"over", "open"} BY <1>1, <1>2
  <2>2. now = [was EXCEPT !.filled = k, !.status = st] BY <1>2 DEF Ticket
  <2> HIDE DEF k, st, now, was
  <2>3. now \in Ticket /\ now.filled = k /\ now.status = st /\ now.size = was.size
    BY <1>2, <2>1, <2>2 DEF Ticket
  <2> QED BY <2>1, <2>3 DEF k
<1> HIDE DEF now
<1>4. /\ w \in [order : [Order -> Ticket], net : Int]
      /\ w.net = IF o \in Entries THEN v.net - n ELSE v.net + n
      /\ \A p \in Order : w.order[p] = IF p = o THEN now ELSE v.order[p]
  <2>1. With(v, o, now) \in [order : [Order -> Ticket], net : Int]
        /\ With(v, o, now).net = v.net
        /\ \A p \in Order : With(v, o, now).order[p] = IF p = o THEN now ELSE v.order[p]
    BY <1>3 DEF With, Accounts
  <2>2. w = [With(v, o, now) EXCEPT !.net = IF o \in Entries THEN @ - n ELSE @ + n]
    BY DEF Fills, now
  <2> HIDE DEF w
  <2> QED BY <1>1, <1>2, <2>1, <2>2
<1> HIDE DEF w
<1>5. \A p \in Order : /\ f[p] = v.order[p].filled /\ f[p] \in Nat
                       /\ g[p] = IF p = o THEN was.filled + n ELSE v.order[p].filled
                       /\ g[p] \in Nat
  BY <1>1, <1>2, <1>3, <1>4 DEF Accounts, Ticket
<1>6. Bought(v) = Total(f) /\ Bought(w) = Total(g) BY DEF Bought
<1> HIDE DEF f, g
<1>7. Exits \subseteq Order /\ Exits \cap Entries = {} /\ Entries \subseteq Order
      /\ (o \in Entries \/ o \in Exits)
  BY DEF Order, Exits, Entries, Entry, FallbackEntry, Targets, Stops, Closes
<1>8. Total(f) \in Int /\ Total(g) \in Int BY <1>5, <1>7, Totals
<1>9. /\ Sold(v) = f[Entry] + f[FallbackEntry] /\ Sold(w) = g[Entry] + g[FallbackEntry]
  BY <1>4, <1>3, <1>5, Elements DEF Sold
<1>10. \A p \in Order : ~Known(w, p) => w.order[p].filled = 0
  BY <1>3, <1>4 DEF Accounts, Known
<1>11. \A p \in Entries : Known(w, p) => w.order[p].size = Requested
  BY <1>1, <1>3, <1>4, <1>7 DEF Accounts, Known, Resting
<1>12. CASE o \in Entries
  <2>1. n <= was.size - was.filled /\ was.size = Requested
    BY <1>1, <1>12 DEF Fillable, Left, Accounts, Known, Resting
  <2>2. \A p \in Entries : w.order[p].filled <= Requested
    BY <1>2, <1>3, <1>4, <1>7, <2>1 DEF Accounts
  <2>3. Total(g) = Total(f)
    <3>1. \A p \in Exits : f[p] = g[p] BY <1>5, <1>7, <1>12
    <3> QED BY <1>5, <1>7, <3>1, Totals
  <2>4. Sold(w) = Sold(v) + n
    <3>1. CASE o = Entry BY <1>1, <1>2, <1>5, <1>9, <3>1, Elements
    <3>2. CASE o = FallbackEntry BY <1>1, <1>2, <1>5, <1>9, <3>2, Elements
    <3> QED BY <1>12, <3>1, <3>2 DEF Entries
  <2>5. Sold(v) \in Int /\ w.net = v.net - n BY <1>4, <1>5, <1>9, <1>12, Elements
  <2>6. w.net <= 0 /\ Bought(w) <= w.net + Sold(w)
    BY <1>1, <1>2, <1>6, <1>8, <2>3, <2>4, <2>5 DEF Accounts
  <2> QED BY <1>1, <1>4, <1>10, <1>11, <2>2, <2>6 DEF Accounts, w
<1>13. CASE o \in Exits
  <2>1. n <= -v.net
    BY <1>1, <1>2, <1>7, <1>13, AccountsSay DEF Fillable, Left
  <2>2. \A p \in Entries : w.order[p].filled <= Requested
    BY <1>4, <1>7, <1>13 DEF Accounts
  <2>3. Total(g) = Total(f) + n
    <3>1. \A p \in Exits \ {o} : g[p] = f[p] BY <1>5, <1>7
    <3>2. Total(g) = Total(f) + g[o] - f[o] BY <1>5, <1>7, <1>13, <3>1, Totals
    <3> QED BY <1>1, <1>2, <1>5, <1>8, <3>2
  <2>4. Sold(w) = Sold(v) BY <1>5, <1>7, <1>9, <1>13, Elements
  <2>5. Sold(v) \in Int /\ w.net = v.net + n BY <1>4, <1>5, <1>7, <1>9, <1>13, Elements
  <2>6. w.net <= 0 /\ Bought(w) <= w.net + Sold(w)
    BY <1>1, <1>2, <1>6, <1>8, <2>1, <2>3, <2>4, <2>5 DEF Accounts
  <2> QED BY <1>1, <1>4, <1>10, <1>11, <2>2, <2>6 DEF Accounts, w
<1> QED BY <1>7, <1>12, <1>13

-----------------------------------------------------------------------------
(* Which legs rest *)

Legs == Targets \cup Stops

\* A leg is an exit of the trade, neither its entry nor its close.
LEMMA LegsAreExits ==
    /\ Legs \subseteq Exits /\ Legs \subseteq Order /\ Exits \subseteq Order
    /\ Legs \cap Entries = {} /\ Legs \cap Closes = {} /\ Exits \cap Entries = {}
    /\ Targets \cap Stops = {} /\ Closes \subseteq Exits
  BY DEF Legs, Exits, Order, Entries, Entry, FallbackEntry, Targets, Stops, Closes

\* Of the legs, no more rest in w than in v, but for those in D, and the
\* venue's account is in order.
Only(v, w, D) ==
    /\ Sound(w) /\ (Accounts(v) => Accounts(w))
    /\ \A o \in Legs \ D : Resting(w, o) => Resting(v, o)

\* Steps that put no leg on but those of D, one after the other.
LEMMA OnlyOn ==
    /\ \A v, D : Sound(v) => Only(v, v, D)
    /\ \A u, v, w, D : Only(u, v, D) /\ Only(v, w, D) => Only(u, w, D)
    /\ \A v, w, D, E : Only(v, w, D) /\ D \subseteq E => Only(v, w, E)
    /\ \A v, w, D : Only(v, w, D) => Sound(w)
  BY DEF Only

\* An order written anew is the only one that may rest anew.
LEMMA WithOnly ==
    ASSUME NEW v, Sound(v), NEW o, NEW s, Sound(With(v, o, s)),
           Accounts(v) => Accounts(With(v, o, s))
    PROVE  /\ Only(v, With(v, o, s), {o})
           /\ s.status # "open" \/ Resting(v, o) => Only(v, With(v, o, s), {})
           /\ \A p \in Order : p # o => (Resting(With(v, o, s), p) <=> Resting(v, p))
           /\ o \in Order => (Resting(With(v, o, s), o) <=> s.status = "open")
<1>1. \A p \in Order : With(v, o, s).order[p] = IF p = o THEN s ELSE v.order[p]
  BY DEF With, Sound
<1> HIDE DEF With
<1>2. \A p \in Order : Resting(With(v, o, s), p) <=>
                       IF p = o THEN s.status = "open" ELSE Resting(v, p)
  BY <1>1 DEF Resting
<1> QED BY <1>2, LegsAreExits DEF Only

\* A cancel, or a refusal, takes its order off and leaves the others.
LEMMA SettleOnly ==
    ASSUME NEW v, Sound(v), NEW o \in Order, NEW status \in {"over", "rejected"}
    PROVE  /\ Only(v, Settle(v, o, status), {})
           /\ ~Resting(Settle(v, o, status), o)
           /\ \A p \in Order : p # o => (Resting(Settle(v, o, status), p) <=> Resting(v, p))
<1>1. CASE ~Resting(v, o)
  BY <1>1, OnlyOn DEF Settle
<1>2. CASE Resting(v, o)
  <2> DEFINE s == [v.order[o] EXCEPT !.status = status]
  <2>0. status # "open" OBVIOUS
  <2>1. Settle(v, o, status) = With(v, o, s) BY <1>2 DEF Settle
  <2>2. Sound(With(v, o, s)) BY <2>1, SettleGrows DEF Grows
  <2>3. s.status # "open"
    <3>1. {"status", "filled"} \subseteq DOMAIN v.order[o] BY DEF Sound
    <3>2. s.status = status BY <3>1
    <3> QED BY <2>0, <3>2
  <2>4. Accounts(v) => Accounts(With(v, o, s)) BY <2>1, CallsAccount
  <2> HIDE DEF s
  <2>5. /\ Only(v, With(v, o, s), {})
        /\ \A p \in Order : p # o => (Resting(With(v, o, s), p) <=> Resting(v, p))
        /\ Resting(With(v, o, s), o) <=> s.status = "open"
    BY <1>2, <2>2, <2>4, WithOnly
  <2> QED BY <2>1, <2>3, <2>5
<1> QED BY <1>1, <1>2

\* An order that is moved rested before.
LEMMA EditOnly ==
    ASSUME NEW v, Sound(v), NEW o \in Exits, NEW size \in 0 .. 2 * Requested, Resting(v, o)
    PROVE  Only(v, Edit(v, o, size), {})
<1>1. Sound(Edit(v, o, size)) BY EditGrows DEF Grows
<1>2. Accounts(v) => Accounts(Edit(v, o, size)) BY CallsAccount, LegsAreExits
<1> QED BY <1>1, <1>2, WithOnly DEF Edit

\* An order put on, and one put on again.
LEMMA AcceptOnly ==
    ASSUME NEW v, Sound(v), NEW o \in Order, NEW size \in 0 .. 2 * Requested,
           o \in Entries => size = Requested
    PROVE  /\ Only(v, Accept(v, o, size), {o})
           /\ Known(v, o) => Accept(v, o, size) = v
<1>1. Sound(Accept(v, o, size)) BY AcceptGrows DEF Grows
<1>2. Accounts(v) => Accounts(Accept(v, o, size)) BY CallsAccount DEF Order
<1>3. CASE Known(v, o) BY <1>3, OnlyOn DEF Accept
<1>4. CASE ~Known(v, o) BY <1>1, <1>2, <1>4, WithOnly DEF Accept
<1> QED BY <1>3, <1>4 DEF Accept

\* A fill leaves its order resting or takes it off.
LEMMA FillsOnly ==
    ASSUME NEW v, Sound(v), NEW o \in Order, NEW n \in 1 .. Fillable(v, o)
    PROVE  Only(v, Fills(v, o, n), {})
<1> DEFINE was == v.order[o]
           now == [was EXCEPT !.filled = @ + n,
                              !.status = IF was.filled + n >= was.size THEN "over" ELSE "open"]
           w == With(v, o, now)
<1>0. Resting(v, o) /\ n \in Nat BY DEF Fillable
<1>1. Sound(Fills(v, o, n)) BY <1>0, FillsGrows DEF Grows
<1>2. \A p \in Order : w.order[p] = IF p = o THEN now ELSE v.order[p]
  BY DEF With, Sound
<1>3. "order" \in DOMAIN w BY DEF With, Sound
<1>4. \E m : Fills(v, o, n) = [w EXCEPT !.net = m] BY DEF Fills
<1> HIDE DEF w, now
<1>5. Fills(v, o, n).order = w.order BY <1>3, <1>4
<1>6. \A p \in Legs \ {o} : Resting(Fills(v, o, n), p) <=> Resting(v, p)
  BY <1>2, <1>5, LegsAreExits DEF Resting
<1>7. Accounts(v) => Accounts(Fills(v, o, n)) BY FillsAccount
<1> QED BY <1>0, <1>1, <1>6, <1>7 DEF Only

\* A call about one order puts no other on.
LEMMA OutcomesOnly ==
    ASSUME NEW v, Sound(v), NEW o \in Order, NEW size \in 0 .. 2 * Requested,
           o \in Entries => size = Requested
    PROVE  /\ \A w \in MarketOutcomes(v, o, size) : Only(v, w, {o})
           /\ \A w \in LimitOutcomes(v, o, size) : Only(v, w, {o})
           /\ Only(v, Unfilled(v, o, size), {o})
<1> DEFINE a == Accept(v, o, size)
<1>1. Only(v, v, {o}) /\ Only(v, a, {o}) /\ Sound(a)
  BY AcceptOnly, OnlyOn
<1>2. \A n \in 1 .. Fillable(a, o) : Only(v, Fills(a, o, n), {o}) /\ Sound(Fills(a, o, n))
  <2> TAKE n \in 1 .. Fillable(a, o)
  <2> HIDE DEF a
  <2>1. Only(a, Fills(a, o, n), {}) BY <1>1, FillsOnly
  <2> QED BY <1>1, <2>1, OnlyOn
<1>3. \A n \in 1 .. Fillable(a, o) : Only(v, Cancel(Fills(a, o, n), o), {o})
  <2> TAKE n \in 1 .. Fillable(a, o)
  <2>1. Only(Fills(a, o, n), Cancel(Fills(a, o, n), o), {})
    BY <1>2, SettleOnly DEF Cancel
  <2> QED BY <1>2, <2>1, OnlyOn
<1>4. ASSUME NEW w \in MarketOutcomes(v, o, size) PROVE Only(v, w, {o})
  <2>1. \/ w = v
        \/ \E n \in 1 .. Fillable(a, o) : w = Fills(a, o, n) \/ w = Cancel(Fills(a, o, n), o)
    <3>1. w = v \/ \E n \in 1 .. size : n <= Fillable(a, o) /\
                     (w = Fills(a, o, n) \/ w = Cancel(Fills(a, o, n), o))
      BY <1>4 DEF MarketOutcomes
    <3> HIDE DEF a
    <3> QED BY <3>1
  <2> HIDE DEF a
  <2> QED BY <1>1, <1>2, <1>3, <2>1
<1>5. ASSUME NEW w \in LimitOutcomes(v, o, size) PROVE Only(v, w, {o})
  <2>1. \/ w = v \/ w = a
        \/ \E n \in 1 .. Fillable(a, o) : w = Fills(a, o, n)
    BY <1>5 DEF LimitOutcomes
  <2> HIDE DEF a
  <2> QED BY <1>1, <1>2, <2>1
<1>6. Only(v, Unfilled(v, o, size), {o})
  <2>1. Unfilled(v, o, size) = v \/ Unfilled(v, o, size) = Settle(a, o, "rejected")
    BY DEF Unfilled
  <2> HIDE DEF a
  <2>2. Only(a, Settle(a, o, "rejected"), {}) BY <1>1, SettleOnly
  <2>3. Only(a, Settle(a, o, "rejected"), {o}) BY <2>2, OnlyOn
  <2>4. Only(v, Settle(a, o, "rejected"), {o}) BY <1>1, <2>3, OnlyOn
  <2> QED BY <1>1, <2>1, <2>4
<1> QED BY <1>4, <1>5, <1>6

\* A cancel puts none on.
LEMMA CancelOnly ==
    ASSUME NEW v, Sound(v), NEW o \in Order
    PROVE  Only(v, Cancel(v, o), {}) /\ ~Resting(Cancel(v, o), o)
  BY SettleOnly DEF Cancel

\* What is cancelled rests no more.
LEMMA CancelAllOnly ==
    ASSUME NEW v, Sound(v), NEW orders
    PROVE  /\ Only(v, CancelAll(v, orders), {})
           /\ \A o \in Order : Resting(CancelAll(v, orders), o) <=> o \notin orders /\ Resting(v, o)
<1>1. \A o \in Order : CancelAll(v, orders).order[o] =
           IF o \in orders /\ Resting(v, o) THEN [v.order[o] EXCEPT !.status = "over"]
           ELSE v.order[o]
  BY DEF CancelAll, Sound
<1>2. Sound(CancelAll(v, orders)) BY CancelAllGrows DEF Grows
<1>2a. Accounts(v) => Accounts(CancelAll(v, orders))
  <2> HAVE Accounts(v)
  <2> DEFINE w == CancelAll(v, orders)
  <2>1. \A o \in Order : v.order[o] \in Ticket BY DEF Accounts
  <2>2. \A o \in Order : /\ w.order[o] \in Ticket /\ w.order[o].filled = v.order[o].filled
                         /\ w.order[o].size = v.order[o].size
                         /\ w.order[o].status = "none" <=> v.order[o].status = "none"
    <3> HIDE DEF w
    <3> TAKE o \in Order
    <3>1. CASE o \in orders /\ Resting(v, o)
      <4>1. w.order[o] = [v.order[o] EXCEPT !.status = "over"] BY <1>1, <3>1 DEF w
      <4> QED BY <2>1, <3>1, <4>1 DEF Ticket, Resting
    <3>2. CASE ~(o \in orders /\ Resting(v, o))
      <4>1. w.order[o] = v.order[o] BY <1>1, <3>2 DEF w
      <4> QED BY <2>1, <4>1
    <3> QED BY <3>1, <3>2
  <2>3. DOMAIN w = DOMAIN v /\ w.net = v.net /\ w \in [order : [Order -> Ticket], net : Int]
    <3>1. \E f : w = [v EXCEPT !.order = f] /\ DOMAIN f = Order /\ f = [o \in DOMAIN f |-> f[o]]
      <4> DEFINE g == [o \in Order |->
                         IF o \in orders /\ Resting(v, o)
                           THEN [v.order[o] EXCEPT !.status = "over"] ELSE v.order[o]]
      <4>1. w = [v EXCEPT !.order = g] BY DEF CancelAll
      <4>2. DOMAIN g = Order /\ g = [o \in DOMAIN g |-> g[o]] OBVIOUS
      <4> HIDE DEF g, w
      <4> QED BY <4>1, <4>2
    <3>2. PICK f : w = [v EXCEPT !.order = f] /\ DOMAIN f = Order /\ f = [o \in DOMAIN f |-> f[o]]
      BY <3>1
    <3> HIDE DEF w
    <3>3. v \in [order : [Order -> Ticket], net : Int] BY DEF Accounts
    <3>4. w.order = f BY <3>2, <3>3
    <3>5. f \in [Order -> Ticket] BY <2>2, <3>2, <3>4
    <3> QED BY <3>2, <3>3, <3>5
  <2> HIDE DEF w
  <2>4. Bought(w) = Bought(v)
    <3>1. [o \in Order |-> w.order[o].filled] = [o \in Order |-> v.order[o].filled] BY <2>2
    <3> QED BY <3>1 DEF Bought
  <2>5. Sold(w) = Sold(v) BY <2>2, Elements DEF Sold
  <2>6. Entries \subseteq Order BY DEF Order
  <2>7. Accounts(w) BY <2>2, <2>3, <2>4, <2>5, <2>6 DEF Accounts, Known
  <2> QED BY <2>7 DEF w
<1> HIDE DEF CancelAll
<1>3. ASSUME NEW o \in Order
      PROVE  Resting(CancelAll(v, orders), o) <=> o \notin orders /\ Resting(v, o)
  <2>1. {"status", "filled"} \subseteq DOMAIN v.order[o] BY DEF Sound
  <2>2. CASE o \in orders /\ Resting(v, o)
    <3>1. CancelAll(v, orders).order[o] = [v.order[o] EXCEPT !.status = "over"]
      BY <1>1, <2>2
    <3> QED BY <2>1, <2>2, <3>1 DEF Resting
  <2>3. CASE ~(o \in orders /\ Resting(v, o))
    <3>1. CancelAll(v, orders).order[o] = v.order[o] BY <1>1, <2>3
    <3> QED BY <2>3, <3>1 DEF Resting
  <2> QED BY <2>2, <2>3
<1> QED BY <1>2, <1>2a, <1>3, LegsAreExits DEF Only

-----------------------------------------------------------------------------
(* What protect() does to the legs of the book *)

\* The orders of a leg.
Kin(role) == IF role = "take_profit" THEN Targets ELSE Stops

\* One order of a kind rests at the most.
OneIn(v, kind) == \A o, p \in kind : Resting(v, o) /\ Resting(v, p) => o = p

\* The list of open orders misses none.
Complete == "list" \notin FaultKinds

\* What a leg of protect() is: it puts nothing on but of its own kind, and of
\* that kind, where the list misses none, one rests at the most.
Right(leg, role) ==
    /\ {"venue", "rec", "id", "failed", "wrong", "filled"} = DOMAIN leg
    /\ Only(venue, leg.venue, Kin(role)) /\ (Complete => OneIn(leg.venue, Kin(role)))
    /\ leg.id \in Shape(role) \cup {None}
    /\ leg.rec = rec /\ leg.filled = FALSE

\* What makes a leg right.
LEMMA LegIsRight ==
    ASSUME NEW role, NEW v, Only(venue, v, Kin(role)), Complete => OneIn(v, Kin(role)),
           NEW id \in Shape(role) \cup {None}, NEW failed, NEW wrong
    PROVE  Right(Leg(v, rec, id, failed, wrong), role)
  BY DEF Right, Leg

\* Whatever went wrong on the way.
LEMMA DespiteRight ==
    ASSUME NEW role, NEW kind, NEW legs, \A l \in legs : Right(l, role),
           NEW leg \in Despite(kind, legs)
    PROVE  Right(leg, role)
<1>1. ASSUME NEW l, Right(l, role) PROVE Right([l EXCEPT !.wrong = @ \cup {kind}], role)
  BY <1>1 DEF Right
<1> QED BY <1>1 DEF Despite

\* With no more on, of one no more than one rests.
LEMMA OneStays ==
    /\ \A v, w, kind : OneIn(v, kind) /\ Only(v, w, {}) /\ kind \subseteq Legs => OneIn(w, kind)
    /\ \A v, w, D, E : Only(v, w, D) /\ D \cap Legs \subseteq E => Only(v, w, E)
    /\ \A role : Kin(role) \subseteq Legs /\ Kin(role) \subseteq Shape(role)
    /\ \A role : Shape(role) \subseteq Order
  BY LegsAreExits DEF OneIn, Only, Kin, Shape, Legs

\* placeTarget() and placeStop(), with none of the kind on the book.
LEMMA PlacingRight ==
    ASSUME NEW role \in {"take_profit", "stop_loss"}, NEW v, Only(venue, v, {}),
           Complete => \A o \in Kin(role) : ~Resting(v, o), rec.marks \in 0 .. MaxMarks,
           look.size \in 0 .. 2 * Requested
    PROVE  \A leg \in Placing(v, role) : Right(leg, role)
<1> DEFINE cid == <<role, rec.marks>>
           placed == IF role = "take_profit" THEN LimitOutcomes(v, cid, look.size)
                     ELSE {Accept(v, cid, look.size)}
<1>1. cid \in Kin(role) /\ Kin(role) \subseteq Legs /\ cid \in Shape(role)
      /\ cid \in Order /\ cid \notin Entries
  BY LegsAreExits DEF Kin, Targets, Stops, Legs, Shape
<1>2. Sound(v) BY OnlyOn
<1>3. \A w \in placed \cup {v} :
         /\ Only(venue, w, Kin(role))
         /\ Complete => \A o \in Kin(role) : Resting(w, o) => o = cid
  <2> HIDE DEF cid
  <2>1. ASSUME NEW w, Only(v, w, {cid})
        PROVE  /\ Only(venue, w, Kin(role))
               /\ Complete => \A o \in Kin(role) : Resting(w, o) => o = cid
    <3>1. Only(venue, w, {cid})
      <4>1. Only(venue, v, {cid}) BY OnlyOn
      <4> QED BY <2>1, <4>1, OnlyOn
    <3>2. Only(venue, w, Kin(role)) BY <1>1, <3>1, OnlyOn
    <3>3. \A o \in Legs \ {cid} : Resting(w, o) => Resting(v, o) BY <2>1 DEF Only
    <3> QED BY <1>1, <3>2, <3>3
  <2>2. \A w \in placed : Only(v, w, {cid}) BY <1>1, <1>2, OutcomesOnly, AcceptOnly
  <2>3. Only(v, v, {cid}) BY <1>2, OnlyOn
  <2> HIDE DEF placed
  <2> QED BY <2>1, <2>2, <2>3
<1>4. ASSUME NEW leg \in Placing(v, role) PROVE Right(leg, role)
  <2>1. \E w \in placed \cup {v} : \E id \in {cid, None} : \E failed, wrong :
           leg = Leg(w, rec, id, failed, wrong)
    BY <1>4 DEF Placing
  <2> HIDE DEF placed, cid
  <2>2. \A w \in placed \cup {v} : Complete => OneIn(w, Kin(role)) BY <1>3 DEF OneIn
  <2> QED BY <1>1, <1>3, <2>1, <2>2, LegIsRight
<1> QED BY <1>4

\* What rests of the kind is among live: it is cancelled but for one to keep,
\* and with none kept a new one put on.  v is the venue, or what an edit that
\* was not answered may have made of it.
LEMMA ReplacingRight ==
    ASSUME NEW role \in {"take_profit", "stop_loss"}, Sound(venue),
           Complete => OneIn(venue, Kin(role)),
           rec.marks \in 0 .. MaxMarks, look.size \in 0 .. 2 * Requested,
           NEW v, Only(venue, v, {}),
           NEW live, Complete => \A o \in Kin(role) : Resting(v, o) => o \in live,
           NEW keep, keep = {} \/ \E o \in Shape(role) : keep = {o}
    PROVE  \A leg \in Replacing(v, role, live, keep) : Right(leg, role)
<1> DEFINE away == live \ keep
           gone == CancelAll(v, away)
           kept == IF keep = {} THEN None ELSE CHOOSE o \in keep : TRUE
<1>1. Kin(role) \subseteq Legs /\ Kin(role) \subseteq Order
  BY OneStays, LegsAreExits
<1>1a. Sound(v) BY OnlyOn
<1>2. \A orders : /\ Only(venue, CancelAll(v, orders), {})
                  /\ Only(venue, CancelAll(v, orders), Kin(role))
                  /\ Complete => OneIn(CancelAll(v, orders), Kin(role))
  <2> TAKE orders
  <2>1. Only(v, CancelAll(v, orders), {}) BY <1>1a, CancelAllOnly
  <2>2. Only(venue, CancelAll(v, orders), {}) BY <2>1, OnlyOn
  <2> QED BY <1>1, <2>2, OnlyOn, OneStays
<1>3. Complete /\ keep = {} => \A o \in Kin(role) : ~Resting(gone, o)
  BY <1>1, <1>1a, CancelAllOnly
<1>4. kept \in Shape(role) \cup {None}
  <2>1. CASE keep = {} BY <2>1
  <2>2. CASE keep # {} BY <2>2
  <2> QED BY <2>1, <2>2
<1>5. ASSUME NEW leg \in Replacing(v, role, live, keep) PROVE Right(leg, role)
  <2>1. \/ \E orders, failed, wrong : leg = Leg(CancelAll(v, orders), rec, kept, failed, wrong)
        \/ keep = {} /\ leg \in Placing(gone, role)
    BY <1>5 DEF Replacing
  <2>2. Only(venue, gone, {}) BY <1>2
  <2> HIDE DEF gone, kept
  <2>3. CASE \E orders, failed, wrong : leg = Leg(CancelAll(v, orders), rec, kept, failed, wrong)
    BY <1>2, <1>4, <2>3, LegIsRight
  <2>4. CASE keep = {} /\ leg \in Placing(gone, role)
    BY <1>3, <2>2, <2>4, PlacingRight
  <2> QED BY <2>1, <2>3, <2>4
<1> QED BY <1>5

\* makeRight(): a leg moved, kept, replaced or taken off.
LEMMA MakeRightIsRight ==
    ASSUME NEW role \in {"take_profit", "stop_loss"}, Sound(venue),
           Complete => OneIn(venue, Kin(role)),
           rec.marks \in 0 .. MaxMarks, look.size \in 0 .. 2 * Requested,
           NEW book, DOMAIN book \subseteq Shape(role),
           Complete => \A o \in Kin(role) : Resting(venue, o) => o \in DOMAIN book
    PROVE  \A leg \in MakeRight(role, book) : Right(leg, role)
<1>0. Only(venue, venue, Kin(role)) BY OnlyOn
<1>1. ASSUME NEW o \in Shape(role), Complete => \A p \in Kin(role) : Resting(venue, p) => p = o,
             NEW leg \in Editing(role, o)
      PROVE  Right(leg, role)
  <2> DEFINE moved == Edit(venue, o, look.size)
             replaced(v) == Replacing(v, role, {o}, {})
  <2>1. \/ Resting(venue, o) /\ leg = Leg(moved, rec, o, FALSE, {})
        \/ leg = Leg(venue, rec, o, TRUE, {"edit"})
        \/ Resting(venue, o) /\ leg \in Despite("edit", replaced(venue) \cup replaced(moved))
        \/ leg \in replaced(venue)
    BY <1>1 DEF Editing
  <2>2. Resting(venue, o) => /\ Only(venue, moved, {}) /\ Only(venue, moved, Kin(role))
                             /\ Complete => OneIn(moved, Kin(role))
    <3>0. o \in Exits BY LegsAreExits DEF Shape, Legs
    <3>1. Resting(venue, o) => Only(venue, moved, {}) BY <3>0, EditOnly
    <3> HIDE DEF moved
    <3> QED BY <3>1, OnlyOn, OneStays
  <2> HIDE DEF moved
  <2>3. \A v : Only(venue, v, {}) => \A l \in replaced(v) : Right(l, role)
    <3> TAKE v
    <3> HAVE Only(venue, v, {})
    <3>1. Complete => \A p \in Kin(role) : Resting(v, p) => p \in {o} BY <1>1, OneStays DEF Only
    <3> QED BY <3>1, ReplacingRight
  <2>4. Only(venue, venue, {}) BY OnlyOn
  <2> HIDE DEF replaced
  <2>5. CASE Resting(venue, o) /\ leg = Leg(moved, rec, o, FALSE, {})
    BY <1>1, <2>2, <2>5, LegIsRight
  <2>6. CASE leg = Leg(venue, rec, o, TRUE, {"edit"})
    BY <1>0, <1>1, <2>6, LegIsRight
  <2>7. CASE Resting(venue, o) /\ leg \in Despite("edit", replaced(venue) \cup replaced(moved))
    BY <2>2, <2>3, <2>4, <2>7, DespiteRight
  <2> QED BY <2>1, <2>3, <2>4, <2>5, <2>6, <2>7
<1>2. ASSUME NEW leg \in MakeRight(role, book) PROVE Right(leg, role)
  <2> DEFINE live == DOMAIN book
             keep == {o \in live : /\ Wants(role) /\ o \notin Closes
                                   /\ book[o].size - book[o].filled = look.size}
             kept == IF keep = {} THEN {} ELSE {CHOOSE o \in keep : TRUE}
  <2>1. \/ Cardinality(live) = 1 /\ leg \in Editing(role, CHOOSE o \in live : TRUE)
        \/ leg \in Replacing(venue, role, live, kept)
    BY <1>2, Zenon DEF MakeRight
  <2>2. kept = {} \/ \E o \in Shape(role) : kept = {o}
    <3>1. keep \subseteq Shape(role) OBVIOUS
    <3> HIDE DEF keep
    <3>2. keep # {} => (CHOOSE o \in keep : TRUE) \in keep OBVIOUS
    <3> QED BY <3>1, <3>2
  <2>3. CASE Cardinality(live) = 1 /\ leg \in Editing(role, CHOOSE o \in live : TRUE)
    <3>1. PICK o : live = {o}
      <4>1. IsFiniteSet(Shape(role))
        <5>1. Shape(role) \subseteq Exits BY LegsAreExits DEF Shape, Legs
        <5> QED BY <5>1, OrdersAreFinite, FS_Subset
      <4>2. IsFiniteSet(live) BY <4>1, FS_Subset
      <4> HIDE DEF live
      <4> QED BY <2>3, <4>2, FS_Singleton
    <3>2. (CHOOSE p \in live : TRUE) = o BY <3>1
    <3>3. o \in Shape(role) /\ (Complete => \A p \in Kin(role) : Resting(venue, p) => p = o) BY <3>1
    <3> HIDE DEF live
    <3> QED BY <1>1, <2>3, <3>2, <3>3
  <2>4. CASE leg \in Replacing(venue, role, live, kept)
    <3> HIDE DEF kept
    <3> QED BY <2>2, <2>4, OnlyOn, ReplacingRight
  <2> QED BY <2>1, <2>3, <2>4
<1> QED BY <1>2

-----------------------------------------------------------------------------
(* What a fill leaves of a record *)

\* The exits of the record are as they were; a close may be done with.
Alike(t, s) ==
    /\ DOMAIN t = DOMAIN s
    /\ t.takeProfit = s.takeProfit /\ t.stopLoss = s.stopLoss /\ t.cover = s.cover
    /\ t.marks = s.marks /\ t.exits = s.exits
    /\ t.closing \in {s.closing, None}

\* Records alike, one after the other.
LEMMA AlikeOn ==
    /\ \A s : Alike(s, s)
    /\ \A s, t, u : Alike(t, s) /\ Alike(u, t) => Alike(u, s)
  BY DEF Alike

\* A fill, and an end, leave the exits of a record alone.
LEMMA FillAlike ==
    ASSUME NEW s, Proper(s), NEW o, NEW n
    PROVE  Alike(Fill(s, o, n), s) /\ Alike(Aborted(s), s)
<1> DEFINE entry == s.entrySize + IF o \in Entries THEN n ELSE 0
           exit == s.exitSize + IF o \in Entries THEN 0 ELSE n
           t == [s EXCEPT !.booked[o] = @ + n, !.entrySize = entry,
                          !.exitSize = exit, !.position = exit - entry]
<1>0. {"phase", "position", "entrySize", "exitSize", "booked", "takeProfit", "stopLoss",
       "cover", "winner", "closing", "alarm", "marks", "exits"} = DOMAIN s
  BY DEF Proper, Ledger
<1>1. Alike(t, s)
  <2> HIDE DEF entry, exit
  <2> QED BY <1>0 DEF Alike
<1>2. DOMAIN t = DOMAIN s BY <1>1 DEF Alike
<1>3. Fill(s, o, n) = IF o \in Entries
                        THEN Opens(t, {"entry_pending", "entry_unknown", "precheck"})
                        ELSE ExitFill(t, IF o \in Closes THEN "manual" ELSE o[1])
  BY DEF Fill
<1> HIDE DEF t
<1>4. \A waiting : Alike(Opens(t, waiting), t)
  BY <1>0, <1>2 DEF Alike, Opens
<1>5. \A role : Alike(WonBy(t, role), t)
  BY <1>0, <1>2 DEF Alike, WonBy
<1>6. /\ Alike([t EXCEPT !.closing = None, !.phase = "position_open"], t)
      /\ Alike([t EXCEPT !.winner = IF @ # None THEN @ ELSE "manual", !.phase = "exit_pending"], t)
  BY <1>0, <1>2 DEF Alike
<1>7. \A role : Alike(ExitFill(t, role), t)
  BY <1>5, <1>6, AlikeOn DEF ExitFill
<1>8. Alike(Fill(s, o, n), t) BY <1>3, <1>4, <1>7
<1>9. Alike(Aborted(s), s) BY <1>0 DEF Alike, Aborted
<1> QED BY <1>1, <1>8, <1>9, AlikeOn

\* So does what an order's reading books...
LEMMA AbsorbAlike ==
    ASSUME NEW s, Proper(s), NEW o \in Order, NEW filled \in Int, NEW rejected
    PROVE  Alike(Absorb(s, o, filled, rejected), s)
<1> DEFINE fresh == filled - s.booked[o]
           t == IF fresh > 0 THEN Fill(s, o, fresh) ELSE s
<1>1. Alike(t, s) /\ Proper(t)
  <2>1. s.booked[o] \in Nat BY DEF Proper, Ledger
  <2>2. fresh > 0 => fresh \in Nat BY <2>1
  <2> HIDE DEF fresh
  <2> QED BY <2>2, FillAlike, FillProper, AlikeOn
<1>2. Absorb(s, o, filled, rejected) = IF rejected THEN Aborted(t) ELSE t
  BY DEF Absorb
<1> HIDE DEF t
<1>3. Alike(Aborted(t), t) BY <1>1, FillAlike
<1> QED BY <1>1, <1>2, <1>3, AlikeOn

\* What a reading of an order leaves of a record.
LEMMA ReadProper ==
    ASSUME NEW s, Proper(s), NEW v, Sound(v), NEW o \in Order
    PROVE  Proper(AbsorbOf(v, s, o)) /\ Alike(AbsorbOf(v, s, o), s)
<1>1. v.order[o].filled \in Int BY DEF Sound
<1> QED BY <1>1, AbsorbProper, AbsorbAlike DEF AbsorbOf

\* What recoverFills() takes in, one after the other.
Takes(r, orders, t, u) == orders \subseteq Order => Proper(t) /\ Alike(t, r)

Taking == INSTANCE Folding WITH One <- TakeIn, Two <- TakeIn, Good <- Takes

\* ... and what recoverFills() takes in, fill by fill.
LEMMA RecoverProper ==
    ASSUME NEW r, Proper(r), Sound(venue)
    PROVE  Proper(RecoverFills(r)) /\ Alike(RecoverFills(r), r)
<1> DEFINE Filled(orders) == {o \in orders : venue.order[o].filled > 0}
           F(base, S) == Taking!FoldOne(r, base, S)
<1>1. ASSUME NEW S, IsFiniteSet(S), S \subseteq Order, NEW base, Proper(base)
      PROVE  Proper(F(base, S)) /\ Alike(F(base, S), base)
  <2>1. IsFiniteSet(S) <=> Taking!IsFiniteSet(S)
    BY DEF IsFiniteSet, Taking!IsFiniteSet
  <2>2. \A s \in SUBSET S : \A o \in s : \A t, u :
          Takes(base, s \ {o}, t, u) => Takes(base, s, TakeIn(base, o, t), TakeIn(base, o, u))
    <3> TAKE s \in SUBSET S
    <3> TAKE o \in s
    <3> TAKE t, u
    <3> SUFFICES ASSUME Takes(base, s \ {o}, t, u) PROVE Takes(base, s, TakeIn(base, o, t), TakeIn(base, o, u))
      OBVIOUS
    <3>1. Proper(t) /\ Alike(t, base) /\ o \in Order BY <1>1 DEF Takes
    <3>2. TakeIn(base, o, t) = AbsorbOf(venue, t, o) BY DEF TakeIn, AbsorbNow
    <3>3. Proper(AbsorbOf(venue, t, o)) /\ Alike(AbsorbOf(venue, t, o), t) BY <3>1, ReadProper
    <3> QED BY <3>1, <3>2, <3>3, AlikeOn DEF Takes
  <2>3. Takes(base, {}, base, base)
    BY <1>1, AlikeOn DEF Takes
  <2>4. Takes(base, S, Taking!FoldOne(base, base, S), Taking!FoldTwo(base, base, S))
    BY <1>1, <2>1, <2>2, <2>3, Taking!FoldTogether
  <2>5. Taking!FoldOne(base, base, S) = F(base, S)
    BY DEF Taking!FoldOne, TakeIn
  <2> QED
    BY <1>1, <2>4, <2>5 DEF Takes
<1>3. /\ IsFiniteSet(Filled(Entries)) /\ IsFiniteSet(Filled(Exits))
      /\ Filled(Entries) \subseteq Order /\ Filled(Exits) \subseteq Order
  BY OrdersAreFinite, FS_Subset DEF Order
<1>4. RecoverFills(r) = F(F(r, Filled(Exits)), Filled(Entries))
  BY DEF RecoverFills, Taking!FoldOne, Taking!FoldSet, Taking!MapThenFoldSet,
    FoldSet, MapThenFoldSet, TakeIn
<1> HIDE DEF Filled, F
<1>6. Proper(F(r, Filled(Exits))) /\ Alike(F(r, Filled(Exits)), r)
  BY <1>1, <1>3
<1> QED
  BY <1>1, <1>3, <1>4, <1>6, AlikeOn

-----------------------------------------------------------------------------
(* What settling a leg comes to, and taking the legs off *)

\* What a job has read.
LookProper(l) ==
    /\ DOMAIN l = DOMAIN NoLook
    /\ l.takeProfit \in Shape("take_profit") \cup {None}
    /\ l.stopLoss \in Stops \cup {None}
    /\ DOMAIN l.book \subseteq Exits /\ l.book \in [DOMAIN l.book -> OrderState]
    /\ l.want \in 0 .. 2 * Requested /\ l.size \in 0 .. 2 * Requested
    /\ l.net \in -2 * Requested .. 2 * Requested

\* settle() leaves a leg right, or finds it filled.
LEMMA SettledRight ==
    ASSUME Sound(venue), Proper(rec), LookProper(look), rec.marks \in 0 .. MaxMarks,
           NEW role \in {"take_profit", "stop_loss"}, Complete => OneIn(venue, Kin(role)),
           Complete => \A o \in Kin(role) : Resting(venue, o) => o \in DOMAIN look.book,
           NEW leg \in Settled(role)
    PROVE  LET o == Recorded(rec, role)
           IN \/ Right(leg, role)
              \/ /\ leg.filled /\ leg.venue = venue
                 /\ leg.rec = AbsorbOf(venue, rec, o) /\ leg.rec # rec
                 /\ o \in Order /\ o \notin DOMAIN look.book /\ ~Resting(venue, o)
<1> DEFINE o == Recorded(rec, role)
           fills == AbsorbOf(venue, rec, o)
           listed == [p \in DOMAIN look.book \cap Shape(role) |-> look.book[p]]
           with == [p \in DOMAIN listed \cup {o} |->
                      IF p = o THEN venue.order[o] ELSE listed[p]]
           unseen == o # None /\ o \notin DOMAIN listed
           waits == IF role = "take_profit" THEN {Leg(venue, rec, o, TRUE, {})} ELSE {}
           goesOn == MakeRight(role, listed)
           held == IF role = "take_profit" THEN waits ELSE goesOn
           lost == Despite("read", held) \cup Despite("nowhere", waits \cup goesOn)
           filled == [Leg(venue, fills, o, FALSE, {}) EXCEPT !.filled = TRUE]
           found == IF Resting(venue, o) THEN MakeRight(role, with)
                    ELSE IF fills # rec THEN {filled} ELSE goesOn
<1>0. look.size \in 0 .. 2 * Requested BY DEF LookProper
<1>1. o \in Shape(role) \cup {None} BY DEF Recorded, Proper, Ledger, Shape
<1>2. Kin(role) \subseteq Shape(role)
  BY OneStays
<1>3. DOMAIN listed = DOMAIN look.book \cap Shape(role)
      /\ DOMAIN with = DOMAIN listed \cup {o}
  OBVIOUS
<1>4. /\ DOMAIN listed \subseteq Shape(role)
      /\ Complete => \A p \in Kin(role) : Resting(venue, p) => p \in DOMAIN listed
      /\ o # None => DOMAIN with \subseteq Shape(role)
      /\ Complete => \A p \in Kin(role) : Resting(venue, p) => p \in DOMAIN with
  BY <1>1, <1>2, <1>3
<1>4a. o # None => o \in Order BY <1>1, OneStays
<1> HIDE DEF listed, with
<1>5. \A l \in MakeRight(role, listed) : Right(l, role) BY <1>0, <1>4, MakeRightIsRight
<1>6. o # None => \A l \in MakeRight(role, with) : Right(l, role) BY <1>0, <1>4, MakeRightIsRight
<1>7. Right(Leg(venue, rec, o, TRUE, {}), role)
  <2> HIDE DEF o
  <2>1. Only(venue, venue, Kin(role)) BY OnlyOn
  <2> QED BY <1>1, <2>1, LegIsRight
<1>9. \A l \in waits \cup goesOn : Right(l, role)
  <2> HIDE DEF o
  <2> QED BY <1>5, <1>7
<1>11. leg \in lost => Right(leg, role)
  <2>1. held \subseteq waits \cup goesOn OBVIOUS
  <2> HIDE DEF held, waits, goesOn
  <2> QED BY <1>9, <2>1, DespiteRight
<1>12. filled.venue = venue /\ filled.rec = fills /\ filled.filled
  BY DEF Leg
<1>13. Settled(role) = IF unseen THEN lost \cup found ELSE goesOn
  BY DEF Settled, listed, with
<1>13a. unseen => o \in Order /\ o \notin DOMAIN look.book
  BY <1>1, <1>3, <1>4a
<1>14. CASE unseen /\ leg \in found
  <2>1. CASE Resting(venue, o)
    <3>1. leg \in MakeRight(role, with) BY <1>14, <2>1
    <3> QED BY <1>6, <1>14, <3>1
  <2>2. CASE ~Resting(venue, o) /\ fills # rec
    <3>1. leg = filled BY <1>14, <2>2
    <3> HIDE DEF filled
    <3> QED BY <1>12, <1>13a, <1>14, <2>2, <3>1
  <2>3. CASE ~Resting(venue, o) /\ fills = rec
    <3>1. leg \in goesOn BY <1>14, <2>3
    <3> QED BY <1>5, <3>1
  <2> QED BY <2>1, <2>2, <2>3
<1>15. leg \in goesOn => Right(leg, role) BY <1>5
<1> HIDE DEF found, unseen, lost, goesOn
<1>16. leg \in lost \/ (unseen /\ leg \in found) \/ leg \in goesOn
  BY <1>13
<1> QED BY <1>11, <1>14, <1>15, <1>16

\* A record of which legs may have been taken off.
Lessened(t, s) ==
    /\ DOMAIN t = DOMAIN s
    /\ t.takeProfit \in {s.takeProfit, None} /\ t.stopLoss \in {s.stopLoss, None}
    /\ t.cover = s.cover /\ t.marks = s.marks /\ t.exits = s.exits
    /\ t.closing \in {s.closing, None}

\* What cancelSiblings() takes off goes off, and nothing goes on.  Where
\* nothing goes wrong each leg is gone from the book and off the record.
LEMMA TakenOffOnly ==
    ASSUME Sound(venue), NEW r, Proper(r),
           NEW legs \in SUBSET {"take_profit", "stop_loss"},
           \A role \in legs : Recorded(r, role) # None,
           NEW t \in TakeOffs(r, legs)
    PROVE  /\ Only(venue, t.end.venue, {}) /\ Proper(t.end.rec) /\ Lessened(t.end.rec, r)
           /\ t.fault = "none" => \A role \in legs :
                /\ Recorded(r, role) \in Legs => ~Resting(t.end.venue, Recorded(r, role))
                /\ Recorded(t.end.rec, role) = None
           /\ \A role \in {"take_profit", "stop_loss"} \ legs :
                Recorded(t.end.rec, role) = Recorded(r, role)
<1> DEFINE Good(x) == Only(venue, x.venue, {}) /\ Proper(x.rec) /\ Lessened(x.rec, r)
           x0 == [venue |-> venue, rec |-> r, sure |-> TRUE]
           off(x, role, how) == IF role \in legs THEN TakeOffLeg(x, role, how) ELSE x
           x1(h) == off(x0, "take_profit", h)
           x2(g, h) == off(x1(g), "stop_loss", h)
<1>0. \A o : o \in Shape("take_profit") \cup Stops => o \in Order
  BY OneStays, LegsAreExits DEF Legs
<1>1. ASSUME NEW x, Good(x), NEW role \in {"take_profit", "stop_loss"}, NEW how,
             Recorded(x.rec, role) # None
      PROVE  LET y == TakeOffLeg(x, role, how)
             IN /\ Good(y)
                /\ Only(x.venue, y.venue, {})
                /\ how = "taken" => /\ ~Resting(y.venue, Recorded(x.rec, role))
                                    /\ Recorded(y.rec, role) = None
                /\ \A other \in {"take_profit", "stop_loss"} \ {role} :
                     Recorded(y.rec, other) = Recorded(x.rec, other)
  <2> DEFINE o == Recorded(x.rec, role)
             v == IF how \in {"taken", "unverified"} THEN Cancel(x.venue, o) ELSE x.venue
             seen == how \notin {"unread", "nowhere"}
             s == IF seen /\ x.venue.order[o].filled > 0 /\ x.rec.position # 0
                    THEN AbsorbOf(v, x.rec, o) ELSE x.rec
             gone == how \in {"taken", "nowhere"}
             y == TakeOffLeg(x, role, how)
  <2>0. o \in Order BY <1>0, <1>1 DEF Recorded, Proper, Ledger
  <2>1. Only(x.venue, v, {}) /\ Only(venue, v, {}) /\ Sound(v)
        /\ (how = "taken" => ~Resting(v, o))
    <3>1. Sound(x.venue) BY <1>1, OnlyOn
    <3>2. Only(x.venue, Cancel(x.venue, o), {}) /\ ~Resting(Cancel(x.venue, o), o)
      BY <2>0, <3>1, CancelOnly
    <3>3. Only(x.venue, x.venue, {}) BY <3>1, OnlyOn
    <3>4. Only(x.venue, v, {}) /\ (how = "taken" => ~Resting(v, o))
      <4> HIDE DEF o
      <4> QED BY <3>2, <3>3
    <3> HIDE DEF v
    <3> QED BY <1>1, <3>4, OnlyOn
  <2>2. Proper(s) /\ Alike(s, x.rec)
    <3> HIDE DEF v, o
    <3>1. Proper(AbsorbOf(v, x.rec, o)) /\ Alike(AbsorbOf(v, x.rec, o), x.rec)
      BY <1>1, <2>0, <2>1, ReadProper
    <3> QED BY <1>1, <3>1, AlikeOn
  <2>4. y.venue = v /\ y.rec = IF gone THEN SiblingCancelled(s, role) ELSE s
    BY DEF TakeOffLeg
  <2> HIDE DEF v, s, gone, y
  <2>5. Lessened(s, r) /\ DOMAIN s = DOMAIN InitialTrade
    BY <1>1, <2>2, LedgerFields DEF Alike, Lessened, Proper
  <2>6. /\ Proper(SiblingCancelled(s, role)) /\ Lessened(SiblingCancelled(s, role), r)
        /\ Recorded(SiblingCancelled(s, role), role) = None
        /\ \A other \in {"take_profit", "stop_loss"} \ {role} :
             Recorded(SiblingCancelled(s, role), other) = Recorded(s, other)
    <3>0. {"takeProfit", "stopLoss", "cover", "marks", "exits", "closing"} \subseteq DOMAIN s
      BY <2>5, Fields
    <3>1. Proper(SiblingCancelled(s, role)) BY <2>2, EventsProper
    <3> QED BY <2>5, <3>0, <3>1 DEF Lessened, SiblingCancelled, Recorded
  <2>7. \A other : Recorded(s, other) = Recorded(x.rec, other)
    BY <2>2 DEF Alike, Recorded
  <2>8. Good(y)
    <3> HIDE DEF o
    <3> QED BY <2>1, <2>2, <2>4, <2>5, <2>6
  <2>9. how = "taken" => y.rec = SiblingCancelled(s, role) BY <2>4 DEF gone
  <2>10. \A other \in {"take_profit", "stop_loss"} \ {role} :
             Recorded(y.rec, other) = Recorded(x.rec, other)
    BY <2>4, <2>6, <2>7
  <2> HIDE DEF o, Good
  <2>11. \A z : z = TakeOffLeg(x, role, how) =>
                        /\ Good(z) /\ Only(x.venue, z.venue, {})
                        /\ how = "taken" => ~Resting(z.venue, o) /\ Recorded(z.rec, role) = None
                        /\ \A other \in {"take_profit", "stop_loss"} \ {role} :
                             Recorded(z.rec, other) = Recorded(x.rec, other)
    BY <2>1, <2>4, <2>6, <2>8, <2>9, <2>10 DEF y
  <2> QED BY <2>11, Zenon DEF o
<1>2. x0.venue = venue /\ x0.rec = r
  OBVIOUS
<1>3. Good(x0)
  <2> HIDE DEF x0
  <2> QED BY <1>2, OnlyOn DEF Lessened
<1>4. \E g, h : t.end = x2(g, h) /\ (t.fault = "none" => (g = "taken" /\ h = "taken"))
  <2> DEFINE hows(role) == IF role \in legs THEN Hows(venue, Recorded(r, role))
                           ELSE {<<"taken", "none">>}
             off2(h) == off(off(x0, "take_profit", h[1][1]), "stop_loss", h[2][1])
             fault(h) == IF h[1][2] = "none" THEN h[2][2] ELSE h[1][2]
             H == {p \in hows("take_profit") \X hows("stop_loss") :
                     "none" \in {p[1][2], p[2][2]}}
  <2>1. TakeOffs(r, legs) = {[end |-> off2(h), fault |-> fault(h)] : h \in H}
    BY DEF TakeOffs
  <2>2. PICK h \in H : t.end = off2(h) /\ t.fault = fault(h)
    <3> HIDE DEF off2, fault, H
    <3> QED
      BY <2>1
  <2>3. \A role : \A p \in hows(role) : p[2] = "none" => p[1] = "taken"
    BY DEF Hows
  <2>4. h[1] \in hows("take_profit") /\ h[2] \in hows("stop_loss")
    <3> HIDE DEF hows
    <3> QED BY <2>2
  <2> HIDE DEF off, H, hows
  <2>5. fault(h) = "none" => h[1][1] = "taken" /\ h[2][1] = "taken"
    BY <2>3, <2>4
  <2> HIDE DEF fault
  <2> QED
    BY <2>2, <2>5
<1>5. PICK g, h : t.end = x2(g, h) /\ (t.fault = "none" => (g = "taken" /\ h = "taken"))
  BY <1>4
<1> HIDE DEF x0
<1>6. LET y == x1(g)
      IN /\ Good(y)
         /\ Recorded(y.rec, "stop_loss") = Recorded(r, "stop_loss")
         /\ "take_profit" \in legs => (g = "taken" => /\ ~Resting(y.venue, Recorded(r, "take_profit"))
                                                     /\ Recorded(y.rec, "take_profit") = None)
         /\ "take_profit" \notin legs => Recorded(y.rec, "take_profit") = Recorded(r, "take_profit")
  <2>1. CASE "take_profit" \notin legs
    <3>1. x1(g) = x0 BY <2>1
    <3> HIDE DEF x1, Good
    <3> QED BY <1>2, <1>3, <2>1, <3>1
  <2>2. CASE "take_profit" \in legs
    <3>1. x1(g) = TakeOffLeg(x0, "take_profit", g) BY <2>2
    <3>2. Recorded(x0.rec, "take_profit") # None BY <1>2, <2>2
    <3> HIDE DEF x1, Good
    <3> QED BY <1>1, <1>2, <1>3, <2>2, <3>1, <3>2
  <2> QED BY <2>1, <2>2
<1> DEFINE y == x1(g)
<1>7. /\ Good(t.end) /\ Only(y.venue, t.end.venue, {})
      /\ Recorded(t.end.rec, "take_profit") = Recorded(y.rec, "take_profit")
      /\ "stop_loss" \in legs => (h = "taken" =>
                                                /\ ~Resting(t.end.venue, Recorded(r, "stop_loss"))
                                                /\ Recorded(t.end.rec, "stop_loss") = None)
      /\ "stop_loss" \notin legs => Recorded(t.end.rec, "stop_loss") = Recorded(r, "stop_loss")
  <2>0. t.end = off(y, "stop_loss", h) BY <1>5
  <2>00. Good(y) /\ Recorded(y.rec, "stop_loss") = Recorded(r, "stop_loss") BY <1>6
  <2> HIDE DEF y, x1
  <2>1. CASE "stop_loss" \notin legs
    <3>1. t.end = y BY <2>0, <2>1
    <3>2. Only(y.venue, y.venue, {}) BY <2>00, OnlyOn
    <3> HIDE DEF Good
    <3> QED BY <2>00, <2>1, <3>1, <3>2
  <2>2. CASE "stop_loss" \in legs
    <3>1. t.end = TakeOffLeg(y, "stop_loss", h) BY <2>0, <2>2
    <3>2. Recorded(y.rec, "stop_loss") # None BY <2>00, <2>2
    <3> HIDE DEF Good
    <3> QED BY <1>1, <2>00, <2>2, <3>1, <3>2
  <2> QED BY <2>1, <2>2
<1>8. "take_profit" \in legs /\ g = "taken" /\ Recorded(r, "take_profit") \in Legs =>
        ~Resting(t.end.venue, Recorded(r, "take_profit"))
  <2>1. SUFFICES ASSUME "take_profit" \in legs, g = "taken",
                        Recorded(r, "take_profit") \in Legs
                 PROVE  ~Resting(t.end.venue, Recorded(r, "take_profit"))
    OBVIOUS
  <2>2. ~Resting(y.venue, Recorded(r, "take_profit")) BY <1>6, <2>1
  <2> HIDE DEF y
  <2> QED BY <1>7, <2>1, <2>2 DEF Only
<1> HIDE DEF y, x1, x2
<1>9. /\ Only(venue, t.end.venue, {}) /\ Proper(t.end.rec) /\ Lessened(t.end.rec, r)
  BY <1>7
<1>10. Recorded(y.rec, "take_profit") = IF "take_profit" \in legs /\ g = "taken" THEN None
                                       ELSE Recorded(y.rec, "take_profit")
  BY <1>6 DEF y
<1> HIDE DEF Good
<1>11. t.fault = "none" => \A role \in legs :
                /\ Recorded(r, role) \in Legs => ~Resting(t.end.venue, Recorded(r, role))
                /\ Recorded(t.end.rec, role) = None
  BY <1>5, <1>7, <1>8, <1>10
<1>12. \A role \in {"take_profit", "stop_loss"} \ legs :
                Recorded(t.end.rec, role) = Recorded(r, role)
  BY <1>6, <1>7 DEF y
<1> QED BY <1>9, <1>11, <1>12

-----------------------------------------------------------------------------
(* Which stage a job comes to *)

\* Stages a job comes to only where they are put first, or right after the
\* stage that leads to them.
Sticky == {"entry", "entry_gone", "fallback", "fallback_sent", "settle_target",
           "settle_stop", "record", "believe", "protect", "clear", "submit", "send"}

After(h) ==
    CASE h = "settle_target" -> {"settle_stop"}
      [] h = "settle_stop" -> {"record"}
      [] h = "take_off" -> {"submit"}
      [] h = "submit" -> {"send"}
      [] OTHER -> {}

\* The job is over, with nothing kept of it, or has come with r and l to a
\* stage that has something to do, of the sticky ones to one of S.
Comes(S, r, l) ==
    \/ todo' = <<>> /\ rec' = None /\ look' = NoLook
    \/ /\ rec' = r /\ look' = l
       /\ todo' \in Seq(Stage) /\ Ordered(todo') /\ todo' # <<>>
       /\ \E m : Applies(Head(todo'), r, l, m)
       /\ Head(todo') \in Sticky => Head(todo') \in S

\* A job that goes on comes to a sticky stage where it is put first.
LEMMA GoComes ==
    ASSUME NEW r, NEW l, NEW m, NEW stages \in Seq(Stage), Ordered(stages),
           Go(r, l, m, stages),
           NEW S, Len(stages) >= 1 /\ stages[1] \in Sticky => stages[1] \in S
    PROVE  Comes(S, r, l)
<1>1. CASE todo' = <<>> BY <1>1 DEF Comes, Go
<1>2. CASE todo' # <<>>
  <2>1. PICK k \in 1 .. Len(stages) :
          /\ todo' = SubSeq(stages, k, Len(stages))
          /\ Applies(stages[k], r, l, m)
          /\ \A i \in 1 .. k - 1 : ~Applies(stages[i], r, l, m)
    BY <1>2, GoLands
  <2>2. Ordered(todo') /\ todo' \in Seq(Stage)
    <3>1. k \in Nat \ {0} OBVIOUS
    <3> QED BY <2>1, <3>1, OrderedRest DEF Ordered
  <2>3. Head(todo') = stages[k]
    <3>1. todo'[1] = stages[k] BY <2>1
    <3> QED BY <1>2, <2>2, <3>1
  <2>4. rec' = r /\ look' = l BY <1>2 DEF Go
  <2>5. stages[k] \in Sticky => stages[k] \in S
    <3>1. CASE k = 1 BY <3>1
    <3>2. CASE k # 1
      <4>1. Follows(stages[k - 1], stages[k]) /\ ~Applies(stages[k - 1], r, l, m)
        BY <2>1, <3>2 DEF Ordered
      <4>2. stages[k] \in Sticky =>
              \/ stages[k] = "settle_stop" /\ stages[k - 1] = "settle_target"
              \/ stages[k] = "record" /\ stages[k - 1] = "settle_stop"
              \/ stages[k] = "submit" /\ stages[k - 1] = "take_off"
              \/ stages[k] = "send" /\ stages[k - 1] = "submit"
        BY <4>1 DEF Follows, Sticky
      <4>3. /\ stages[k - 1] \notin {"settle_target", "settle_stop"}
            /\ Applies("submit", r, l, m) <=> Applies("take_off", r, l, m)
            /\ Applies("submit", r, l, m) <=> Applies("send", r, l, m)
        BY <4>1 DEF Applies
      <4> QED BY <2>1, <4>1, <4>2, <4>3
    <3> QED BY <3>1, <3>2
  <2> QED BY <1>2, <2>1, <2>2, <2>3, <2>4, <2>5 DEF Comes
<1> QED BY <1>1, <1>2

\* A step goes on with the rest of the job...
LEMMA OnComes ==
    ASSUME todo \in Seq(Stage), Ordered(todo), todo # <<>>,
           NEW r, NEW l, NEW m, Go(r, l, m, Tail(todo))
    PROVE  Comes(After(Head(todo)), r, l)
<1>1. /\ Ordered(Tail(todo)) /\ Len(todo) \in Nat /\ Len(todo) >= 1
      /\ Head(todo) = todo[1] /\ Len(Tail(todo)) = Len(todo) - 1
      /\ \A i \in 1 .. Len(Tail(todo)) : Tail(todo)[i] = todo[i + 1]
  BY OrderedTail
<1>2. Tail(todo) \in Seq(Stage) BY <1>1 DEF Ordered
<1>3. ASSUME Len(Tail(todo)) >= 1, Tail(todo)[1] \in Sticky
      PROVE  Tail(todo)[1] \in After(Head(todo))
  <2>1. 2 \in 2 .. Len(todo) /\ 1 \in 1 .. Len(Tail(todo)) BY <1>1, <1>3
  <2>2. Tail(todo)[1] = todo[2] /\ Follows(todo[1], todo[2]) BY <1>1, <2>1 DEF Ordered
  <2> DEFINE a == todo[1]
             b == todo[2]
  <2>3. Follows(a, b) /\ b \in Sticky BY <1>3, <2>2
  <2> HIDE DEF a, b
  <2>4. b \in After(a)
    <3>1. \/ b = "settle_stop" /\ a = "settle_target"
          \/ b = "record" /\ a = "settle_stop"
          \/ b = "submit" /\ a = "take_off"
          \/ b = "send" /\ a = "submit"
      BY <2>3 DEF Follows, Sticky
    <3> QED BY <3>1 DEF After
  <2> QED BY <1>1, <2>2, <2>4 DEF a, b
<1> QED BY <1>2, <1>1, <1>3, GoComes

\* ... or with other stages before it...
LEMMA DoComes ==
    ASSUME todo \in Seq(Stage), Ordered(todo), todo # <<>>, Head(todo) \notin Leads,
           NEW s \in Seq(Stage), Ordered(s), s # <<>>,
           s[Len(s)] \notin {"settle_target", "settle_stop"},
           NEW r, NEW l, NEW m, Go(r, l, m, s \o Tail(todo))
    PROVE  Comes({s[1]}, r, l)
<1>1. /\ Tail(todo) = SubSeq(todo, 2, Len(todo)) /\ Len(todo) \in Nat /\ Len(todo) >= 1
      /\ Head(todo) = todo[1]
  BY OrderedTail
<1> DEFINE t == s \o Tail(todo)
<1>2. Ordered(t) /\ t # <<>> /\ t[1] = s[1]
  <2>1. 2 \in Nat /\ 2 >= 2 /\ (2 <= Len(todo) => todo[2 - 1] \notin Leads)
    BY <1>1
  <2>2. /\ Ordered(s \o SubSeq(todo, 2, Len(todo))) /\ s \o SubSeq(todo, 2, Len(todo)) # <<>>
        /\ (s \o SubSeq(todo, 2, Len(todo)))[1] = s[1]
    BY <2>1, Prepended
  <2> QED BY <1>1, <2>2
<1>3. Go(r, l, m, t) OBVIOUS
<1> HIDE DEF t
<1>4. t \in Seq(Stage) BY <1>2 DEF Ordered
<1> QED BY <1>2, <1>3, <1>4, GoComes

\* ... of which there may be one, or none: the job is over then.
LEMMA ViaComes ==
    ASSUME todo \in Seq(Stage), Ordered(todo), todo # <<>>, Head(todo) \notin Leads,
           NEW h \in {"believe", "protect", "clear", "entry_gone", "losers"},
           NEW r, NEW l, NEW m, Go(r, l, m, <<h>> \o Tail(todo))
    PROVE  Comes({h}, r, l)
<1> DEFINE s == <<h>>
<1>1. s \in Seq(Stage) /\ s # <<>> /\ Len(s) = 1 /\ s[1] = h BY DEF Stage
<1>2. Ordered(s) BY StagesOrdered DEF Stage
<1>3. Go(r, l, m, s \o Tail(todo)) OBVIOUS
<1> HIDE DEF s
<1>4. s[Len(s)] \notin {"settle_target", "settle_stop"} BY <1>1
<1>5. Comes({s[1]}, r, l) BY <1>1, <1>2, <1>3, <1>4, DoComes
<1> QED BY <1>1, <1>5

\* A single stage, ...
LEMMA OneComes ==
    ASSUME NEW h \in Stage, NEW r, NEW l, NEW m, Go(r, l, m, <<h>>)
    PROVE  Comes({h}, r, l)
<1> DEFINE s == <<h>>
<1>1. s \in Seq(Stage) /\ s # <<>> /\ Len(s) = 1 /\ s[1] = h OBVIOUS
<1>2. Ordered(s) BY StagesOrdered
<1>3. Go(r, l, m, s) OBVIOUS
<1> HIDE DEF s
<1> QED BY <1>1, <1>2, <1>3, GoComes

\* ... and none.
LEMMA EndComes ==
    ASSUME NEW r, NEW l, NEW m, Go(r, l, m, <<>>)
    PROVE  Comes({}, r, l) /\ todo' = <<>> /\ rec' = None /\ look' = NoLook
  BY DEF Go, Comes

\* A close is put before the rest of a job.
LEMMA CloseComes ==
    ASSUME todo \in Seq(Stage), Ordered(todo), todo # <<>>, Head(todo) \notin Leads,
           NEW r, NEW l, NEW m, Go(r, l, m, CloseStages \o Tail(todo))
    PROVE  Comes({}, r, l)
<1> DEFINE s == CloseStages
<1>1. /\ s \in Seq(Stage) /\ s # <<>> /\ Len(s) = 4 /\ s[1] = "sync" /\ s[4] = "send"
  BY DEF CloseStages, Stage
<1>2. Ordered(s) BY StagesOrdered
<1>3. Go(r, l, m, s \o Tail(todo)) OBVIOUS
<1> HIDE DEF s
<1>4. s[Len(s)] \notin {"settle_target", "settle_stop"} BY <1>1
<1>5. Comes({s[1]}, r, l) BY <1>1, <1>2, <1>3, <1>4, DoComes
<1>6. s[1] \notin Sticky BY <1>1 DEF Sticky
<1> QED BY <1>5, <1>6 DEF Comes

\* protect()'s own stages.
LEMMA LegsCome ==
    ASSUME todo \in Seq(Stage), Ordered(todo), todo # <<>>, Head(todo) \notin Leads,
           NEW r, NEW l, NEW m,
           Go(r, l, m, <<"settle_target", "settle_stop", "record">> \o Tail(todo))
    PROVE  Comes({"settle_target"}, r, l)
<1> DEFINE s == <<"settle_target", "settle_stop", "record">>
<1>1. s \in Seq(Stage) /\ s # <<>> /\ Len(s) = 3 /\ s[1] = "settle_target" /\ s[3] = "record"
  BY DEF Stage
<1>2. Ordered(s) BY StagesOrdered
<1>3. Go(r, l, m, s \o Tail(todo)) OBVIOUS
<1> HIDE DEF s
<1>4. s[Len(s)] \notin {"settle_target", "settle_stop"} BY <1>1
<1>5. Comes({s[1]}, r, l) BY <1>1, <1>2, <1>3, <1>4, DoComes
<1> QED BY <1>1, <1>5

\* A leg that filled: on with what comes after the legs.
LEMMA PastComes ==
    ASSUME todo \in Seq(Stage), Ordered(todo), todo # <<>>,
           NEW k \in {3, 4}, Head(todo) = IF k = 4 THEN "settle_target" ELSE "settle_stop",
           NEW r, NEW l, NEW m, Go(r, l, m, <<"losers">> \o SubSeq(todo, k, Len(todo)))
    PROVE  Comes({}, r, l)
<1> DEFINE s == <<"losers">>
           t == s \o SubSeq(todo, k, Len(todo))
<1>1. /\ Len(todo) \in Nat /\ Len(todo) >= 1 /\ Head(todo) = todo[1] BY OrderedTail
<1>3. \A i \in 2 .. Len(todo) : Follows(todo[i - 1], todo[i]) BY DEF Ordered
<1>4. k <= Len(todo) => todo[k - 1] = "record"
  <2>1. CASE k = 3 /\ 3 <= Len(todo)
    <3>1. Follows(todo[2 - 1], todo[2]) BY <1>1, <1>3, <2>1
    <3>2. todo[2] = "record" BY <1>1, <2>1, <3>1 DEF Follows
    <3>3. QED BY <2>1, <3>2
  <2>2. CASE k = 4 /\ 4 <= Len(todo)
    <3>1. Follows(todo[2 - 1], todo[2]) /\ Follows(todo[3 - 1], todo[3]) BY <1>1, <1>3, <2>2
    <3>2. todo[2] = "settle_stop" BY <1>1, <2>2, <3>1 DEF Follows
    <3>3. todo[3] = "record" BY <3>1, <3>2 DEF Follows
    <3>4. QED BY <2>2, <3>3
  <2>3. QED BY <2>1, <2>2
<1>5. /\ s \in Seq(Stage) /\ s # <<>> /\ Len(s) = 1 /\ s[1] = "losers" BY DEF Stage
<1>6. Ordered(s) BY StagesOrdered DEF Stage
<1>7. s[Len(s)] \notin {"settle_target", "settle_stop"} BY <1>5
<1>8. k <= Len(todo) => todo[k - 1] \notin Leads BY <1>4 DEF Leads
<1>9. Go(r, l, m, t) OBVIOUS
<1> HIDE DEF s
<1>10. Ordered(t) /\ t # <<>> /\ t[1] = "losers"
  <2>1. k \in Nat /\ k >= 2 OBVIOUS
  <2>2. QED BY <1>5, <1>6, <1>7, <1>8, <2>1, Prepended
<1>11. t \in Seq(Stage) BY <1>10 DEF Ordered
<1> HIDE DEF t
<1>12. t[1] \notin Sticky BY <1>10 DEF Sticky
<1> QED BY <1>9, <1>10, <1>11, <1>12, GoComes

-----------------------------------------------------------------------------
(* One stop and one target at a time: what is known between the steps *)

\* Every copy of the record, and what the job has read.
CopiesProper ==
    /\ trade # None => Proper(trade)
    /\ ~Idle => Proper(rec) /\ Proper(trade) /\ LookProper(look)
    /\ Idle => rec = None /\ look = NoLook
    /\ Underway => Proper(opening.rec)

\* What is known of the record a job comes to a stage with.
HeadProper(h, r) ==
    /\ h \in {"cover", "protect"} => r.position < 0 /\ Room(r)
    /\ h \in {"settle_target", "settle_stop", "record"} => r.position < 0 /\ Room(r)
    /\ h \in {"take_off", "submit", "send"} => r.position < 0
    /\ h = "send" => r.closing \in Closing /\ Spare(r, 1)
    /\ h = "target" => r.takeProfit # None
    /\ h = "stop" => r.stopLoss # None
    /\ h = "follow" => r.closing # None

JobProper == Ordered(todo) /\ (~Idle => HeadProper(Head(todo), rec))

\* What protect() has not settled yet of the legs that rest it has read: the
\* list misses none.
BookRead ==
    /\ At("settle_target") => \A o \in Legs : Resting(venue, o) => o \in DOMAIN look.book
    /\ At("settle_stop") => \A o \in Stops : Resting(venue, o) => o \in DOMAIN look.book

OneInv ==
    /\ BooksInv /\ Accounts(venue) /\ CopiesProper /\ JobProper
    /\ Complete => OneOfEach /\ BookRead

\* A job goes on, or begins, with r and l: at a stage of S where it is sticky.
Does(S, r, l) ==
    /\ Comes(S, r, l) /\ Proper(r) /\ LookProper(l)
    /\ trade' = r \/ trade' = trade
    /\ UNCHANGED opening \/ ~Underway'
    /\ S \cap {"settle_target", "settle_stop", "record"} # {} => r.position < 0 /\ Room(r)
    /\ "send" \in S => r.closing \in Closing /\ Spare(r, 1)

\* What a step does to the orders of the book.
Reads(S, l) ==
    /\ Accounts(venue')
    /\ Complete =>
         /\ OneIn(venue', Targets) /\ OneIn(venue', Stops)
         /\ "settle_target" \in S => \A o \in Legs : Resting(venue', o) => o \in DOMAIN l.book
         /\ "settle_stop" \in S => \A o \in Stops : Resting(venue', o) => o \in DOMAIN l.book

Acts == \E S, r, l : Does(S, r, l) /\ Reads(S, l)

\* What a job has read is kept proper as it reads more.
LEMMA LooksProper ==
    /\ LookProper(NoLook)
    /\ \A l : LookProper(l) =>
         /\ \A b : LookProper([l EXCEPT !.entryOpen = b]) /\ LookProper([l EXCEPT !.fallback = b])
         /\ \A b : LookProper([l EXCEPT !.heard = b])
         /\ \A n \in -2 * Requested .. 2 * Requested : LookProper([l EXCEPT !.net = n])
         /\ \A n \in 0 .. 2 * Requested : \A b : LookProper([l EXCEPT !.want = n, !.all = b])
    /\ \A n \in 0 .. 2 * Requested : LookProper([NoLook EXCEPT !.want = n])
    /\ \A b : LookProper([NoLook EXCEPT !.limit = b])
<1>1. /\ NoLook.book = <<>> /\ DOMAIN NoLook.book = {}
      /\ NoLook.book \in [DOMAIN NoLook.book -> OrderState]
  BY DEF NoLook
<1>2. LookProper(NoLook) BY <1>1, PlanAssumption DEF LookProper, NoLook
<1>3. ASSUME NEW l, LookProper(l)
      PROVE  /\ \A b : LookProper([l EXCEPT !.entryOpen = b]) /\ LookProper([l EXCEPT !.fallback = b])
             /\ \A b : LookProper([l EXCEPT !.heard = b]) /\ LookProper([l EXCEPT !.limit = b])
             /\ \A n \in -2 * Requested .. 2 * Requested : LookProper([l EXCEPT !.net = n])
             /\ \A n \in 0 .. 2 * Requested : LookProper([l EXCEPT !.want = n])
             /\ \A n \in 0 .. 2 * Requested : \A b : LookProper([l EXCEPT !.want = n, !.all = b])
  <2>1. DOMAIN l = {"entryOpen", "fallback", "heard", "want", "all", "limit", "net",
                    "book", "size", "takeProfit", "stopLoss", "failed"}
    BY <1>3 DEF LookProper, NoLook
  <2> QED BY <1>3, <2>1 DEF LookProper
<1> QED BY <1>2, <1>3

\* What a record and its fills come to, of a venue whose account is in order.
LEMMA ProperBound ==
    ASSUME NEW v, Accounts(v), NEW s, Backed(v, s), Proper(s)
    PROVE  /\ s.entrySize \in 0 .. 2 * Requested /\ s.exitSize \in 0 .. 2 * Requested
           /\ s.position \in -2 * Requested .. 2 * Requested
           /\ Held(s) \in 0 .. 2 * Requested
           /\ MaxExits <= MaxMarks => s \in TradeRecord
<1> DEFINE f == [o \in Order |-> v.order[o].filled]
<1>1. /\ Sold(v) \in 0 .. 2 * Requested /\ Bought(v) \in 0 .. 2 * Requested
      /\ \A o \in Exits : v.order[o].filled \in 0 .. 2 * Requested
      /\ \A o \in Entries : v.order[o].filled \in 0 .. Requested
      /\ Requested \in Nat \ {0}
  BY AccountsSay, PlanAssumption
<1>2. /\ s \in Ledger /\ s.booked \in [Order -> Nat]
      /\ s.entrySize = s.booked[Entry] + s.booked[FallbackEntry]
      /\ s.exitSize = Total(s.booked)
      /\ s.position = s.exitSize - s.entrySize \/ s.position \in -2 * Requested .. 2 * Requested
  BY DEF Proper, Ledger
<1>3. \A o \in Order : s.booked[o] <= v.order[o].filled /\ s.booked[o] \in Nat
  BY <1>2 DEF Backed
<1>4. s.entrySize \in 0 .. 2 * Requested
  BY <1>1, <1>2, <1>3, Elements
<1>5. s.exitSize \in 0 .. 2 * Requested
  <2>1. \A o \in Exits : f[o] = v.order[o].filled /\ o \in Order BY LegsAreExits
  <2>2. Bought(v) = Total(f) BY DEF Bought
  <2> HIDE DEF f
  <2>3. \A o \in Exits : /\ f[o] \in Int /\ s.booked[o] \in Int /\ s.booked[o] <= f[o]
    BY <1>1, <1>3, <2>1
  <2>4. Total(s.booked) \in Int /\ Total(s.booked) <= Total(f) BY <2>3, Totals
  <2>5. s.exitSize \in Nat BY <1>2 DEF Ledger
  <2> QED BY <1>1, <1>2, <2>2, <2>4, <2>5
<1>6. s.position \in -2 * Requested .. 2 * Requested BY <1>1, <1>2, <1>4, <1>5
<1>7. Held(s) \in 0 .. 2 * Requested BY <1>1, <1>6 DEF Held, Abs
<1>8. MaxExits <= MaxMarks => s \in TradeRecord
  <2> HAVE MaxExits <= MaxMarks
  <2>1. s.marks \in 0 .. MaxMarks
    BY RoomSpares DEF Proper, Spare
  <2>2. s.booked \in [Order -> 0 .. 2 * Requested]
    <3>1. \A o \in Order : s.booked[o] \in 0 .. 2 * Requested
      BY <1>1, <1>3 DEF Order
    <3> QED BY <1>2, <3>1
  <2>3. s.takeProfit \in Targets \cup Closes \cup {None}
    BY <1>2 DEF Ledger, Shape
  <2> QED BY <1>2, <1>4, <1>5, <1>6, <2>1, <2>2, <2>3 DEF Ledger, TradeRecord
<1> QED BY <1>4, <1>5, <1>6, <1>7, <1>8

\* What a step of a job starts from.
LEMMA RunningProper ==
    ASSUME OneInv, ~Idle
    PROVE  /\ Sound(venue) /\ Accounts(venue) /\ Backed(venue, rec)
           /\ Proper(rec) /\ Proper(trade) /\ LookProper(look)
           /\ Held(rec) \in 0 .. 2 * Requested
           /\ todo \in Seq(Stage) /\ Ordered(todo) /\ todo # <<>>
           /\ HeadProper(Head(todo), rec)
           /\ Complete => OneIn(venue, Targets) /\ OneIn(venue, Stops)
           /\ Only(venue, venue, {})
<1>1. Sound(venue) /\ Accounts(venue) /\ Backed(venue, rec) BY DEF OneInv, BooksInv
<1>2. Only(venue, venue, {}) BY <1>1, OnlyOn
<1>3. /\ Proper(rec) /\ Proper(trade) /\ LookProper(look)
      /\ todo \in Seq(Stage) /\ Ordered(todo) /\ todo # <<>>
      /\ HeadProper(Head(todo), rec)
  BY DEF OneInv, CopiesProper, JobProper, Ordered, Idle
<1>4. Held(rec) \in 0 .. 2 * Requested BY <1>1, <1>3, ProperBound
<1>5. Complete => OneIn(venue, Targets) /\ OneIn(venue, Stops)
  BY DEF OneInv, OneOfEach, OneIn
<1> QED BY <1>1, <1>2, <1>3, <1>4, <1>5

\* With no leg put on there is one of each as before.
LEMMA ReadsOn ==
    ASSUME OneInv, Only(venue, venue', {}), NEW S, NEW l,
           S \cap {"settle_target", "settle_stop"} = {}
    PROVE  Reads(S, l)
<1>1. Targets \subseteq Legs /\ Stops \subseteq Legs BY DEF Legs
<1>2. Complete => OneIn(venue, Targets) /\ OneIn(venue, Stops)
  BY DEF OneInv, OneOfEach, OneIn
<1>3. Complete => OneIn(venue', Targets) /\ OneIn(venue', Stops)
  BY <1>1, <1>2, OneStays
<1>4. Accounts(venue') BY DEF OneInv, Only
<1> QED BY <1>3, <1>4 DEF Reads

\* A step that puts no leg on, with the rest of the job...
LEMMA ActsOn ==
    ASSUME OneInv, ~Idle, Only(venue, venue', {}),
           Head(todo) \notin {"settle_target", "settle_stop", "submit"},
           NEW r, NEW l, NEW m, Go(r, l, m, Tail(todo)), Proper(r), LookProper(l),
           trade' = r \/ trade' = trade, UNCHANGED opening
    PROVE  Acts
<1>1. Comes(After(Head(todo)), r, l) BY RunningProper, OnComes
<1>2. After(Head(todo)) \subseteq {"submit"} BY DEF After
<1>3. Does(After(Head(todo)), r, l) BY <1>1, <1>2 DEF Does
<1>4. Reads(After(Head(todo)), l) BY <1>2, ReadsOn
<1> QED BY <1>3, <1>4 DEF Acts

\* ... or at a stage before it, or over.
LEMMA ActsAt ==
    ASSUME OneInv, Only(venue, venue', {}),
           NEW S, S \cap {"settle_target", "settle_stop", "record", "send"} = {},
           NEW r, NEW l, Comes(S, r, l), Proper(r), LookProper(l),
           trade' = r \/ trade' = trade, UNCHANGED opening
    PROVE  Acts
<1>1. Does(S, r, l) BY DEF Does
<1>2. Reads(S, l) BY ReadsOn
<1> QED BY <1>1, <1>2 DEF Acts

\* The entry looked at, a leg, the position, and a close waited for.
LEMMA LookEntryActs ==
    ASSUME OneInv, ~Idle, LookEntry
    PROVE  Acts
<1> DEFINE r == AbsorbOf(venue, rec, Entry)
           l == [look EXCEPT !.entryOpen = Resting(venue, Entry)]
<1>1. Head(todo) = "entry" /\ UNCHANGED <<opening, mem, venue>>
  BY DEF LookEntry, At
<1>2. \/ (trade' = r \/ trade' = trade) /\ Go(r, l, mem, Tail(todo))
      \/ UNCHANGED trade /\ Go(rec, look, mem, Tail(todo))
  BY DEF LookEntry, SaveIfChanged, On
<1>3. Proper(r) /\ LookProper(l)
  BY RunningProper, ReadProper, Elements, LooksProper
<1>4. Only(venue, venue', {}) BY <1>1, RunningProper
<1> HIDE DEF r, l
<1> QED BY <1>1, <1>2, <1>3, <1>4, RunningProper, ActsOn

\* A leg read back leaves a record.
LEMMA LegReadProper ==
    ASSUME Sound(venue), NEW r, Proper(r), NEW role \in {"take_profit", "stop_loss"},
           Recorded(r, role) # None
    PROVE  Proper(LegRead(r, role))
<1>1. Recorded(r, role) \in Order BY OneStays, LegsAreExits DEF Recorded, Proper, Ledger, Legs
<1>2. Proper(AbsorbOf(venue, r, Recorded(r, role))) BY <1>1, ReadProper
<1> QED BY <1>2, EventsProper DEF LegRead

\* A leg looked at, a close waited for, the position read.
LEMMA LooksActs ==
    ASSUME OneInv, ~Idle,
           LookLeg("take_profit") \/ LookLeg("stop_loss") \/ FollowUpWaits \/ Sync
    PROVE  Acts
<1>1. CASE LookLeg("take_profit") \/ LookLeg("stop_loss")
  <2>1. PICK role \in {"take_profit", "stop_loss"} : LookLeg(role) BY <1>1
  <2>2. /\ Head(todo) = IF role = "take_profit" THEN "target" ELSE "stop"
        /\ UNCHANGED <<opening, mem, venue>>
        /\ \E r \in {rec, LegRead(rec, role)} :
             Go(r, look, mem, Tail(todo)) /\ (trade' = r \/ trade' = trade)
    BY <2>1 DEF LookLeg, At, SaveIfChanged, On
  <2>3. PICK r \in {rec, LegRead(rec, role)} :
             Go(r, look, mem, Tail(todo)) /\ (trade' = r \/ trade' = trade)
    BY <2>2
  <2>4. Recorded(rec, role) # None BY <2>2, RunningProper DEF HeadProper, Recorded
  <2>5. Proper(r) BY <2>3, <2>4, RunningProper, LegReadProper
  <2>6. Only(venue, venue', {}) BY <2>2, RunningProper
  <2> QED BY <2>2, <2>3, <2>5, <2>6, RunningProper, ActsOn
<1>2. CASE FollowUpWaits
  <2>1. /\ Head(todo) = "follow" /\ Go(rec, look, mem, Tail(todo))
        /\ UNCHANGED <<trade, opening, mem, venue>>
    BY <1>2 DEF FollowUpWaits, At, On
  <2>2. Only(venue, venue', {}) BY <2>1, RunningProper
  <2> QED BY <2>1, <2>2, RunningProper, ActsOn
<1>3. CASE Sync
  <2>1. /\ Head(todo) = "sync" /\ UNCHANGED <<trade, opening, mem, venue>>
        /\ \/ Go(rec, look, mem, Tail(todo))
           \/ Go(rec, [look EXCEPT !.net = venue.net], mem, <<"believe">> \o Tail(todo))
    BY <1>3 DEF Sync, At, On
  <2>2. Only(venue, venue', {}) BY <2>1, RunningProper
  <2>3. CASE Go(rec, look, mem, Tail(todo)) BY <2>1, <2>2, <2>3, RunningProper, ActsOn
  <2>4. CASE Go(rec, [look EXCEPT !.net = venue.net], mem, <<"believe">> \o Tail(todo))
    <3>0. venue.net \in -2 * Requested .. 2 * Requested
      BY RunningProper, AccountsSay DEF VenueState
    <3>1. LookProper([look EXCEPT !.net = venue.net]) BY <3>0, RunningProper, LooksProper
    <3>2. Head(todo) \notin Leads BY <2>1 DEF Leads
    <3>3. Comes({"believe"}, rec, [look EXCEPT !.net = venue.net])
      BY <2>4, <3>2, RunningProper, ViaComes
    <3> QED BY <2>1, <2>2, <3>1, <3>3, RunningProper, ActsAt
  <2> QED BY <2>1, <2>3, <2>4
<1> QED BY <1>1, <1>2, <1>3

\* The entry's time is up: its cancel puts nothing on.
LEMMA CancelOverdueActs ==
    ASSUME OneInv, ~Idle, CancelOverdue
    PROVE  Acts
<1>1. /\ Head(todo) = "overdue" /\ UNCHANGED opening
      /\ venue' = venue \/ venue' = Cancel(venue, Entry)
      /\ trade' = rec \/ trade' = trade
      /\ \/ \E b : Go(rec, [look EXCEPT !.fallback = b], mem, <<"entry_gone">> \o Tail(todo))
         \/ Go(rec, look, mem, Tail(todo))
  BY DEF CancelOverdue, At, Save, On
<1>2. Only(venue, venue', {}) BY <1>1, RunningProper, CancelOnly, Elements
<1>3. ASSUME NEW b, Go(rec, [look EXCEPT !.fallback = b], mem, <<"entry_gone">> \o Tail(todo))
      PROVE  Acts
  <2>1. LookProper([look EXCEPT !.fallback = b]) BY RunningProper, LooksProper
  <2>2. Head(todo) \notin Leads BY <1>1 DEF Leads
  <2>3. Comes({"entry_gone"}, rec, [look EXCEPT !.fallback = b])
    BY <1>3, <2>2, RunningProper, ViaComes
  <2> QED BY <1>1, <1>2, <2>1, <2>3, RunningProper, ActsAt
<1>4. CASE Go(rec, look, mem, Tail(todo)) BY <1>1, <1>2, <1>4, RunningProper, ActsOn
<1> QED BY <1>1, <1>3, <1>4

\* The entry read back.
LEMMA EntryGoneActs ==
    ASSUME OneInv, ~Idle, EntryGone
    PROVE  Acts
<1>1. /\ Head(todo) = "entry_gone" /\ UNCHANGED <<opening, mem, venue>>
      /\ \E r \in {rec, AbsorbOf(venue, rec, Entry)} :
           /\ trade' = EntryCancelled(r)
           /\ Go(EntryCancelled(r), look, mem,
                 IF r.position # 0 THEN Tail(todo)
                 ELSE IF look.fallback THEN <<"fallback">> ELSE <<>>)
  BY DEF EntryGone, At, Save
<1>2. PICK r \in {rec, AbsorbOf(venue, rec, Entry)} :
           /\ trade' = EntryCancelled(r)
           /\ Go(EntryCancelled(r), look, mem,
                 IF r.position # 0 THEN Tail(todo)
                 ELSE IF look.fallback THEN <<"fallback">> ELSE <<>>)
  BY <1>1
<1>3. Proper(EntryCancelled(r)) BY <1>2, RunningProper, ReadProper, Elements, EventsProper
<1>4. Only(venue, venue', {}) BY <1>1, RunningProper
<1> DEFINE s == EntryCancelled(r)
<1>5. trade' = s BY <1>2
<1>6. CASE Go(s, look, mem, Tail(todo))
  <2> HIDE DEF s
  <2> QED BY <1>1, <1>3, <1>4, <1>5, <1>6, RunningProper, ActsOn DEF s
<1>7. CASE Go(s, look, mem, <<"fallback">>)
  <2>1. Comes({"fallback"}, s, look) BY <1>7, OneComes DEF Stage
  <2> QED BY <1>1, <1>3, <1>4, <1>5, <2>1, RunningProper, ActsAt
<1>8. CASE Go(s, look, mem, <<>>)
  <2>1. Comes({}, s, look) BY <1>8, EndComes
  <2> QED BY <1>1, <1>3, <1>4, <1>5, <2>1, RunningProper, ActsAt
<1> QED BY <1>2, <1>6, <1>7, <1>8

\* The entry placed again at the market...
LEMMA PlaceFallbackActs ==
    ASSUME OneInv, ~Idle, PlaceFallback
    PROVE  Acts
<1>1. /\ Head(todo) = "fallback" /\ UNCHANGED opening
      /\ \/ venue' = venue \/ venue' \in MarketOutcomes(venue, FallbackEntry, Requested)
         \/ venue' = Unfilled(venue, FallbackEntry, Requested)
      /\ \/ Go(trade, NoLook, mem, <<"fallback_sent">>) /\ UNCHANGED trade
         \/ Go(trade, NoLook, mem, <<>>)
            /\ trade' \in {Aborted(trade), EntrySubmitUnknown(trade)}
  BY DEF PlaceFallback, At, Save
<1>2. Only(venue, venue', {})
  <2>0. Requested \in 0 .. 2 * Requested BY PlanAssumption
  <2>1. \/ Only(venue, venue', {}) \/ Only(venue, venue', {FallbackEntry})
    BY <1>1, <2>0, RunningProper, OutcomesOnly, Elements
  <2>2. {FallbackEntry} \cap Legs \subseteq {} BY Elements, LegsAreExits
  <2> QED BY <2>1, <2>2, OneStays
<1>3. CASE Go(trade, NoLook, mem, <<"fallback_sent">>) /\ UNCHANGED trade
  <2>1. Comes({"fallback_sent"}, trade, NoLook) BY <1>3, OneComes DEF Stage
  <2> QED BY <1>1, <1>2, <1>3, <2>1, RunningProper, LooksProper, ActsAt
<1>4. CASE Go(trade, NoLook, mem, <<>>)
            /\ trade' \in {Aborted(trade), EntrySubmitUnknown(trade)}
  <2>1. todo' = <<>> /\ rec' = None /\ look' = NoLook BY <1>4, EndComes
  <2>2. PICK s \in {Aborted(trade), EntrySubmitUnknown(trade)} : trade' = s BY <1>4
  <2>3. Proper(s) BY <2>2, RunningProper, EventsProper
  <2>4. Comes({}, s, NoLook) BY <2>1 DEF Comes
  <2> QED BY <1>1, <1>2, <2>2, <2>3, <2>4, LooksProper, ActsAt
<1> QED BY <1>1, <1>3, <1>4

\* ... and its answer.
LEMMA FallbackSentActs ==
    ASSUME OneInv, ~Idle, FallbackSent
    PROVE  Acts
<1> DEFINE r == AbsorbOf(venue, rec, FallbackEntry)
<1>1. /\ Head(todo) = "fallback_sent" /\ UNCHANGED <<opening, mem, venue>>
      /\ trade' = r \/ trade' = trade
      /\ Go(r, look, mem, <<"protect">> \o Tail(todo))
  BY DEF FallbackSent, At, SaveIfChanged, Do
<1>2. Head(todo) \notin Leads BY <1>1 DEF Leads
<1>3. Proper(r) BY RunningProper, ReadProper, Elements
<1> HIDE DEF r
<1>4. Comes({"protect"}, r, look) BY <1>1, <1>2, RunningProper, ViaComes
<1>5. Only(venue, venue', {}) BY <1>1, RunningProper
<1> QED BY <1>1, <1>3, <1>4, <1>5, RunningProper, ActsAt

\* protect() reads what rests, and all of it where the list misses none.
LEMMA ReadBookActs ==
    ASSUME OneInv, ~Idle, ReadBook
    PROVE  Acts
<1>0. Head(todo) \in {"cover", "protect"} /\ UNCHANGED <<trade, opening, venue>>
  BY DEF ReadBook, At
<1>1. Only(venue, venue', {}) BY <1>0, RunningProper
<1>2. Head(todo) \notin Leads BY <1>0 DEF Leads
<1>3. rec.position < 0 /\ Room(rec) /\ Proper(rec) BY <1>0, RunningProper DEF HeadProper
<1> DEFINE own == {o \in Exits : Resting(venue, o)}
           over(book) == [look EXCEPT !.book = book, !.size = Size, !.failed = {},
                                      !.takeProfit = None, !.stopLoss = None]
           part(missed) == [o \in own \ missed |-> venue.order[o]]
<1>5. \/ Go(rec, look, mem, <<"clear">> \o Tail(todo))
      \/ Go(rec, look, mem, Tail(todo))
      \/ \E missed \in SUBSET own :
           /\ Complete => missed = {}
           /\ Go(rec, over(part(missed)), mem,
                 <<"settle_target", "settle_stop", "record">> \o Tail(todo))
  <2>1. ASSUME NEW missed \in {{}} \cup {{o} : o \in Exits}, missed \subseteq own,
               IF missed = {} THEN NoFault ELSE Fault("list"),
               Go(rec, over(part(missed)), mem,
                  <<"settle_target", "settle_stop", "record">> \o Tail(todo))
        PROVE  \E m \in SUBSET own :
           /\ Complete => m = {}
           /\ Go(rec, over(part(m)), mem,
                 <<"settle_target", "settle_stop", "record">> \o Tail(todo))
    <3>1. Complete => missed = {} BY <2>1 DEF Fault, Complete
    <3> HIDE DEF own, over, part
    <3> QED BY <2>1, <3>1
  <2> QED BY <2>1, Zenon DEF ReadBook, Do, On
<1>6. CASE Go(rec, look, mem, <<"clear">> \o Tail(todo))
  <2>1. Comes({"clear"}, rec, look) BY <1>2, <1>6, RunningProper, ViaComes
  <2> QED BY <1>0, <1>1, <2>1, RunningProper, ActsAt
<1>7. CASE Go(rec, look, mem, Tail(todo))
  BY <1>0, <1>1, <1>7, RunningProper, ActsOn
<1>8. ASSUME NEW missed \in SUBSET own, Complete => missed = {},
             Go(rec, over(part(missed)), mem,
                <<"settle_target", "settle_stop", "record">> \o Tail(todo))
      PROVE  Acts
  <2> DEFINE book == part(missed)
             l == over(book)
  <2>0. DOMAIN book = own \ missed /\ own \subseteq Exits /\ Exits \subseteq Order
    BY LegsAreExits
  <2>1. book \in [DOMAIN book -> OrderState]
    <3>1. \A o \in own \ missed : venue.order[o] \in OrderState
      BY <2>0, RunningProper, AccountsSay
    <3> HIDE DEF own
    <3> QED BY <3>1
  <2>2. /\ DOMAIN l = DOMAIN look /\ l.takeProfit = None /\ l.stopLoss = None /\ l.book = book
        /\ l.size = Held(rec) /\ l.want = look.want /\ l.net = look.net
    <3>1. DOMAIN look = {"entryOpen", "fallback", "heard", "want", "all", "limit", "net",
                    "book", "size", "takeProfit", "stopLoss", "failed"}
      BY RunningProper DEF LookProper, NoLook
    <3> HIDE DEF book
    <3> QED BY <3>1 DEF Size
  <2>3. Go(rec, l, mem, <<"settle_target", "settle_stop", "record">> \o Tail(todo)) BY <1>8
  <2> HIDE DEF book, over
  <2>4. Comes({"settle_target"}, rec, l) BY <1>2, <2>3, RunningProper, LegsCome
  <2> HIDE DEF l
  <2>5. LookProper(l) BY <2>0, <2>1, <2>2, RunningProper DEF LookProper
  <2>6. Does({"settle_target"}, rec, l) BY <1>0, <1>3, <2>4, <2>5, RunningProper DEF Does
  <2>7. Complete => \A o \in Legs : Resting(venue', o) => o \in DOMAIN l.book
    BY <1>0, <1>8, <2>0, <2>2, LegsAreExits
  <2>8. Accounts(venue') BY <1>0, RunningProper
  <2>9. Reads({"settle_target"}, l) BY <1>0, <2>7, <2>8, RunningProper DEF Reads
  <2> QED BY <2>6, <2>9 DEF Acts
<1> QED BY <1>5, <1>6, <1>7, <1>8

\* A leg is settled among those of its kind that rest.
LEMMA SettleLegActs ==
    ASSUME OneInv, ~Idle, NEW role \in {"take_profit", "stop_loss"}, SettleLeg(role)
    PROVE  Acts
<1> DEFINE side == IF role = "take_profit" THEN "takeProfit" ELSE "stopLoss"
           next(leg) == [look EXCEPT ![side] = leg.id,
                                     !.failed = IF leg.failed THEN @ \cup {role} ELSE @]
           k == IF role = "take_profit" THEN 4 ELSE 3
<1>1. /\ Head(todo) = IF role = "take_profit" THEN "settle_target" ELSE "settle_stop"
      /\ UNCHANGED <<opening, mem>>
  BY DEF SettleLeg, At
<1>2. PICK leg \in Settled(role) :
        /\ venue' = leg.venue
        /\ SaveIfChanged(leg.rec)
        /\ IF leg.filled
             THEN Go(leg.rec, look, mem, <<"losers">> \o SubSeq(todo, k, Len(todo)))
             ELSE Go(rec, next(leg), mem, Tail(todo))
  BY Zenon DEF SettleLeg
<1>3. rec.position < 0 /\ Room(rec) /\ rec.marks \in 0 .. MaxMarks
  BY <1>1, RunningProper, RoomSpares DEF HeadProper
<1>4. Complete => /\ OneIn(venue, Kin(role))
                  /\ \A o \in Kin(role) : Resting(venue, o) => o \in DOMAIN look.book
  BY <1>1, RunningProper DEF Kin, OneInv, BookRead, At, Legs
<1>5. LET o == Recorded(rec, role)
      IN \/ Right(leg, role)
         \/ /\ leg.filled /\ leg.venue = venue
            /\ leg.rec = AbsorbOf(venue, rec, o) /\ leg.rec # rec
            /\ o \in Order /\ o \notin DOMAIN look.book /\ ~Resting(venue, o)
  BY <1>3, <1>4, RunningProper, SettledRight
<1>6. CASE /\ leg.filled /\ leg.venue = venue
           /\ leg.rec = AbsorbOf(venue, rec, Recorded(rec, role))
           /\ Recorded(rec, role) \in Order
  <2>1. Go(leg.rec, look, mem, <<"losers">> \o SubSeq(todo, k, Len(todo))) BY <1>2, <1>6
  <2>2. k \in {3, 4} /\ (k = 4 <=> role = "take_profit") OBVIOUS
  <2> HIDE DEF k
  <2>3. Head(todo) = IF k = 4 THEN "settle_target" ELSE "settle_stop" BY <1>1, <2>2
  <2>4. Comes({}, leg.rec, look) BY <2>1, <2>2, <2>3, RunningProper, PastComes
  <2>5. Proper(leg.rec) BY <1>6, RunningProper, ReadProper
  <2>6. Only(venue, venue', {}) BY <1>2, <1>6, RunningProper
  <2>7. trade' = leg.rec \/ trade' = trade BY <1>2 DEF SaveIfChanged
  <2> QED BY <1>1, <2>4, <2>5, <2>6, <2>7, RunningProper, ActsAt
<1>7. CASE Right(leg, role)
  <2> DEFINE l == next(leg)
  <2>1. Go(rec, l, mem, Tail(todo)) BY <1>2, <1>7 DEF Right
  <2>2. trade' = rec \/ trade' = trade BY <1>2, <1>7 DEF Right, SaveIfChanged
  <2>3. LookProper(l) /\ l.book = look.book
    <3>1. leg.id \in Shape(role) \cup {None} BY <1>7 DEF Right
    <3>2. DOMAIN look = {"entryOpen", "fallback", "heard", "want", "all", "limit", "net",
                    "book", "size", "takeProfit", "stopLoss", "failed"}
      BY RunningProper DEF LookProper, NoLook
    <3>3. LookProper(look) BY RunningProper
    <3>4. /\ l.book = look.book /\ l.want = look.want /\ l.size = look.size
          /\ l.net = look.net /\ DOMAIN l = DOMAIN look
      BY <3>2
    <3>5. /\ role = "take_profit" => l.takeProfit = leg.id /\ l.stopLoss = look.stopLoss
          /\ role = "stop_loss" => l.takeProfit = look.takeProfit /\ l.stopLoss = leg.id
      BY <3>2
    <3> HIDE DEF l
    <3>6. role = "stop_loss" => Shape(role) = Stops BY DEF Shape
    <3>7. /\ l.takeProfit \in Shape("take_profit") \cup {None}
          /\ l.stopLoss \in Stops \cup {None}
      BY <3>1, <3>3, <3>5, <3>6 DEF LookProper
    <3> QED BY <3>3, <3>4, <3>7 DEF LookProper
  <2> HIDE DEF l
  <2> DEFINE S == After(Head(todo))
  <2>4. Comes(S, rec, l) BY <2>1, RunningProper, OnComes
  <2>5. S = IF role = "take_profit" THEN {"settle_stop"} ELSE {"record"}
    BY <1>1 DEF After
  <2> HIDE DEF S
  <2>6. Does(S, rec, l) BY <1>1, <1>3, <2>2, <2>3, <2>4, <2>5, RunningProper DEF Does
  <2>7. Only(venue, venue', Kin(role)) /\ (Complete => OneIn(venue', Kin(role)))
    BY <1>2, <1>7 DEF Right
  <2>8. \A o \in (IF role = "take_profit" THEN Stops ELSE Targets) :
           Resting(venue', o) => Resting(venue, o)
    BY <2>7, LegsAreExits DEF Only, Kin, Legs
  <2>9. Complete => OneIn(venue', Targets) /\ OneIn(venue', Stops)
    BY <2>7, <2>8, RunningProper DEF Kin, OneIn
  <2>10. Complete /\ "settle_stop" \in S =>
            \A o \in Stops : Resting(venue', o) => o \in DOMAIN l.book
    <3>1. CASE role = "stop_loss" BY <2>5, <3>1
    <3>2. CASE role = "take_profit"
      <4>1. Complete => \A o \in Stops : Resting(venue, o) => o \in DOMAIN look.book
        BY <1>1, <3>2, RunningProper DEF OneInv, BookRead, At, Legs
      <4> QED BY <2>3, <2>8, <3>2, <4>1
    <3> QED BY <3>1, <3>2
  <2>11. Accounts(venue') BY <2>7, RunningProper DEF Only
  <2>12. Reads(S, l) BY <2>5, <2>9, <2>10, <2>11 DEF Reads
  <2> QED BY <2>6, <2>12 DEF Acts
<1> QED BY <1>5, <1>6, <1>7

\* Both legs are written down.
LEMMA RecordProtectionActs ==
    ASSUME OneInv, ~Idle, RecordProtection
    PROVE  Acts
<1> DEFINE same == /\ look.takeProfit = rec.takeProfit
                   /\ look.stopLoss = rec.stopLoss /\ look.size = rec.cover
           r == IF same THEN rec
                ELSE ProtectionPlaced(rec, look.takeProfit, look.stopLoss, look.size)
           s == IF look.failed = {} THEN r
                ELSE ProtectionFailed(r, look.failed = {"take_profit"})
<1>1. /\ Head(todo) = "record" /\ UNCHANGED <<opening, venue>>
      /\ \E m : Go(s, look, m, Tail(todo))
      /\ trade' = s \/ trade' = trade
  BY DEF RecordProtection, At, SaveIfChanged
<1>2. Proper(r) /\ Spare(r, 1)
  <2>1. /\ look.takeProfit \in Shape("take_profit") \cup {None}
        /\ look.stopLoss \in Stops \cup {None} /\ look.size \in 0 .. 2 * Requested
    BY RunningProper DEF LookProper
  <2>2. Room(rec) /\ Proper(rec) BY <1>1, RunningProper DEF HeadProper
  <2>3. Spare(rec, 1) BY <2>2, RoomSpares DEF Spare
  <2> QED BY <2>1, <2>2, <2>3, EventsProper
<1> HIDE DEF r
<1>3. Proper(s) BY <1>2, EventsProper
<1>4. Only(venue, venue', {}) BY <1>1, RunningProper
<1> HIDE DEF s
<1> QED BY <1>1, <1>3, <1>4, RunningProper, ActsOn

\* Everything is taken off.
LEMMA ClearProtectionActs ==
    ASSUME OneInv, ~Idle, ClearProtection
    PROVE  Acts
<1> DEFINE r == IF rec.takeProfit = None /\ rec.stopLoss = None THEN rec
                ELSE ProtectionPlaced(rec, None, None, 0)
<1>1. /\ Head(todo) = "clear" /\ UNCHANGED <<opening, mem>>
      /\ venue' = venue \/ \E orders : venue' = CancelAll(venue, orders)
      /\ Go(r, look, mem, Tail(todo))
      /\ trade' = r \/ trade' = trade
  BY DEF ClearProtection, At, SaveIfChanged, On
<1>2. Proper(r)
  <2>1. ~(rec.takeProfit = None /\ rec.stopLoss = None) => Legged(rec) = 1 BY DEF Legged
  <2> QED BY <2>1, RunningProper, EventsProper
<1>3. Only(venue, venue', {}) BY <1>1, RunningProper, CancelAllOnly
<1> HIDE DEF r
<1> QED BY <1>1, <1>2, <1>3, RunningProper, ActsOn

\* The legs are taken off before a close, or after an exit.
LEMMA CancelSiblingsActs ==
    ASSUME OneInv, ~Idle, CancelSiblings
    PROVE  Acts
<1> DEFINE legs == IF At("losers") THEN Losers(rec) ELSE BothLegs(rec)
           l == IF At("take_off") THEN CloseSize ELSE look
<1>1. Head(todo) \in {"losers", "take_off", "close_out"} /\ UNCHANGED opening
  BY DEF CancelSiblings, At
<1>2. PICK t \in TakeOffs(rec, legs) :
        /\ venue' = t.end.venue
        /\ LET r == IF At("close_out") THEN Reconciled(t.end.rec, 0) ELSE t.end.rec
           IN SaveIfChanged(r) /\ Go(r, l, mem', Tail(todo))
  BY DEF CancelSiblings
<1> DEFINE r == IF At("close_out") THEN Reconciled(t.end.rec, 0) ELSE t.end.rec
<1>3. (trade' = r \/ trade' = trade) /\ Go(r, l, mem', Tail(todo))
  BY <1>2 DEF SaveIfChanged
<1>4. LookProper(l)
  <2>1. LookProper(look) BY RunningProper
  <2>2. \A n \in 0 .. 2 * Requested : \A b : LookProper([look EXCEPT !.want = n, !.all = b])
    BY <2>1, LooksProper
  <2> DEFINE size == IF look.want = 0 \/ look.want > Size THEN Size ELSE look.want
  <2>3. size \in 0 .. 2 * Requested BY <2>1, RunningProper DEF Size, LookProper
  <2>4. CloseSize = [look EXCEPT !.want = size, !.all = size >= Size] BY DEF CloseSize
  <2> HIDE DEF size
  <2> QED BY <2>1, <2>2, <2>3, <2>4
<1>5. legs \in SUBSET {"take_profit", "stop_loss"} /\ \A role \in legs : Recorded(rec, role) # None
  BY DEF Losers, BothLegs
<1> HIDE DEF legs, l
<1>6. Only(venue, venue', {}) /\ Proper(t.end.rec)
  BY <1>2, <1>5, RunningProper, TakenOffOnly
<1>7. Proper(r)
  <2>1. 0 \in -2 * Requested .. 2 * Requested BY PlanAssumption
  <2> QED BY <1>6, <2>1, EventsProper
<1> HIDE DEF r
<1>8. PICK m : Go(r, l, m, Tail(todo)) BY <1>3
<1> QED BY <1>1, <1>3, <1>4, <1>6, <1>7, <1>8, RunningProper, ActsOn

\* The close is written down...
LEMMA SubmitCloseActs ==
    ASSUME OneInv, ~Idle, SubmitClose
    PROVE  Acts
<1> DEFINE sending == IF look.want > Size THEN Size ELSE look.want
           cid == <<IF look.limit THEN "exit_limit" ELSE "exit", rec.exits + 1>>
           c == [order |-> cid, size |-> sending, before |-> Size,
                 all |-> look.all \/ sending >= Size]
           r == ExitSubmitted(rec, c)
<1>1. /\ Head(todo) = "submit" /\ UNCHANGED <<opening, mem, venue>> /\ rec.exits < MaxExits
      /\ trade' = r /\ Go(r, look, mem, Tail(todo))
  BY DEF SubmitClose, At, Save, On
<1>2. rec.exits \in 0 .. MaxExits /\ MaxExits \in Nat BY RunningProper, RoomSpares
<1>3. cid \in Closes BY <1>1, <1>2 DEF Closes
<1>4. sending \in 0 .. 2 * Requested /\ sending <= Size /\ Size \in 0 .. 2 * Requested
  <2>1. Size \in 0 .. 2 * Requested /\ look.want \in 0 .. 2 * Requested
    BY RunningProper DEF Size, LookProper
  <2> QED BY <2>1, PlanAssumption
<1>5. c \in Closing /\ c.size <= c.before
  <2>1. (look.all \/ sending >= Size) \in BOOLEAN OBVIOUS
  <2> HIDE DEF cid, sending
  <2> QED BY <1>3, <1>4, <2>1 DEF Closing
<1> HIDE DEF c, cid
<1>6. Proper(r) /\ Spare(r, 1) BY <1>1, <1>5, RunningProper, EventsProper
<1>7. r.closing = c
  <2>1. DOMAIN rec = DOMAIN InitialTrade BY RunningProper, LedgerFields DEF Proper
  <2>2. "closing" \in DOMAIN rec BY <2>1, Fields
  <2> QED BY <2>2 DEF ExitSubmitted
<1> HIDE DEF r
<1>8. Comes(After("submit"), r, look) BY <1>1, RunningProper, OnComes
<1>9. After("submit") = {"send"} BY DEF After
<1>10. Only(venue, venue', {}) BY <1>1, RunningProper
<1>11. Does({"send"}, r, look)
  BY <1>1, <1>5, <1>6, <1>7, <1>8, <1>9, RunningProper DEF Does
<1>12. Reads({"send"}, look) BY <1>10, ReadsOn
<1> QED BY <1>11, <1>12 DEF Acts

\* ... and sent: it is no leg.
LEMMA SendCloseActs ==
    ASSUME OneInv, ~Idle, SendClose
    PROVE  Acts
<1> DEFINE c == rec.closing
           out == IF c.order[1] = "exit" THEN MarketOutcomes(venue, c.order, c.size)
                  ELSE LimitOutcomes(venue, c.order, c.size)
           failed == ProtectionFailed(rec, FALSE)
           r == AbsorbOf(venue', rec, c.order)
<1>1. Head(todo) = "send" /\ UNCHANGED <<opening, mem>>
  BY DEF SendClose, At
<1>2. /\ c.order \in Closes /\ c.size \in 0 .. 2 * Requested /\ Spare(rec, 1)
      /\ Head(todo) \notin Leads
  BY <1>1, RunningProper DEF HeadProper, Leads, Closing
<1>3. /\ venue' \in out \cup {venue, Unfilled(venue, c.order, c.size)}
      /\ \/ (trade' = r \/ trade' = trade) /\ Go(r, look, mem, Tail(todo))
         \/ trade' = failed /\ Go(failed, look, mem, <<"protect">> \o Tail(todo))
         \/ trade' = failed /\ Go(failed, look, mem, Tail(todo))
  BY DEF SendClose, On, Do, SaveIfChanged, Save
<1>4. Only(venue, venue', {})
  <2>1. \A w \in out \cup {venue, Unfilled(venue, c.order, c.size)} : Only(venue, w, {c.order})
    <3> HIDE DEF c
    <3>0. c.order \in Order /\ c.order \notin Entries BY <1>2, LegsAreExits
    <3>1. \A w \in out : Only(venue, w, {c.order})
      BY <1>2, <3>0, RunningProper, OutcomesOnly
    <3>2. /\ Only(venue, venue, {c.order})
          /\ Only(venue, Unfilled(venue, c.order, c.size), {c.order})
      BY <1>2, <3>0, RunningProper, OutcomesOnly, OnlyOn
    <3> HIDE DEF out
    <3> QED BY <3>1, <3>2
  <2>2. {c.order} \cap Legs \subseteq {} BY <1>2, LegsAreExits
  <2> HIDE DEF out
  <2> QED BY <1>3, <2>1, <2>2, OneStays
<1>5. Proper(r) /\ Proper(failed)
  <2>1. c.order \in Order /\ Sound(venue') BY <1>2, <1>4, LegsAreExits, OnlyOn
  <2>2. Proper(failed) BY <1>2, RunningProper, EventsProper
  <2> QED BY <2>1, <2>2, RunningProper, ReadProper
<1> HIDE DEF r, failed, out
<1>6. CASE (trade' = r \/ trade' = trade) /\ Go(r, look, mem, Tail(todo))
  BY <1>1, <1>4, <1>5, <1>6, RunningProper, ActsOn
<1>7. CASE trade' = failed /\ Go(failed, look, mem, <<"protect">> \o Tail(todo))
  <2>1. Comes({"protect"}, failed, look) BY <1>2, <1>7, RunningProper, ViaComes
  <2> QED BY <1>1, <1>4, <1>5, <1>7, <2>1, RunningProper, ActsAt
<1>8. CASE trade' = failed /\ Go(failed, look, mem, Tail(todo))
  BY <1>1, <1>4, <1>5, <1>8, RunningProper, ActsOn
<1> QED BY <1>3, <1>6, <1>7, <1>8

\* A stop or a target judged reached begins a close.
LEMMA JudgeExitsActs ==
    ASSUME OneInv, ~Idle, JudgeExits
    PROVE  Acts
<1>1. /\ Head(todo) = "judge" /\ UNCHANGED <<trade, opening, mem, venue>>
      /\ \/ Go(rec, look, mem, Tail(todo))
         \/ \E limit : Go(trade, [NoLook EXCEPT !.limit = limit], mem, CloseStages \o Tail(todo))
  BY DEF JudgeExits, At, On
<1>2. Only(venue, venue', {}) BY <1>1, RunningProper
<1>3. CASE Go(rec, look, mem, Tail(todo)) BY <1>1, <1>2, <1>3, RunningProper, ActsOn
<1>4. ASSUME NEW limit, Go(trade, [NoLook EXCEPT !.limit = limit], mem, CloseStages \o Tail(todo))
      PROVE  Acts
  <2>1. LookProper([NoLook EXCEPT !.limit = limit]) BY LooksProper
  <2>2. Head(todo) \notin Leads BY <1>1 DEF Leads
  <2>3. Comes({}, trade, [NoLook EXCEPT !.limit = limit]) BY <1>4, <2>2, RunningProper, CloseComes
  <2> QED BY <1>1, <1>2, <2>1, <2>3, RunningProper, ActsAt
<1> QED BY <1>1, <1>3, <1>4

\* A close that is read and still waited for is on the record as it was.
LEMMA CloseWaits ==
    ASSUME NEW s, Proper(s), NEW o \in Closes, NEW filled, NEW rejected,
           Absorb(s, o, filled, rejected).phase = "exit_pending",
           Absorb(s, o, filled, rejected).position # 0
    PROVE  Absorb(s, o, filled, rejected).closing = s.closing
<1>1. DOMAIN s = DOMAIN InitialTrade BY LedgerFields DEF Proper
<1>2. {"phase", "position", "closing", "booked", "entrySize", "exitSize", "winner"} \subseteq DOMAIN s
  BY <1>1, Fields
<1>3. o \notin Entries BY LegsAreExits
<1> DEFINE n == filled - s.booked[o]
           exit == s.exitSize + n
           entry == s.entrySize + 0
           t == [s EXCEPT !.booked[o] = @ + n, !.entrySize = entry,
                          !.exitSize = exit, !.position = exit - entry]
           f == Fill(s, o, n)
<1>4. f = ExitFill(t, "manual") BY <1>3 DEF Fill
<1>5. /\ {"phase", "position", "closing", "winner"} \subseteq DOMAIN t /\ t.closing = s.closing
  BY <1>2
<1> HIDE DEF t
<1>6. f.phase = "exit_pending" /\ f.position # 0 => f.closing = s.closing
  <2>1. \/ f = WonBy(t, "manual")
        \/ f = [t EXCEPT !.closing = None, !.phase = "position_open"]
        \/ f = [t EXCEPT !.winner = IF @ # None THEN @ ELSE "manual", !.phase = "exit_pending"]
    BY <1>4 DEF ExitFill
  <2> HIDE DEF f
  <2>2. CASE f = WonBy(t, "manual")
    <3>1. f.phase = "flat" BY <1>5, <2>2 DEF WonBy
    <3> QED BY <3>1
  <2>3. CASE f = [t EXCEPT !.closing = None, !.phase = "position_open"]
    <3>1. f.phase = "position_open" BY <1>5, <2>3
    <3> QED BY <3>1
  <2>4. CASE f = [t EXCEPT !.winner = IF @ # None THEN @ ELSE "manual", !.phase = "exit_pending"]
    BY <1>5, <2>4
  <2> QED BY <2>1, <2>2, <2>3, <2>4
<1> DEFINE g == IF n > 0 THEN f ELSE s
<1>7. Absorb(s, o, filled, rejected) = IF rejected THEN Aborted(g) ELSE g
  BY DEF Absorb
<1>8. CASE rejected
  <2>1. Absorb(s, o, filled, rejected) = Aborted(g) BY <1>7, <1>8
  <2>2. "phase" \in DOMAIN g
    <3>1. DOMAIN f = DOMAIN t BY <1>4 DEF ExitFill, WonBy
    <3> HIDE DEF f
    <3> QED BY <1>2, <1>5, <3>1
  <2> HIDE DEF g
  <2>3. Aborted(g).phase = "aborted" BY <2>2 DEF Aborted
  <2> QED BY <2>1, <2>3
<1>9. CASE ~rejected
  <2>1. Absorb(s, o, filled, rejected) = g BY <1>7, <1>9
  <2> HIDE DEF f
  <2> QED BY <1>6, <2>1
<1> QED BY <1>8, <1>9

\* A close that is out is followed up.
LEMMA FollowUpActs ==
    ASSUME OneInv, ~Idle, FollowUp
    PROVE  Acts
<1> DEFINE x == rec.closing.order
           r == AbsorbOf(venue, rec, x)
           again(want) == [NoLook EXCEPT !.want = want]
<1>1. Head(todo) = "follow" /\ UNCHANGED opening
  BY DEF FollowUp, At
<1>2. x \in Order /\ x \in Closes /\ rec.closing # None /\ Head(todo) \notin Leads
  BY <1>1, RunningProper, LegsAreExits DEF HeadProper, Proper, Leads
<1>2a. ASSUME NEW s, Proper(s), Backed(venue, s), s.closing # None
       PROVE  LET c == s.closing
                  owed == IF c.all THEN 0 ELSE c.size - (c.before - Held(s))
              IN c.all \/ ~(owed < 1) => owed \in 0 .. 2 * Requested
  <2>1. /\ s.closing.size \in 0 .. 2 * Requested /\ s.closing.before \in 0 .. 2 * Requested
        /\ s.closing.size <= s.closing.before
    BY <1>2a DEF Proper, Ledger, Closing
  <2>2. Held(s) \in 0 .. 2 * Requested BY <1>2a, RunningProper, ProperBound
  <2> QED BY <2>1, <2>2, PlanAssumption
<1>3. \A s, v : ResendClose(s, v) =>
        /\ venue' = v /\ (trade' = s \/ trade' = trade)
        /\ \/ Go(s, look, mem, Tail(todo))
           \/ \E want : LET c == s.closing
                          owed == IF c.all THEN 0 ELSE c.size - (c.before - Held(s))
                      IN want = owed /\ (c.all \/ ~(owed < 1))
                         /\ Go(s, again(want), mem, CloseStages \o Tail(todo))
  BY Zenon DEF ResendClose, SaveIfChanged, On
<1>3a. \A s, v : ResendClose(s, v) /\ Proper(s) /\ Backed(venue, s) /\ s.closing # None =>
        /\ venue' = v /\ (trade' = s \/ trade' = trade)
        /\ \/ Go(s, look, mem, Tail(todo))
           \/ \E want \in 0 .. 2 * Requested :
                Go(s, again(want), mem, CloseStages \o Tail(todo))
  <2> HIDE DEF again
  <2> QED BY <1>2a, <1>3
<1>4. PICK s \in {rec, r} :
        /\ venue' = venue \/ venue' = Cancel(venue, x)
        /\ trade' = s \/ trade' = trade
        /\ \/ Go(s, look, mem, Tail(todo))
           \/ \E want \in 0 .. 2 * Requested :
                Go(s, again(want), mem, CloseStages \o Tail(todo))
  <2>1. \/ (venue' = venue \/ venue' = Cancel(venue, x)) /\ SaveIfChanged(r) /\ On(r) /\ mem' = mem
        \/ ResendClose(r, Cancel(venue, x)) /\ r.phase = "exit_pending" /\ r.position # 0
        \/ ResendClose(rec, venue)
    BY DEF FollowUp
  <2>2. r.phase = "exit_pending" /\ r.position # 0 => r.closing = rec.closing
    BY <1>2, RunningProper, CloseWaits DEF AbsorbOf
  <2>3. Proper(r) /\ Backed(venue, r) BY <1>2, RunningProper, ReadProper, AbsorbBooks
  <2> HIDE DEF x, r, again
  <2>4. CASE (venue' = venue \/ venue' = Cancel(venue, x)) /\ SaveIfChanged(r) /\ On(r) /\ mem' = mem
    BY <2>4 DEF SaveIfChanged, On
  <2>5. CASE ResendClose(r, Cancel(venue, x)) /\ r.phase = "exit_pending" /\ r.position # 0
    BY <1>2, <1>3a, <2>2, <2>3, <2>5
  <2>6. CASE ResendClose(rec, venue) BY <1>2, <1>3a, <2>6, RunningProper
  <2>7. QED BY <2>1, <2>4, <2>5, <2>6
<1>5. Only(venue, venue', {})
  <2>1. Only(venue, Cancel(venue, x), {}) BY <1>2, RunningProper, CancelOnly
  <2> QED BY <1>4, <2>1, RunningProper
<1>6. Proper(s) BY <1>2, <1>4, RunningProper, ReadProper
<1>7. \A want \in 0 .. 2 * Requested : LookProper(again(want)) BY LooksProper
<1> HIDE DEF again, r
<1>8. CASE Go(s, look, mem, Tail(todo))
  BY <1>1, <1>4, <1>5, <1>6, <1>8, RunningProper, ActsOn
<1>9. ASSUME NEW want \in 0 .. 2 * Requested, Go(s, again(want), mem, CloseStages \o Tail(todo)) PROVE Acts
  <2>1. PICK l : l = again(want) OBVIOUS
  <2>2. LookProper(l) BY <1>7, <2>1
  <2>3. Go(s, l, mem, CloseStages \o Tail(todo)) BY <1>9, <2>1
  <2>4. Comes({}, s, l) BY <1>2, <2>3, RunningProper, CloseComes
  <2> QED BY <1>1, <1>4, <1>5, <1>6, <2>2, <2>4, ActsAt
<1> QED BY <1>4, <1>8, <1>9

\* reconcile() asks for the entry, ...
LEMMA LookAgainActs ==
    ASSUME OneInv, ~Idle, LookAgain
    PROVE  Acts
<1> DEFINE r == AbsorbOf(venue, rec, Entry)
           t == EntrySubmitted(r)
           s == IF r.phase = "entry_unknown" THEN AbsorbOf(venue, t, Entry) ELSE r
           l == [look EXCEPT !.heard = FALSE]
<1>1. /\ Head(todo) = "look_again" /\ UNCHANGED <<opening, mem, venue>>
      /\ \/ (trade' = s \/ trade' = trade) /\ Go(s, look, mem, Tail(todo))
         \/ trade' = trade /\ Go(rec, l, mem, Tail(todo))
  BY DEF LookAgain, At, SaveIfChanged, On
<1>2. Proper(s)
  <2>1. Proper(r) BY RunningProper, ReadProper, Elements
  <2> HIDE DEF r
  <2>2. Proper(t) BY <2>1, EventsProper
  <2> HIDE DEF t
  <2>3. Proper(AbsorbOf(venue, t, Entry)) BY <2>2, RunningProper, ReadProper, Elements
  <2> QED BY <2>1, <2>3
<1>3. LookProper(l) BY RunningProper, LooksProper
<1>4. Only(venue, venue', {}) BY <1>1, RunningProper
<1> HIDE DEF s, l
<1>5. CASE (trade' = s \/ trade' = trade) /\ Go(s, look, mem, Tail(todo))
  BY <1>1, <1>2, <1>4, <1>5, RunningProper, ActsOn
<1>6. CASE trade' = trade /\ Go(rec, l, mem, Tail(todo))
  BY <1>1, <1>3, <1>4, <1>6, RunningProper, ActsOn
<1> QED BY <1>1, <1>5, <1>6

\* ... takes in the fills it finds, ...
LEMMA RecoverActs ==
    ASSUME OneInv, ~Idle, Recover
    PROVE  Acts
<1>1. Head(todo) = "recover" /\ UNCHANGED <<opening, mem, venue>>
  BY DEF Recover, At
<1>2. PICK r \in {rec, RecoverFills(rec)} :
        (trade' = r \/ trade' = trade) /\ Go(r, look, mem, Tail(todo))
  BY DEF Recover, SaveIfChanged, On
<1>3. Proper(r) BY <1>2, RunningProper, RecoverProper
<1>4. Only(venue, venue', {}) BY <1>1, RunningProper
<1> QED BY <1>1, <1>2, <1>3, <1>4, RunningProper, ActsOn

\* ... believes the position, ...
LEMMA BelieveActs ==
    ASSUME OneInv, ~Idle, Believe
    PROVE  Acts
<1>1. Head(todo) = "believe" /\ UNCHANGED <<opening, mem, venue>>
  BY DEF Believe, At
<1>2. PICK r \in {rec, RecoverFills(rec)} :
        \/ (trade' = r \/ trade' = trade) /\ Go(r, look, mem, Tail(todo))
        \/ LET s == Reconciled(r, look.net)
           IN /\ trade' = s
              /\ \E h \in {"protect", "clear"} : Go(s, look, mem, <<h>> \o Tail(todo))
  BY DEF Believe, SaveIfChanged, Save, On, Do
<1>3. Proper(r) BY <1>2, RunningProper, RecoverProper
<1> DEFINE s == Reconciled(r, look.net)
<1>4. Proper(s) BY <1>3, RunningProper, EventsProper DEF LookProper
<1>5. Only(venue, venue', {}) BY <1>1, RunningProper
<1>6. CASE (trade' = r \/ trade' = trade) /\ Go(r, look, mem, Tail(todo))
  BY <1>1, <1>3, <1>5, <1>6, RunningProper, ActsOn
<1>7. Head(todo) \notin Leads BY <1>1 DEF Leads
<1>8. (trade' = s /\ \E h \in {"protect", "clear"} : Go(s, look, mem, <<h>> \o Tail(todo)))
        \/ ((trade' = r \/ trade' = trade) /\ Go(r, look, mem, Tail(todo)))
  BY <1>2
<1> HIDE DEF s
<1>9. ASSUME trade' = s, NEW h \in {"protect", "clear"}, Go(s, look, mem, <<h>> \o Tail(todo))
      PROVE  Acts
  <2>1. Comes({h}, s, look) BY <1>7, <1>9, RunningProper, ViaComes
  <2>2. {h} \cap {"settle_target", "settle_stop", "record", "send"} = {} BY <1>9
  <2> QED BY <1>1, <1>4, <1>5, <1>9, <2>1, <2>2, RunningProper, ActsAt
<1> QED BY <1>6, <1>8, <1>9

\* ... and writes an entry off that never landed.
LEMMA NeverLandedActs ==
    ASSUME OneInv, ~Idle, NeverLanded
    PROVE  Acts
<1>1. /\ Head(todo) = "never_landed" /\ UNCHANGED <<opening, mem, venue>>
      /\ trade' = Aborted(rec) /\ Go(Aborted(rec), look, mem, Tail(todo))
  BY DEF NeverLanded, At, Save, On
<1>2. Proper(Aborted(rec)) BY RunningProper, EventsProper
<1>3. Only(venue, venue', {}) BY <1>1, RunningProper
<1> QED BY <1>1, <1>2, <1>3, RunningProper, ActsOn

\* So does every step of a job that runs.
LEMMA WorksActs ==
    ASSUME OneInv, Works
    PROVE  Acts
<1>1. ~Idle BY WorksRuns
<1> QED
  BY <1>1, LookEntryActs, LooksActs, CancelOverdueActs, EntryGoneActs, PlaceFallbackActs,
     FallbackSentActs, ReadBookActs, SettleLegActs, RecordProtectionActs,
     ClearProtectionActs, CancelSiblingsActs, SubmitCloseActs, SendCloseActs,
     JudgeExitsActs, FollowUpActs, LookAgainActs, RecoverActs, BelieveActs,
     NeverLandedActs
     DEF Works

\* What a step that acts leaves, whichever it was.
LEMMA ActsKeep ==
    ASSUME OneInv, BooksInv', Acts, Proper(trade)
    PROVE  OneInv'
<1>1. PICK S, r, l : Does(S, r, l) /\ Reads(S, l) BY DEF Acts
<1>2. /\ Comes(S, r, l) /\ Proper(r) /\ LookProper(l)
      /\ trade' = r \/ trade' = trade
      /\ UNCHANGED opening \/ ~Underway'
      /\ S \cap {"settle_target", "settle_stop", "record"} # {} => r.position < 0 /\ Room(r)
      /\ "send" \in S => r.closing \in Closing /\ Spare(r, 1)
  BY <1>1 DEF Does
<1>3. Proper(trade') BY <1>2
<1>4. Underway' => Proper(opening'.rec)
  BY <1>2 DEF OneInv, CopiesProper, Underway
<1>5. Accounts(venue') /\ (Complete => OneOfEach') BY <1>1 DEF Reads, OneOfEach, OneIn
<1>6. CASE todo' = <<>> /\ rec' = None /\ look' = NoLook
  <2>1. CopiesProper' BY <1>3, <1>4, <1>6 DEF CopiesProper, Idle
  <2>2. JobProper' BY <1>6, StagesOrdered DEF JobProper, Idle
  <2>3. BookRead' BY <1>6 DEF BookRead, At
  <2> QED BY <1>5, <2>1, <2>2, <2>3 DEF OneInv
<1>7. CASE /\ rec' = r /\ look' = l
           /\ todo' \in Seq(Stage) /\ Ordered(todo') /\ todo' # <<>>
           /\ \E m : Applies(Head(todo'), r, l, m)
           /\ Head(todo') \in Sticky => Head(todo') \in S
  <2>1. CopiesProper' BY <1>2, <1>3, <1>4, <1>7 DEF CopiesProper, Idle
  <2>2. HeadProper(Head(todo'), r)
    <3> DEFINE h == Head(todo')
    <3>1. PICK m : Applies(h, r, l, m) BY <1>7
    <3>2. h \in {"cover", "protect"} => r.position < 0 /\ Room(r)
      BY <3>1 DEF Applies, Uncovered
    <3>3. /\ h \in {"submit", "send"} => r.position < 0
          /\ h = "target" => r.takeProfit # None
          /\ h = "stop" => r.stopLoss # None
          /\ h = "follow" => r.closing # None
      BY <3>1, WhatApplies
    <3>4. h = "take_off" => r.position < 0 BY <3>1 DEF Applies
    <3>5. h \in Sticky => h \in S BY <1>7
    <3>6. h \in {"settle_target", "settle_stop", "record"} => r.position < 0 /\ Room(r)
      BY <1>2, <3>5 DEF Sticky
    <3>7. h = "send" => r.closing \in Closing /\ Spare(r, 1) BY <1>2, <3>5 DEF Sticky
    <3> HIDE DEF h
    <3>8. HeadProper(h, r)
      BY <3>2, <3>3, <3>4, <3>6, <3>7 DEF HeadProper
    <3> QED BY <3>8 DEF h
  <2>3. JobProper' BY <1>7, <2>2 DEF JobProper
  <2>4. Complete => BookRead' BY <1>1, <1>7 DEF BookRead, At, Sticky, Reads
  <2> QED BY <1>5, <2>1, <2>3, <2>4 DEF OneInv
<1> QED BY <1>2, <1>6, <1>7 DEF Comes

\* A job begins with the record in the journal.
LEMMA BeginsActs ==
    ASSUME OneInv, trade # None, Only(venue, venue', {}),
           NEW l, LookProper(l), NEW m,
           NEW s \in {PollStages, CloseStages, ReconcileStages, <<"entry_gone">>},
           Go(trade, l, m, s), trade' = trade, UNCHANGED opening \/ ~Underway'
    PROVE  Acts
<1>1. s \in Seq(Stage) /\ Ordered(s)
  <2>1. Ordered(s) BY StagesOrdered DEF Stage
  <2> QED BY <2>1 DEF Ordered
<1> DEFINE S == {"entry", "entry_gone"}
<1>2. s[1] \in Sticky => s[1] \in S
  <2>1. s[1] \in {"entry", "sync", "look_again", "entry_gone"}
    BY DEF PollStages, CloseStages, ReconcileStages
  <2> QED BY <2>1 DEF Sticky
<1> HIDE DEF Go
<1>3. Comes(S, trade, l) BY <1>1, <1>2, GoComes
<1>4. Proper(trade) BY DEF OneInv, CopiesProper
<1>5. Does(S, trade, l) BY <1>3, <1>4 DEF Does
<1>6. Reads(S, l) BY ReadsOn
<1> QED BY <1>5, <1>6 DEF Acts

\* What happens while the job does not move.
LEMMA OtherOne ==
    ASSUME OneInv, BooksInv', UNCHANGED <<todo, rec, look>>, Only(venue, venue', {}),
           trade' = trade \/ Proper(trade'), Underway' => Proper(opening'.rec)
    PROVE  OneInv'
<1>1. CopiesProper' BY DEF OneInv, CopiesProper, Idle
<1>2. JobProper' BY DEF OneInv, JobProper, Idle
<1>3. Reads({}, look) BY ReadsOn
<1>4. Accounts(venue') /\ (Complete => OneOfEach') BY <1>3 DEF Reads, OneOfEach, OneIn
<1>5. \A o \in Legs : Resting(venue', o) => Resting(venue, o) BY DEF Only
<1>6. Complete => BookRead' BY <1>5 DEF OneInv, BookRead, At, Legs
<1> QED BY <1>1, <1>2, <1>4, <1>6 DEF OneInv

\* The venue's own steps, and the loop's on an exit that no record has.
LEMMA MarketOne ==
    ASSUME OneInv, BooksInv', Market \/ SweepOrphans \/ DeadlinePasses \/ HoldEnds
    PROVE  OneInv'
<1>1. Sound(venue) /\ Only(venue, venue, {}) BY OnlyOn DEF OneInv, BooksInv
<1>2. UNCHANGED <<trade, todo, rec, look, opening>> BY <1>1, MarketGrows
<1>3. Only(venue, venue', {})
  <2>1. CASE VenueTrims \/ VenueDrops \/ SweepOrphans
    <3>1. venue' = venue \/ \E o \in Exits : venue' = Cancel(venue, o)
      <4>1. Excess(venue) \subseteq Exits BY DEF Excess
      <4>2. Targets \subseteq Exits /\ Stops \subseteq Exits BY DEF Exits
      <4> QED BY <2>1, <4>1, <4>2 DEF SweepOrphans, VenueTrims, VenueDrops
    <3> QED BY <1>1, <3>1, CancelOnly, LegsAreExits
  <2>2. CASE ClosedByHand
    <3>1. venue' = [venue EXCEPT !.net = @ + 1] /\ Short(venue) > 0 BY <2>2 DEF ClosedByHand
    <3>2. venue'.order = venue.order BY <1>1, <3>1 DEF Sound
    <3>3. Sound(venue') BY DEF BooksInv
    <3>4. Accounts(venue')
      <4>1. /\ Accounts(venue) /\ Short(venue) = -venue.net
            /\ Sold(venue) \in 0 .. 2 * Requested /\ Bought(venue) \in 0 .. 2 * Requested
        BY AccountsSay DEF OneInv
      <4>2. /\ venue \in [order : [Order -> Ticket], net : Int] /\ venue.net <= 0
            /\ Bought(venue) <= venue.net + Sold(venue)
        BY <4>1 DEF Accounts
      <4>3. venue' \in [order : [Order -> Ticket], net : Int] /\ venue'.net = venue.net + 1
        BY <3>1, <4>2
      <4>4. Bought(venue') = Bought(venue) /\ Sold(venue') = Sold(venue)
        BY <3>2 DEF Bought, Sold
      <4>5. venue'.net <= 0 /\ Bought(venue') <= venue'.net + Sold(venue')
        BY <3>1, <4>1, <4>2, <4>3, <4>4, PlanAssumption
      <4> QED BY <3>2, <4>1, <4>3, <4>5 DEF Accounts, Known
    <3> QED BY <3>2, <3>3, <3>4 DEF Only, Resting
  <2>3. CASE ExitFills \/ EntryFills
    <3>1. PICK o \in Order : \E n \in 1 .. Fillable(venue, o) : venue' = Fills(venue, o, n)
      BY <2>3, Elements, LegsAreExits DEF ExitFills, EntryFills
    <3>2. PICK n \in 1 .. Fillable(venue, o) : venue' = Fills(venue, o, n) BY <3>1
    <3> QED BY <1>1, <3>2, FillsOnly
  <2>4. CASE DeadlinePasses \/ HoldEnds
    BY <1>1, <2>4 DEF DeadlinePasses, HoldEnds
  <2> QED BY <2>1, <2>2, <2>3, <2>4 DEF Market
<1>4. Underway' => Proper(opening'.rec) BY <1>2 DEF OneInv, CopiesProper, Underway
<1> QED BY <1>2, <1>3, <1>4, OtherOne

\* What begins a job, or sweeps what one left.
LEMMA BeginsOne ==
    ASSUME OneInv, BooksInv', Poll \/ Asks \/ SweepLeftovers
    PROVE  OneInv'
<1>1. Sound(venue) /\ Only(venue, venue, {}) BY OnlyOn DEF OneInv, BooksInv
<1>2. trade # None
  BY DEF Poll, Asks, AskClose, AskReconcile, AskCancel, SweepLeftovers, Free
<1>3. Proper(trade) BY <1>2 DEF OneInv, CopiesProper
<1>4. Underway /\ UNCHANGED opening => Proper(opening'.rec) BY DEF OneInv, CopiesProper
<1>5. CASE Poll \/ AskReconcile
  <2>1. /\ UNCHANGED <<trade, opening, mem, venue>>
        /\ Go(trade, NoLook, mem, ReconcileStages) \/ Go(trade, NoLook, mem, PollStages)
    BY <1>5 DEF Poll, AskReconcile
  <2> QED BY <1>1, <1>2, <1>3, <2>1, LooksProper, BeginsActs, ActsKeep
<1>6. CASE AskClose
  <2>1. PICK want \in 0 .. 1 : Go(trade, [NoLook EXCEPT !.want = want], mem, CloseStages)
    BY <1>6 DEF AskClose
  <2>2. UNCHANGED <<trade, opening, mem, venue>> BY <1>6 DEF AskClose
  <2>3. LookProper([NoLook EXCEPT !.want = want])
    <3>1. want \in 0 .. 2 * Requested BY PlanAssumption
    <3> QED BY <3>1, LooksProper
  <2>4. Acts BY <1>1, <1>2, <2>1, <2>2, <2>3, BeginsActs
  <2> QED BY <1>3, <2>4, ActsKeep
<1>7. CASE AskCancel
  <2>1. UNCHANGED opening BY <1>7 DEF AskCancel
  <2>2. CASE /\ venue' = Cancel(venue, Entry) \/ UNCHANGED venue
             /\ Go(trade, NoLook, mem, <<"entry_gone">>) /\ UNCHANGED trade
    <3>1. Only(venue, venue', {}) BY <1>1, <2>2, CancelOnly, Elements
    <3>2. Acts BY <1>2, <2>1, <2>2, <3>1, LooksProper, BeginsActs
    <3> QED BY <1>3, <3>2, ActsKeep
  <2>3. CASE Save(EntryCancelled(trade)) /\ UNCHANGED <<todo, rec, look, venue>>
    <3>1. Proper(trade') BY <1>3, <2>3, EventsProper DEF Save
    <3> QED BY <1>1, <1>4, <2>1, <2>3, <3>1, OtherOne DEF Underway
  <2> QED BY <1>7, <2>2, <2>3 DEF AskCancel
<1>8. CASE SweepLeftovers
  <2>1. PICK t \in TakeOffs(trade, BothLegs(trade)) : venue' = t.end.venue /\ trade' = t.end.rec
    BY <1>8 DEF SweepLeftovers, Save
  <2>2. UNCHANGED <<todo, rec, look, opening>> BY <1>8 DEF SweepLeftovers
  <2>3. /\ BothLegs(trade) \in SUBSET {"take_profit", "stop_loss"}
        /\ \A role \in BothLegs(trade) : Recorded(trade, role) # None
    BY DEF BothLegs
  <2>4. Only(venue, venue', {}) /\ Proper(trade')
    BY <1>1, <1>3, <2>1, <2>3, TakenOffOnly
  <2> QED BY <1>4, <2>2, <2>4, OtherOne DEF Underway
<1> QED BY <1>5, <1>6, <1>7, <1>8 DEF Asks

\* A restart.
LEMMA RestartOne ==
    ASSUME OneInv, BooksInv', Restart
    PROVE  OneInv'
<1>1. Sound(venue) /\ Only(venue, venue, {}) BY OnlyOn DEF OneInv, BooksInv
<1>2. UNCHANGED <<trade, venue>> /\ ~Underway' BY RestartBooks
<1>3. CASE Working /\ Go(trade, NoLook, NoMem, ReconcileStages)
  <2>1. trade # None BY <1>3 DEF Working
  <2>2. Acts BY <1>1, <1>2, <1>3, <2>1, LooksProper, BeginsActs
  <2>3. Proper(trade) BY <2>1 DEF OneInv, CopiesProper
  <2> QED BY <2>2, <2>3, ActsKeep
<1>4. CASE todo' = <<>> /\ rec' = None /\ look' = NoLook
  <2>1. CopiesProper' BY <1>2, <1>4 DEF OneInv, CopiesProper, Idle
  <2>2. JobProper' BY <1>4, StagesOrdered DEF JobProper, Idle
  <2>3. BookRead' BY <1>4 DEF BookRead, At
  <2>4. Accounts(venue') /\ (Complete => OneOfEach') BY <1>2 DEF OneInv, OneOfEach
  <2> QED BY <2>1, <2>2, <2>3, <2>4 DEF OneInv
<1> QED BY <1>3, <1>4 DEF Restart

\* open() puts the entry on, and no exit.
LEMMA OpenOne ==
    ASSUME OneInv, BooksInv', Open
    PROVE  OneInv'
<1>1. Sound(venue) /\ Only(venue, venue, {}) BY OnlyOn DEF OneInv, BooksInv
<1>2. UNCHANGED <<todo, rec, look>>
  BY DEF Open, OpenStart, OpenRefused, OpenPlace, OpenEnds, OpenSubmitted, OpenAbsorb
<1> DEFINE s == opening.rec
           done == [NoOpen EXCEPT !.at = "done"]
<1>3. done.at = "done" BY DEF NoOpen
<1>4. /\ {"at", "rec", "filled", "rejected"} \subseteq DOMAIN opening
      /\ opening.at \in {"acked", "submitted"} => opening.filled \in Int
  BY DEF OneInv, BooksInv
<1>5. Underway => Proper(s) BY DEF OneInv, CopiesProper
<1>6. CASE OpenStart
  <2>1. /\ trade' = InitialTrade /\ UNCHANGED venue
        /\ opening' = [NoOpen EXCEPT !.at = "gates", !.rec = InitialTrade]
    BY <1>6 DEF OpenStart, Save
  <2>2. opening'.rec = InitialTrade BY <2>1 DEF NoOpen
  <2> QED BY <1>1, <1>2, <2>1, <2>2, InitialProper, OtherOne
<1>7. CASE OpenRefused
  <2>1. /\ Underway /\ trade' = Aborted(s) /\ opening' = done /\ UNCHANGED venue
    BY <1>7 DEF OpenRefused, OpenEnds, Save, Underway
  <2>2. Proper(trade') BY <1>5, <2>1, EventsProper
  <2>3. ~Underway' BY <1>3, <2>1 DEF Underway
  <2> QED BY <1>1, <1>2, <2>1, <2>2, <2>3, OtherOne
<1>8. CASE OpenPlace
  <2>1. Underway BY <1>8 DEF OpenPlace, Underway
  <2>2. Only(venue, venue', {})
    <3>1. \/ venue' \in EntryOutcomes \cup {venue}
          \/ venue' = Unfilled(venue, Entry, Requested)
      BY <1>8 DEF OpenPlace
    <3>2. EntryOutcomes \subseteq MarketOutcomes(venue, Entry, Requested)
                                  \cup LimitOutcomes(venue, Entry, Requested)
      BY DEF EntryOutcomes
    <3>0. Requested \in 0 .. 2 * Requested BY PlanAssumption
    <3>3. Only(venue, venue', {}) \/ Only(venue, venue', {Entry})
      BY <1>1, <3>0, <3>1, <3>2, OutcomesOnly, Elements
    <3>4. {Entry} \cap Legs \subseteq {} BY Elements, LegsAreExits
    <3> QED BY <3>3, <3>4, OneStays
  <2>3. \/ /\ trade' = trade
           /\ opening' = [opening EXCEPT
                            !.at = "acked",
                            !.filled = venue'.order[Entry].filled,
                            !.rejected = venue'.order[Entry].status = "rejected"]
        \/ trade' = Aborted(s) /\ opening' = done
        \/ trade' = EntrySubmitUnknown(s) /\ opening' = done
    BY <1>8 DEF OpenPlace, OpenEnds, Save
  <2>4. Proper(s) /\ Proper(Aborted(s)) /\ Proper(EntrySubmitUnknown(s))
    BY <1>5, <2>1, EventsProper
  <2>5. (trade' = trade \/ Proper(trade')) /\ (Underway' => Proper(opening'.rec))
    <3>1. CASE trade' = trade /\ opening' = [opening EXCEPT
                            !.at = "acked",
                            !.filled = venue'.order[Entry].filled,
                            !.rejected = venue'.order[Entry].status = "rejected"]
      <4>1. opening'.rec = s BY <1>4, <3>1
      <4> QED BY <2>4, <3>1, <4>1
    <3>2. CASE trade' \in {Aborted(s), EntrySubmitUnknown(s)} /\ opening' = done
      BY <1>3, <2>4, <3>2 DEF Underway
    <3> QED BY <2>3, <3>1, <3>2
  <2> QED BY <1>2, <2>2, <2>5, OtherOne
<1>9. CASE OpenSubmitted
  <2>1. /\ Underway /\ UNCHANGED venue /\ trade' = EntrySubmitted(s)
        /\ opening' = [opening EXCEPT !.at = "submitted", !.rec = EntrySubmitted(s)]
    BY <1>9 DEF OpenSubmitted, Save, Underway
  <2>2. opening'.rec = EntrySubmitted(s) BY <1>4, <2>1
  <2>3. Proper(EntrySubmitted(s)) BY <1>5, <2>1, EventsProper
  <2> QED BY <1>1, <1>2, <2>1, <2>2, <2>3, OtherOne
<1>10. CASE OpenAbsorb
  <2> DEFINE r == Absorb(s, Entry, opening.filled, opening.rejected)
  <2>1. /\ Underway /\ UNCHANGED venue /\ opening' = done
        /\ trade' = r \/ trade' = trade
    BY <1>10 DEF OpenAbsorb, OpenEnds, Save, Underway
  <2>2. opening.filled \in Int BY <1>4, <1>10 DEF OpenAbsorb
  <2>3. Proper(r) BY <1>5, <2>1, <2>2, AbsorbProper, Elements
  <2>4. ~Underway' BY <1>3, <2>1 DEF Underway
  <2> HIDE DEF r
  <2> QED BY <1>1, <1>2, <2>1, <2>3, <2>4, OtherOne
<1> QED BY <1>6, <1>7, <1>8, <1>9, <1>10 DEF Open

\* OneInv holds at the start, ...
LEMMA OneInit == Init => OneInv
<1> SUFFICES ASSUME Init PROVE OneInv
  OBVIOUS
<1>1. /\ Idle /\ todo = <<>> /\ trade = None /\ ~Underway /\ venue = EmptyVenue
      /\ rec = None /\ look = NoLook
  BY DEF Init, Idle, Underway, NoOpen
<1>2. BooksInv BY BooksInit
<1>3. CopiesProper BY <1>1 DEF CopiesProper
<1>4. JobProper BY <1>1, StagesOrdered DEF JobProper
<1>5. OneOfEach
  <2>1. \A o \in Order : EmptyVenue.order[o] = [status |-> "none", size |-> 0, filled |-> 0]
    BY DEF EmptyVenue
  <2>2. \A o \in Legs : ~Resting(EmptyVenue, o) BY <2>1, LegsAreExits DEF Resting
  <2> QED BY <1>1, <2>2 DEF OneOfEach, Legs
<1>6. BookRead BY <1>1 DEF BookRead, At
<1>7. Accounts(venue)
  <2> DEFINE f == [o \in Order |-> EmptyVenue.order[o].filled]
  <2>1. /\ \A o \in Order : EmptyVenue.order[o] = [status |-> "none", size |-> 0, filled |-> 0]
        /\ EmptyVenue.net = 0
    BY DEF EmptyVenue
  <2>2. EmptyVenue \in [order : [Order -> Ticket], net : Int]
    BY PlanAssumption DEF EmptyVenue, Ticket
  <2>3. Entries \subseteq Order BY DEF Order
  <2>4. Bought(EmptyVenue) = 0
    <3>1. \A o \in Exits : f[o] = 0 BY <2>1, LegsAreExits
    <3> HIDE DEF f
    <3>2. Total(f) = 0 BY <3>1, Totals
    <3> QED BY <3>2 DEF Bought, f
  <2>5. Sold(EmptyVenue) = 0 BY <2>1, Elements DEF Sold
  <2> QED BY <1>1, <2>1, <2>2, <2>3, <2>4, <2>5, PlanAssumption DEF Accounts, Known
<1> QED BY <1>2, <1>3, <1>4, <1>5, <1>6, <1>7 DEF OneInv

\* ... and every step keeps it.
LEMMA OneNext ==
    ASSUME OneInv, [Next]_vars
    PROVE  OneInv'
<1>1. BooksInv' BY BooksNext DEF OneInv
<1>2. CASE Works
  <2>1. ~Idle BY <1>2, WorksRuns
  <2> QED BY <1>1, <1>2, <2>1, WorksActs, RunningProper, ActsKeep
<1>3. CASE Poll \/ Asks \/ SweepLeftovers BY <1>1, <1>3, BeginsOne
<1>4. CASE Market \/ SweepOrphans \/ DeadlinePasses \/ HoldEnds BY <1>1, <1>4, MarketOne
<1>5. CASE Open BY <1>1, <1>5, OpenOne
<1>6. CASE Restart BY <1>1, <1>6, RestartOne
<1>7. CASE UNCHANGED vars
  <2>1. UNCHANGED <<trade, todo, rec, look, opening, venue>> BY <1>7 DEF vars
  <2>2. Only(venue, venue', {}) BY <2>1, OnlyOn DEF OneInv, BooksInv
  <2>3. Underway' => Proper(opening'.rec) BY <2>1 DEF OneInv, CopiesProper, Underway
  <2> QED BY <1>1, <2>1, <2>2, <2>3, OtherOne
<1> QED BY <1>2, <1>3, <1>4, <1>5, <1>6, <1>7 DEF Next, Sweeps

\* engine.ts, protectInner: however the two legs are placed, moved, replaced or
\* taken off, and whatever fails on the way, no second stop and no second target
\* comes to rest beside the first, as long as the list of open orders has all
\* that rests.
THEOREM OneOfEachRests == "list" \notin FaultKinds /\ Spec => []OneOfEach
<1>1. OneInv /\ [Next]_vars => OneInv'
  BY OneNext
<1>2. SUFFICES ASSUME "list" \notin FaultKinds PROVE Spec => []OneOfEach
  OBVIOUS
<1>3. OneInv => OneOfEach BY <1>2 DEF OneInv, Complete
<1> QED BY <1>1, <1>3, OneInit, PTL DEF Spec

-----------------------------------------------------------------------------
(* The types *)

\* What the engine keeps in memory.
Memory == [deadline : {"none", "armed", "due"}, hold : BOOLEAN, owed : BOOLEAN,
           leftover : BOOLEAN, gaveUp : BOOLEAN]

\* What open() holds besides its copy of the record.
OpeningTyped ==
    /\ opening.at \in {"none", "gates", "acked", "submitted", "done"}
    /\ opening.filled \in 0 .. Requested /\ opening.rejected \in BOOLEAN
    /\ ~Underway => opening.rec = None

TypeInv == OneInv /\ mem \in Memory /\ OpeningTyped /\ faults \in 0 .. MaxFaults

\* What may go wrong is of finitely many kinds.
LEMMA FaultKindsFinite == IsFiniteSet(FaultKinds)
<1>1. AllFaults = {"read"} \cup {"nowhere"} \cup {"list"} \cup {"reject"} \cup {"empty"}
                    \cup {"timeout"} \cup {"cancel"} \cup {"edit"} \cup {"drop"} \cup {"hand"}
                    \cup {"crash"}
  BY DEF AllFaults
<1>2. \A kind : IsFiniteSet({kind}) BY FS_Singleton
<1>3. IsFiniteSet(AllFaults) BY <1>1, <1>2, FS_Union
<1> QED BY <1>3, EngineAssumption, FS_Subset

\* No step has more go wrong than the bound allows.
LEMMA FaultsTyped ==
    ASSUME faults \in 0 .. MaxFaults, [Next]_vars
    PROVE  faults' \in 0 .. MaxFaults
<1> DEFINE Counted == faults' \in 0 .. MaxFaults
<1>0. SUFFICES Counted OBVIOUS
<1>1. \A kind : Fault(kind) => Counted BY EngineAssumption DEF Fault
<1>2. NoFault => Counted BY DEF NoFault
<1>3. \A kind : Costs(kind) => Counted BY <1>1, <1>2 DEF Costs
<1> HIDE DEF Counted
<1>4. CASE Open
  BY <1>1, <1>2, <1>4 DEF Open, OpenStart, OpenRefused, OpenPlace, OpenSubmitted, OpenAbsorb, NoFault
<1>5. CASE LookEntry \/ LookLeg("take_profit") \/ LookLeg("stop_loss") \/ CancelOverdue
  BY <1>1, <1>2, <1>5 DEF LookEntry, LookLeg, CancelOverdue
<1>6. CASE EntryGone \/ PlaceFallback \/ FallbackSent
  BY <1>1, <1>2, <1>6 DEF EntryGone, PlaceFallback, FallbackSent, NoFault
<1>7. CASE ReadBook
  <2>1. NoFault \/ Fault("read") \/ Fault("list") BY <1>7 DEF ReadBook
  <2> QED BY <1>1, <1>2, <2>1
<1>8. CASE SettleLeg("take_profit") \/ SettleLeg("stop_loss")
  <2>1. \E kinds : CostsAll(kinds) BY <1>8 DEF SettleLeg
  <2>2. ASSUME NEW kinds, CostsAll(kinds) PROVE Counted
    <3>1. Cardinality(kinds) \in Nat
      BY <2>2, FaultKindsFinite, FS_Subset, FS_CardinalityType DEF CostsAll
    <3> QED BY <2>2, <3>1, EngineAssumption DEF CostsAll, Counted
  <2> QED BY <2>1, <2>2
<1>9. CASE RecordProtection \/ SubmitClose \/ JudgeExits \/ NeverLanded \/ Poll
           \/ AskClose \/ AskReconcile \/ DeadlinePasses \/ HoldEnds
  BY <1>2, <1>9 DEF RecordProtection, SubmitClose, JudgeExits, NeverLanded, Poll, AskClose,
     AskReconcile, DeadlinePasses, HoldEnds, NoFault
<1>10. CASE ClearProtection BY <1>1, <1>2, <1>10 DEF ClearProtection
<1>11. CASE CancelSiblings \/ SweepLeftovers
  <2>1. \E kind : Costs(kind) BY <1>11 DEF CancelSiblings, SweepLeftovers
  <2> QED BY <1>3, <2>1
<1>12. CASE SendClose
  <2>1. NoFault \/ \E kind : Fault(kind) BY <1>12 DEF SendClose
  <2> QED BY <1>1, <1>2, <2>1
<1>13. CASE FollowUpWaits \/ FollowUp
  <2>1. NoFault \/ \E kind : Fault(kind) BY <1>13 DEF FollowUpWaits, FollowUp
  <2> QED BY <1>1, <1>2, <2>1
<1>14. CASE LookAgain \/ Recover \/ Sync \/ Believe
  <2>1. NoFault \/ \E kind : Fault(kind) BY <1>14 DEF LookAgain, Recover, Sync, Believe
  <2> QED BY <1>1, <1>2, <2>1
<1>15. CASE AskCancel \/ SweepOrphans
  BY <1>1, <1>2, <1>15 DEF AskCancel, SweepOrphans
<1>16. CASE Market
  BY <1>1, <1>2, <1>16 DEF Market, EntryFills, ExitFills, VenueTrims, VenueDrops, ClosedByHand,
     NoFault
<1>17. CASE Restart BY <1>1, <1>17 DEF Restart
<1>18. CASE UNCHANGED vars BY <1>2, <1>18 DEF vars, NoFault
<1> QED
  BY <1>4, <1>5, <1>6, <1>7, <1>8, <1>9, <1>10, <1>11, <1>12, <1>13, <1>14, <1>15, <1>16,
     <1>17, <1>18 DEF Next, Works, Asks, Sweeps

\* The engine's memory stays what it is.
LEMMA MemoryTyped ==
    ASSUME mem \in Memory, [Next]_vars
    PROVE  mem' \in Memory
<1>0. /\ \A b \in BOOLEAN : /\ [mem EXCEPT !.hold = b] \in Memory
                            /\ [mem EXCEPT !.leftover = b] \in Memory
                            /\ [mem EXCEPT !.gaveUp = b] \in Memory
                            /\ [mem EXCEPT !.hold = b, !.owed = b] \in Memory
      /\ \A d \in {"none", "armed", "due"} : [mem EXCEPT !.deadline = d] \in Memory
      /\ mem.deadline \in {"none", "armed", "due"}
  BY DEF Memory
<1>1. NoMem \in Memory BY DEF NoMem, Memory
<1>2. \A sure : NoteLeftover(sure) \in Memory
  <2> TAKE sure
  <2>1. (~sure) \in BOOLEAN OBVIOUS
  <2> QED BY <1>0, <2>1 DEF NoteLeftover
<1>3. CASE Open
  <2>1. CASE OpenSubmitted
    <3>1. mem' = [mem EXCEPT !.deadline = IF Timeout THEN "armed" ELSE mem.deadline]
      BY <2>1 DEF OpenSubmitted
    <3>2. (IF Timeout THEN "armed" ELSE mem.deadline) \in {"none", "armed", "due"} BY <1>0
    <3> QED BY <1>0, <3>1, <3>2
  <2>2. CASE ~OpenSubmitted
    BY <1>3, <2>2 DEF Open, OpenStart, OpenRefused, OpenPlace, OpenAbsorb
  <2> QED BY <2>1, <2>2
<1>4. CASE CancelOverdue
  <2>1. mem' = mem \/ mem' = [mem EXCEPT !.deadline = "none"] BY <1>4 DEF CancelOverdue
  <2> QED BY <1>0, <2>1
<1>5. CASE ReadBook
  <2>1. mem' = mem \/ mem' = [mem EXCEPT !.hold = TRUE] BY <1>5 DEF ReadBook
  <2> QED BY <1>0, <2>1
<1>6. CASE RecordProtection
  <2>1. mem' = [mem EXCEPT !.hold = look.failed # {}, !.owed = look.failed # {}]
    BY <1>6 DEF RecordProtection
  <2>2. (look.failed # {}) \in BOOLEAN OBVIOUS
  <2> QED BY <1>0, <2>1, <2>2
<1>7. CASE CancelSiblings \/ SweepLeftovers
  <2>1. \E sure : mem' = NoteLeftover(sure) BY <1>7 DEF CancelSiblings, SweepLeftovers
  <2> QED BY <1>2, <2>1
<1>8. CASE FollowUp
  <2>1. \A r, v : ResendClose(r, v) => mem' = mem \/ mem' = [mem EXCEPT !.gaveUp = TRUE]
    BY DEF ResendClose
  <2>2. mem' = mem \/ mem' = [mem EXCEPT !.gaveUp = TRUE] BY <1>8, <2>1 DEF FollowUp
  <2> QED BY <1>0, <2>2
<1>9. CASE AskCancel
  <2>1. mem' = [mem EXCEPT !.deadline = "none"] BY <1>9 DEF AskCancel
  <2> QED BY <1>0, <2>1
<1>10. CASE DeadlinePasses
  <2>1. mem' = [mem EXCEPT !.deadline = "due"] BY <1>10 DEF DeadlinePasses
  <2> QED BY <1>0, <2>1
<1>11. CASE HoldEnds
  <2>1. mem' = [mem EXCEPT !.hold = FALSE] BY <1>11 DEF HoldEnds
  <2> QED BY <1>0, <2>1
<1>12. CASE Restart
  <2>1. mem' = NoMem BY <1>12 DEF Restart
  <2> QED BY <1>1, <2>1
<1>13. CASE LookEntry \/ LookLeg("take_profit") \/ LookLeg("stop_loss") \/ EntryGone
            \/ PlaceFallback \/ FallbackSent \/ SettleLeg("take_profit")
            \/ SettleLeg("stop_loss") \/ ClearProtection \/ SubmitClose \/ SendClose
  BY <1>13 DEF LookEntry, LookLeg, EntryGone, PlaceFallback, FallbackSent, SettleLeg,
     ClearProtection, SubmitClose, SendClose
<1>14. CASE JudgeExits \/ FollowUpWaits \/ LookAgain \/ Recover \/ Sync \/ Believe
            \/ NeverLanded \/ Poll \/ AskClose \/ AskReconcile \/ SweepOrphans
  BY <1>14 DEF JudgeExits, FollowUpWaits, LookAgain, Recover, Sync, Believe, NeverLanded,
     Poll, AskClose, AskReconcile, SweepOrphans
<1>15. CASE Market
  BY <1>15 DEF Market, EntryFills, ExitFills, VenueTrims, VenueDrops, ClosedByHand
<1>16. CASE UNCHANGED vars BY <1>16 DEF vars
<1> QED
  BY <1>3, <1>4, <1>5, <1>6, <1>7, <1>8, <1>9, <1>10, <1>11, <1>12, <1>13, <1>14, <1>15,
     <1>16 DEF Next, Works, Asks, Sweeps

\* What open() holds stays what it is: it got an answer about its own entry.
LEMMA OpeningStays ==
    ASSUME OneInv, OneInv', OpeningTyped, [Next]_vars
    PROVE  OpeningTyped'
<1> DEFINE done == [NoOpen EXCEPT !.at = "done"]
           Typed(o) ==
             /\ o.at \in {"none", "gates", "acked", "submitted", "done"}
             /\ o.filled \in 0 .. Requested /\ o.rejected \in BOOLEAN
             /\ o.at \notin {"gates", "acked", "submitted"} => o.rec = None
<1>1. OpeningTyped <=> Typed(opening) BY DEF OpeningTyped, Underway
<1>2. OpeningTyped' <=> Typed(opening') BY DEF OpeningTyped, Underway
<1>3. {"at", "rec", "filled", "rejected"} \subseteq DOMAIN opening BY DEF OneInv, BooksInv
<1>4. /\ Typed(done) /\ Typed([NoOpen EXCEPT !.at = "none"])
      /\ \A r : Typed([NoOpen EXCEPT !.at = "gates", !.rec = r])
  BY PlanAssumption DEF NoOpen
<1>5. CASE UNCHANGED opening BY <1>1, <1>2, <1>5
<1>6. CASE Open
  <2>1. CASE OpenStart BY <1>2, <1>4, <2>1 DEF OpenStart
  <2>2. CASE OpenRefused \/ OpenAbsorb
    <3>1. opening' = done BY <2>2 DEF OpenRefused, OpenAbsorb, OpenEnds
    <3> QED BY <1>2, <1>4, <3>1
  <2>3. CASE OpenPlace
    <3>1. \/ opening' = done
          \/ opening' = [opening EXCEPT
                           !.at = "acked",
                           !.filled = venue'.order[Entry].filled,
                           !.rejected = venue'.order[Entry].status = "rejected"]
      BY <2>3 DEF OpenPlace, OpenEnds
    <3>2. venue'.order[Entry].filled \in 0 .. Requested
      <4>1. Accounts(venue') BY DEF OneInv
      <4> QED BY <4>1, AccountsSay, Elements
    <3>3. (venue'.order[Entry].status = "rejected") \in BOOLEAN OBVIOUS
    <3>4. CASE opening' = [opening EXCEPT
                           !.at = "acked",
                           !.filled = venue'.order[Entry].filled,
                           !.rejected = venue'.order[Entry].status = "rejected"]
      <4>1. opening'.at = "acked" /\ opening'.filled = venue'.order[Entry].filled
            /\ opening'.rejected = (venue'.order[Entry].status = "rejected")
        BY <1>3, <3>4
      <4> QED BY <1>2, <3>2, <3>3, <4>1
    <3> QED BY <1>2, <1>4, <3>1, <3>4
  <2>4. CASE OpenSubmitted
    <3>1. \E r : opening' = [opening EXCEPT !.at = "submitted", !.rec = r]
      BY <2>4 DEF OpenSubmitted
    <3>2. opening'.at = "submitted" /\ opening'.filled = opening.filled
          /\ opening'.rejected = opening.rejected
      BY <1>3, <3>1
    <3> QED BY <1>1, <1>2, <3>2
  <2> QED BY <1>6, <2>1, <2>2, <2>3, <2>4 DEF Open
<1>7. CASE Restart
  <2>1. opening' = done \/ opening' = [NoOpen EXCEPT !.at = "none"] BY <1>7 DEF Restart
  <2> QED BY <1>2, <1>4, <2>1
<1>8. ~Open /\ ~Restart => UNCHANGED opening
  <2>1. Works => UNCHANGED opening
    BY DEF Works, LookEntry, LookLeg, CancelOverdue, EntryGone, PlaceFallback, FallbackSent,
       ReadBook, SettleLeg, RecordProtection, ClearProtection, CancelSiblings, SubmitClose,
       SendClose, JudgeExits, FollowUpWaits, FollowUp, LookAgain, Recover, Sync, Believe,
       NeverLanded
  <2>2. Poll \/ Asks \/ Sweeps \/ DeadlinePasses \/ HoldEnds => UNCHANGED opening
    BY DEF Poll, Asks, AskClose, AskReconcile, AskCancel, Sweeps, SweepLeftovers,
       SweepOrphans, DeadlinePasses, HoldEnds
  <2>3. Market => UNCHANGED opening
    BY DEF Market, EntryFills, ExitFills, VenueTrims, VenueDrops, ClosedByHand
  <2> QED BY <2>1, <2>2, <2>3 DEF Next, vars
<1> QED BY <1>5, <1>6, <1>7, <1>8

\* TypeInv is inductive.
LEMMA TypeInit == Init => TypeInv
<1> SUFFICES ASSUME Init PROVE TypeInv
  OBVIOUS
<1>1. mem \in Memory BY DEF Init, NoMem, Memory
<1>2. OpeningTyped BY PlanAssumption DEF Init, NoOpen, OpeningTyped, Underway
<1>3. faults \in 0 .. MaxFaults BY EngineAssumption DEF Init
<1> QED BY <1>1, <1>2, <1>3, OneInit DEF TypeInv

LEMMA TypeNext ==
    ASSUME TypeInv, [Next]_vars
    PROVE  TypeInv'
  BY OneNext, FaultsTyped, MemoryTyped, OpeningStays DEF TypeInv

\* Where the journal has room for the marks of every exit TypeInv has the types.
LEMMA TypeHolds ==
    ASSUME MaxExits <= MaxMarks, TypeInv
    PROVE  TypeOK
<1>1. /\ Accounts(venue) /\ CopiesProper /\ JobProper /\ BooksInv /\ OpeningTyped
      /\ mem \in Memory
  BY DEF TypeInv, OneInv
<1>2. todo \in Seq(Stage) BY <1>1 DEF JobProper, Ordered
<1>3. LookProper(look) BY <1>1, LooksProper DEF CopiesProper
<1>4. trade \in TradeRecord \cup {None}
  BY <1>1, ProperBound DEF CopiesProper, BooksInv
<1>5. rec \in TradeRecord \cup {None}
  BY <1>1, ProperBound DEF CopiesProper, BooksInv
<1>6. opening.rec \in TradeRecord \cup {None}
  BY <1>1, ProperBound DEF CopiesProper, BooksInv, OpeningTyped
<1>7. venue \in VenueState BY <1>1, AccountsSay
<1>8. /\ mem.deadline \in {"none", "armed", "due"}
      /\ \A f \in {"hold", "owed", "leftover", "gaveUp"} : mem[f] \in BOOLEAN
  BY <1>1 DEF Memory
<1>9. faults \in 0 .. MaxFaults BY DEF TypeInv
<1> QED
  BY <1>1, <1>2, <1>3, <1>4, <1>5, <1>6, <1>7, <1>8, <1>9 DEF TypeOK, LookProper, OpeningTyped

\* engine.ts, types.ts: whatever goes wrong and however often, a record names only
\* orders of the trade's own in their places and no size over twice the plan, no
\* order at the exchange is for more than that or filled past it, and the stages a
\* job has to go are stages of the code.  The bounds of the model leave room for
\* the protection event that each exit may bring.
THEOREM EngineTypeCorrect == MaxExits <= MaxMarks /\ Spec => []TypeOK
<1>1. TypeInv /\ [Next]_vars => TypeInv' BY TypeNext
<1>2. SUFFICES ASSUME MaxExits <= MaxMarks PROVE Spec => []TypeOK
  OBVIOUS
<1>3. TypeInv => TypeOK BY <1>2, TypeHolds
<1> QED BY <1>1, <1>3, TypeInit, PTL DEF Spec

=============================================================================
