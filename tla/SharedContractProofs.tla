------------------------ MODULE SharedContractProofs ------------------------
(***************************************************************************)
(* Theorems of SharedContract for any number of trades on the contract,    *)
(* any sizes and any number of faults: the types, that no trade takes an   *)
(* open sibling's exit off the book, what it takes to write a trade off    *)
(* that holds, and what the start may write over a record.                 *)
(***************************************************************************)
EXTENDS SharedContract, FiniteSetTheorems, TLAPS

-----------------------------------------------------------------------------
(* Sums over the trades *)

\* Two functions summed over the same set, of which the folds take one element
\* more, and what is known of the one sum from the other.
AddOne(p, x, n) == p.one[x] + n
AddTwo(p, x, n) == p.two[x] + n

Compared(p, S, a, b) ==
    (\A x \in S : p.one[x] \in Int /\ p.two[x] \in Int) =>
      /\ a \in Int /\ b \in Int
      /\ (\A x \in S : p.one[x] = 0) => a = 0
      /\ \A t \in S :
           (\A x \in S \ {t} : p.two[x] = p.one[x]) => b = a + p.two[t] - p.one[t]
      /\ (\A x \in S : p.two[x] = p.one[x]) => b = a
      /\ (\A x \in S : p.one[x] <= p.two[x]) =>
           a <= b /\ \A t \in S : p.two[t] - p.one[t] <= b - a

Adding == INSTANCE Folding WITH One <- AddOne, Two <- AddTwo, Good <- Compared

LEMMA SumsAreFolds ==
    ASSUME NEW p
    PROVE  /\ SumFunction(p.one) = Adding!FoldOne(p, 0, DOMAIN p.one)
           /\ SumFunction(p.two) = Adding!FoldTwo(p, 0, DOMAIN p.two)
BY DEF SumFunction, SumFunctionOnSet, FoldFunctionOnSet, MapThenFoldSet, Adding!FoldOne,
  Adding!FoldTwo, Adding!FoldSet, Adding!MapThenFoldSet, AddOne, AddTwo

\* An element more of both sums.
LEMMA OneMore ==
    ASSUME NEW p, NEW s, NEW y \in s, NEW a, NEW b, Compared(p, s \ {y}, a, b)
    PROVE  Compared(p, s, AddOne(p, y, a), AddTwo(p, y, b))
<1> SUFFICES ASSUME \A x \in s : p.one[x] \in Int /\ p.two[x] \in Int
             PROVE  Compared(p, s, AddOne(p, y, a), AddTwo(p, y, b))
  BY DEF Compared
<1> DEFINE f == p.one
           g == p.two
<1>1. /\ a \in Int /\ b \in Int
      /\ (\A x \in s \ {y} : f[x] = 0) => a = 0
      /\ \A t \in s \ {y} :
           (\A x \in (s \ {y}) \ {t} : g[x] = f[x]) => b = a + g[t] - f[t]
      /\ (\A x \in s \ {y} : g[x] = f[x]) => b = a
      /\ (\A x \in s \ {y} : f[x] <= g[x]) =>
           a <= b /\ \A t \in s \ {y} : g[t] - f[t] <= b - a
  BY DEF Compared
<1>2. \A x \in s : f[x] \in Int /\ g[x] \in Int
  OBVIOUS
<1> SUFFICES /\ f[y] + a \in Int /\ g[y] + b \in Int
             /\ (\A x \in s : f[x] = 0) => f[y] + a = 0
             /\ \A t \in s :
                  (\A x \in s \ {t} : g[x] = f[x]) => g[y] + b = f[y] + a + g[t] - f[t]
             /\ (\A x \in s : g[x] = f[x]) => g[y] + b = f[y] + a
             /\ (\A x \in s : f[x] <= g[x]) =>
                  /\ f[y] + a <= g[y] + b
                  /\ \A t \in s : g[t] - f[t] <= (g[y] + b) - (f[y] + a)
  BY DEF Compared, AddOne, AddTwo
<1> HIDE DEF f, g
<1>3. f[y] + a \in Int /\ g[y] + b \in Int
  BY <1>1, <1>2
<1>4. (\A x \in s : f[x] = 0) => f[y] + a = 0
  BY <1>1
<1>5. ASSUME NEW t \in s, \A x \in s \ {t} : g[x] = f[x]
      PROVE  g[y] + b = f[y] + a + g[t] - f[t]
  <2>1. CASE t = y
    BY <1>1, <1>2, <1>5, <2>1
  <2>2. CASE t # y
    <3>1. b = a + g[t] - f[t] /\ g[y] = f[y]
      BY <1>1, <1>5, <2>2
    <3> QED
      BY <1>1, <1>2, <3>1
  <2> QED
    BY <2>1, <2>2
<1>6. (\A x \in s : g[x] = f[x]) => g[y] + b = f[y] + a
  BY <1>1
<1>7. ASSUME \A x \in s : f[x] <= g[x]
      PROVE  /\ f[y] + a <= g[y] + b
             /\ \A t \in s : g[t] - f[t] <= (g[y] + b) - (f[y] + a)
  <2>1. a <= b /\ f[y] <= g[y]
    BY <1>1, <1>7
  <2>2. \A t \in s \ {y} : g[t] - f[t] <= b - a
    BY <1>1, <1>7
  <2>3. \A t \in s : g[t] - f[t] <= (g[y] + b) - (f[y] + a)
    <3> TAKE t \in s
    <3>1. CASE t = y
      BY <1>1, <1>2, <2>1, <3>1
    <3>2. CASE t # y
      BY <1>1, <1>2, <2>1, <2>2, <3>2
    <3> QED
      BY <3>1, <3>2
  <2> QED
    BY <1>1, <1>2, <2>1, <2>3
<1> QED
  BY <1>3, <1>4, <1>5, <1>6, <1>7

\* So it is of the sums of two functions on a finite set.
LEMMA SumsCompared ==
    ASSUME NEW S, IsFiniteSet(S), NEW f, NEW g, DOMAIN f = S, DOMAIN g = S,
           \A x \in S : f[x] \in Int /\ g[x] \in Int
    PROVE  /\ SumFunction(f) \in Int /\ SumFunction(g) \in Int
           /\ (\A x \in S : f[x] = 0) => SumFunction(f) = 0
           /\ \A t \in S : (\A x \in S \ {t} : g[x] = f[x]) =>
                SumFunction(g) = SumFunction(f) + g[t] - f[t]
           /\ (\A x \in S : f[x] <= g[x]) =>
                /\ SumFunction(f) <= SumFunction(g)
                /\ \A t \in S : g[t] - f[t] <= SumFunction(g) - SumFunction(f)
<1> DEFINE p == [one |-> f, two |-> g]
<1>1. p.one = f /\ p.two = g
  OBVIOUS
<1> HIDE DEF p
<1>2. IsFiniteSet(S) <=> Adding!IsFiniteSet(S)
  BY DEF IsFiniteSet, Adding!IsFiniteSet
<1>3. Compared(p, {}, 0, 0)
  BY DEF Compared
<1>4. \A s \in SUBSET S : \A x \in s : \A t, u :
        Compared(p, s \ {x}, t, u) => Compared(p, s, AddOne(p, x, t), AddTwo(p, x, u))
  BY OneMore
<1>5. Compared(p, S, Adding!FoldOne(p, 0, S), Adding!FoldTwo(p, 0, S))
  BY <1>2, <1>3, <1>4, Adding!FoldTogether
<1>6. Compared(p, S, SumFunction(f), SumFunction(g))
  BY <1>1, <1>5, SumsAreFolds
<1> QED
  BY <1>1, <1>6 DEF Compared

-----------------------------------------------------------------------------
(* What the records, the jobs and the exchange are *)

Phases == {"none", "sent", "held", "done"}
Steps == {"net", "siblings", "judge", "again", "protect", "settle", "clear", "cancel"}
Fields == {"phase", "pos", "cover", "sold", "bought", "missed"}

\* A record, where the trade has sold s and bought b: what it has of the fills
\* is no more than there is, what it holds is no more than the contract can.
GoodRec(r, s, b) ==
    /\ DOMAIN r = Fields
    /\ r.phase \in Phases
    /\ r.pos \in Int /\ -Most <= r.pos /\ r.pos <= Most
    /\ r.sold = 0 \/ r.sold = s
    /\ r.bought \in Nat /\ r.missed \in Nat /\ r.bought + r.missed <= b
    /\ r.phase = "held" => r.pos # 0
    /\ r.phase \in {"none", "sent"} => r.pos = 0 /\ r.sold = 0
    /\ r.phase = "none" => s = 0

\* A job: only of a trade that has begun, it protects only what is held, and
\* an unshared contract's share is all of it.
GoodJob(j, r) ==
    j # None =>
      /\ j.step \in Steps
      /\ r.phase # "none"
      /\ j.step \in {"protect", "settle"} => r.pos > 0
      /\ j.step \in {"siblings", "judge"} => j.net \in 0 .. Most
      /\ j.step \in {"siblings", "judge", "again"} => j.was \in Int
      /\ j.step = "judge" /\ ~j.shared => j.held = j.net

ExchangeInv ==
    /\ DOMAIN sold = Trade /\ \A t \in Trade : sold[t] = 0 \/ sold[t] = Lots[t]
    /\ DOMAIN bought = Trade /\ \A t \in Trade : bought[t] \in Nat
    /\ DOMAIN rest = Trade /\ \A t \in Trade : rest[t] \in 0 .. Most
    /\ hand \in Nat /\ bad \in Nat /\ Net \in Nat

BooksInv ==
    /\ ExchangeInv
    /\ DOMAIN rec = Trade /\ \A t \in Trade : GoodRec(rec[t], sold[t], bought[t])
    /\ DOMAIN job = Trade /\ \A t \in Trade : GoodJob(job[t], rec[t])
    /\ start = None \/ start \subseteq Trade

\* What has been bought back is never more than what can have been sold.
LEMMA Sizes ==
    ASSUME ExchangeInv
    PROVE  /\ Most \in Nat /\ Net <= Most
           /\ \A t \in Trade : Lots[t] \in Nat /\ Lots[t] # 0 /\ Lots[t] <= Most
           /\ \A t \in Trade : sold[t] \in Nat /\ sold[t] <= Most
           /\ \A t \in Trade : bought[t] <= Most
<1>1. /\ IsFiniteSet(Trade) /\ DOMAIN Lots = Trade
      /\ \A t \in Trade : Lots[t] \in Nat /\ Lots[t] # 0
  BY ContractAssumption
<1>2. /\ DOMAIN Share = Trade
      /\ \A t \in Trade : sold[t] \in Nat /\ sold[t] <= Lots[t] /\ Share[t] = sold[t] - bought[t]
  BY <1>1 DEF Share, ExchangeInv
<1>3. \A t \in Trade : bought[t] \in Nat /\ Share[t] \in Int /\ Share[t] <= Lots[t]
  BY <1>1, <1>2 DEF ExchangeInv
<1> DEFINE zero == [t \in Trade |-> 0]
<1>4. DOMAIN zero = Trade /\ \A t \in Trade : zero[t] = 0
  OBVIOUS
<1>5. /\ SumFunction(Share) \in Int /\ Most \in Int
      /\ SumFunction(Share) <= Most
      /\ \A t \in Trade : Lots[t] - Share[t] <= Most - SumFunction(Share)
  <2> HIDE DEF zero
  <2> QED
    BY <1>1, <1>2, <1>3, SumsCompared DEF Most
<1>6. SumFunction(zero) = 0 /\ \A t \in Trade : Lots[t] <= Most
  <2> HIDE DEF zero
  <2>1. \A x \in Trade : zero[x] \in Int /\ Lots[x] \in Int /\ zero[x] <= Lots[x]
    BY <1>1, <1>4
  <2>2. /\ SumFunction(zero) = 0
        /\ \A t \in Trade : Lots[t] - zero[t] <= SumFunction(Lots) - SumFunction(zero)
    BY <1>1, <1>4, <2>1, SumsCompared
  <2> QED
    BY <1>1, <1>4, <1>5, <2>2 DEF Most
<1>7. Most \in Nat
  <2>1. Net \in Nat /\ hand \in Nat /\ Net = SumFunction(Share) - hand
    BY DEF ExchangeInv, Net
  <2> QED
    BY <1>5, <2>1
<1>8. Net <= Most /\ SumFunction(Share) >= 0
  BY <1>5 DEF ExchangeInv, Net
<1>9. \A t \in Trade : bought[t] <= Most
  <2> TAKE t \in Trade
  <2>1. /\ bought[t] \in Nat /\ sold[t] \in Nat /\ Lots[t] \in Nat /\ sold[t] <= Lots[t]
        /\ Share[t] = sold[t] - bought[t] /\ Lots[t] - Share[t] <= Most - SumFunction(Share)
    BY <1>1, <1>2, <1>3, <1>5
  <2> QED
    BY <1>5, <1>8, <2>1
<1> QED
  BY <1>1, <1>2, <1>6, <1>7, <1>8, <1>9

\* Where every trade holds no less than nothing, none holds more than all do.
LEMMA ShareOfAll ==
    ASSUME ExchangeInv, \A t \in Trade : Share[t] >= 0
    PROVE  \A t \in Trade : Share[t] <= Net + hand
<1> DEFINE zero == [t \in Trade |-> 0]
<1>1. DOMAIN zero = Trade /\ \A t \in Trade : zero[t] = 0
  OBVIOUS
<1> HIDE DEF zero
<1>2. DOMAIN Share = Trade /\ \A t \in Trade : Share[t] \in Int
  BY ContractAssumption DEF Share, ExchangeInv
<1>3. IsFiniteSet(Trade)
  BY ContractAssumption
<1>4. /\ SumFunction(Share) \in Int /\ SumFunction(zero) = 0
      /\ \A t \in Trade : Share[t] - zero[t] <= SumFunction(Share) - SumFunction(zero)
  BY <1>1, <1>2, <1>3, SumsCompared
<1>5. hand \in Nat /\ Net = SumFunction(Share) - hand
  BY DEF ExchangeInv, Net
<1> QED
  BY <1>1, <1>2, <1>4, <1>5

\* A trade that alone has contracts has all of them.
LEMMA ShareAlone ==
    ASSUME ExchangeInv, NEW t \in Trade, \A u \in Trade \ {t} : Share[u] = 0
    PROVE  Share[t] = Net + hand
<1> DEFINE zero == [u \in Trade |-> 0]
<1>1. DOMAIN zero = Trade /\ \A u \in Trade : zero[u] = 0
  OBVIOUS
<1> HIDE DEF zero
<1>2. DOMAIN Share = Trade /\ \A u \in Trade : Share[u] \in Int
  BY ContractAssumption DEF Share, ExchangeInv
<1>3. IsFiniteSet(Trade)
  BY ContractAssumption
<1>4. /\ SumFunction(zero) = 0 /\ SumFunction(Share) \in Int
      /\ SumFunction(Share) = SumFunction(zero) + Share[t] - zero[t]
  BY <1>1, <1>2, <1>3, SumsCompared
<1>5. hand \in Nat /\ Net = SumFunction(Share) - hand
  BY DEF ExchangeInv, Net
<1> QED
  BY <1>1, <1>2, <1>4, <1>5

\* No sibling, nothing of theirs.
LEMMA NoneOfTheirs ==
    ASSUME NEW t, SiblingsOn(t) = {}
    PROVE  Theirs(t) = 0
<1> DEFINE f == [u \in SiblingsOn(t) |-> rec[u].pos]
<1>1. DOMAIN f = {} /\ Theirs(t) = SumFunction(f)
  BY DEF Theirs
<1> HIDE DEF f
<1>2. IsFiniteSet({})
  BY FS_EmptySet
<1> QED
  BY <1>1, <1>2, SumsCompared

-----------------------------------------------------------------------------
(* The exchange's steps *)

\* One trade's share changes: the position changes by as much.
LEMMA NetMoves ==
    ASSUME ExchangeInv, NEW t \in Trade, hand' = hand,
           \A u \in Trade : sold'[u] - bought'[u] \in Int,
           \A u \in Trade \ {t} : sold'[u] = sold[u] /\ bought'[u] = bought[u]
    PROVE  /\ Net' = Net + Share'[t] - Share[t]
           /\ Share'[t] = sold'[t] - bought'[t] /\ Share[t] = sold[t] - bought[t]
<1>1. /\ DOMAIN Share = Trade /\ DOMAIN Share' = Trade /\ IsFiniteSet(Trade)
      /\ \A u \in Trade : Share[u] = sold[u] - bought[u] /\ Share'[u] = sold'[u] - bought'[u]
  BY ContractAssumption DEF Share
<1>2. \A u \in Trade : Share[u] \in Int /\ Share'[u] \in Int
  BY <1>1, Sizes DEF ExchangeInv
<1>3. \A u \in Trade \ {t} : Share'[u] = Share[u]
  BY <1>1
<1>4. /\ SumFunction(Share) \in Int /\ SumFunction(Share') \in Int
      /\ SumFunction(Share') = SumFunction(Share) + Share'[t] - Share[t]
  BY <1>1, <1>2, <1>3, SumsCompared
<1>5. Net = SumFunction(Share) - hand /\ Net' = SumFunction(Share') - hand /\ hand \in Nat
  BY DEF Net, ExchangeInv
<1> QED
  BY <1>1, <1>2, <1>4, <1>5

LEMMA NetStays ==
    ASSUME UNCHANGED <<sold, bought, hand>>
    PROVE  Net' = Net /\ Share' = Share
BY DEF Net, Share

LEMMA BooksInit == Init => BooksInv
<1> SUFFICES ASSUME Init PROVE BooksInv
  OBVIOUS
<1>1. DOMAIN Share = Trade /\ \A t \in Trade : Share[t] = 0
  BY DEF Init, Share
<1>2. DOMAIN Lots = Trade /\ IsFiniteSet(Trade) /\ \A t \in Trade : Lots[t] \in Int /\ 0 <= Lots[t]
  BY ContractAssumption
<1>3. SumFunction(Share) = 0 /\ Most \in Int /\ SumFunction(Share) <= Most
  BY <1>1, <1>2, SumsCompared DEF Most
<1>4. Net = 0 /\ Most \in Nat
  BY <1>3 DEF Net, Init
<1>5. ExchangeInv
  BY <1>4 DEF Init, ExchangeInv
<1>6. \A t \in Trade : GoodRec(rec[t], sold[t], bought[t])
  BY <1>4 DEF Init, GoodRec, Fields, Phases
<1> QED
  BY <1>5, <1>6 DEF Init, BooksInv, GoodJob

\* Only the exchange's own numbers move, and no trade's fills shrink.
LEMMA ExchangeMoves ==
    ASSUME BooksInv, ExchangeInv', UNCHANGED <<rec, job, start>>,
           \A t \in Trade :
             /\ sold'[t] = sold[t] \/ (sold[t] = 0 /\ rec[t].phase # "none")
             /\ bought'[t] >= bought[t]
    PROVE  BooksInv'
<1>1. ASSUME NEW t \in Trade
      PROVE  GoodRec(rec[t], sold'[t], bought'[t])
  <2>1. GoodRec(rec[t], sold[t], bought[t]) /\ bought[t] \in Nat /\ bought'[t] \in Nat
    BY DEF BooksInv, ExchangeInv
  <2>2. rec[t].bought + rec[t].missed <= bought'[t]
    BY <2>1 DEF GoodRec
  <2>3. rec[t].sold = 0 \/ rec[t].sold = sold'[t]
    BY <2>1 DEF GoodRec
  <2>4. rec[t].phase = "none" => sold'[t] = 0
    BY <2>1 DEF GoodRec
  <2> QED
    BY <2>1, <2>2, <2>3, <2>4 DEF GoodRec
<1>2. /\ \A t \in Trade : GoodRec(rec'[t], sold'[t], bought'[t])
      /\ \A t \in Trade : GoodJob(job'[t], rec'[t])
  BY <1>1 DEF BooksInv
<1> QED
  BY <1>2 DEF BooksInv, GoodRec, GoodJob

LEMMA BooksExchange == BooksInv /\ Exchange => BooksInv'
<1> SUFFICES ASSUME BooksInv, Exchange PROVE BooksInv'
  OBVIOUS
<1>0. ExchangeInv /\ Most \in Nat /\ \A t \in Trade : sold[t] \in Nat /\ bought[t] \in Nat
  BY Sizes DEF BooksInv, ExchangeInv
<1>1. CASE HandBuys
  <2>1. Net' = Net - 1 /\ hand' \in Nat
    <3>1. Share' = Share /\ SumFunction(Share) \in Int
      <4>1. DOMAIN Share = Trade /\ IsFiniteSet(Trade) /\ \A t \in Trade : Share[t] \in Int
        BY <1>0, ContractAssumption DEF Share
      <4>2. SumFunction(Share) \in Int
        BY <4>1, SumsCompared
      <4> QED
        BY <1>1, <4>2 DEF HandBuys, Share
    <3>2. hand' = hand + 1 /\ hand \in Nat
      BY <1>0, <1>1 DEF HandBuys, ExchangeInv
    <3>3. Net = SumFunction(Share) - hand /\ Net' = SumFunction(Share) - hand'
      BY <3>1 DEF Net
    <3> QED
      BY <3>1, <3>2, <3>3
  <2>2. Net > 0 /\ Net \in Nat
    BY <1>0, <1>1 DEF HandBuys, ExchangeInv
  <2>3. ExchangeInv'
    BY <1>0, <1>1, <2>1, <2>2 DEF HandBuys, faultVars, ExchangeInv
  <2>4. \A u \in Trade :
          /\ sold'[u] = sold[u] \/ (sold[u] = 0 /\ rec[u].phase # "none")
          /\ bought'[u] >= bought[u]
    BY <1>0, <1>1 DEF HandBuys
  <2> QED
    BY <1>1, <2>3, <2>4, ExchangeMoves DEF HandBuys
<1>2. ASSUME NEW t \in Trade, EntryFills(t)
      PROVE  BooksInv'
  <2>1. sold[t] = 0 /\ rec[t].phase # "none" /\ bought' = bought /\ hand' = hand
    BY <1>2 DEF EntryFills
  <2>2. /\ DOMAIN sold' = Trade /\ sold'[t] = Lots[t]
        /\ \A u \in Trade \ {t} : sold'[u] = sold[u]
    BY <1>0, <1>2 DEF EntryFills, ExchangeInv
  <2>3. Lots[t] \in Nat /\ \A u \in Trade : sold'[u] \in Nat
    BY <1>0, <2>2, Sizes
  <2>4. Net' \in Nat
    <3>1. Net' = Net + Share'[t] - Share[t] /\ Share'[t] = Lots[t] - bought[t] /\ Share[t] = 0 - bought[t]
      BY <1>0, <2>1, <2>2, <2>3, NetMoves
    <3>2. Net \in Nat
      BY <1>0 DEF ExchangeInv
    <3> QED
      BY <1>0, <2>3, <3>1, <3>2
  <2>5. ExchangeInv'
    BY <1>0, <1>2, <2>1, <2>2, <2>4 DEF EntryFills, faultVars, ExchangeInv
  <2>6. \A u \in Trade :
          /\ sold'[u] = sold[u] \/ (sold[u] = 0 /\ rec[u].phase # "none")
          /\ bought'[u] >= bought[u]
    BY <1>0, <2>1, <2>2
  <2> QED
    BY <1>2, <2>5, <2>6, ExchangeMoves DEF EntryFills
<1>3. ASSUME NEW t \in Trade, ExitFills(t)
      PROVE  BooksInv'
  <2>1. PICK n \in 1 .. rest[t] :
          /\ n <= Net /\ bought' = [bought EXCEPT ![t] = @ + n]
          /\ rest' = [rest EXCEPT ![t] = @ - n]
    BY <1>3 DEF ExitFills
  <2>2. rest[t] \in 0 .. Most /\ n \in Nat /\ Net \in Nat
    BY <1>0 DEF ExchangeInv
  <2>3. /\ DOMAIN bought' = Trade /\ bought'[t] = bought[t] + n
        /\ DOMAIN rest' = Trade /\ rest'[t] = rest[t] - n
        /\ \A u \in Trade \ {t} : bought'[u] = bought[u] /\ rest'[u] = rest[u]
        /\ sold' = sold /\ hand' = hand
    BY <1>0, <1>3, <2>1 DEF ExitFills, ExchangeInv
  <2>4. Net' \in Nat
    <3>1. /\ Net' = Net + Share'[t] - Share[t]
          /\ Share'[t] = sold[t] - (bought[t] + n) /\ Share[t] = sold[t] - bought[t]
      BY <1>0, <2>2, <2>3, NetMoves
    <3> QED
      BY <1>0, <2>1, <2>2, <3>1
  <2>5. \A u \in Trade : bought'[u] \in Nat /\ bought'[u] >= bought[u] /\ rest'[u] \in 0 .. Most
    <3> TAKE u \in Trade
    <3>1. rest[u] \in 0 .. Most
      BY <1>0 DEF ExchangeInv
    <3> QED
      BY <1>0, <2>2, <2>3, <3>1
  <2>6. ExchangeInv'
    BY <1>0, <1>3, <2>3, <2>4, <2>5 DEF ExitFills, faultVars, ExchangeInv
  <2>7. \A u \in Trade :
          /\ sold'[u] = sold[u] \/ (sold[u] = 0 /\ rec[u].phase # "none")
          /\ bought'[u] >= bought[u]
    BY <2>3, <2>5
  <2> QED
    BY <1>3, <2>6, <2>7, ExchangeMoves DEF ExitFills
<1>4. ASSUME NEW t \in Trade, ExitDropped(t)
      PROVE  BooksInv'
  <2>1. Net' = Net
    BY <1>4, NetStays DEF ExitDropped
  <2>2. ExchangeInv'
    BY <1>0, <1>4, <2>1 DEF ExitDropped, faultVars, ExchangeInv
  <2>3. \A u \in Trade :
          /\ sold'[u] = sold[u] \/ (sold[u] = 0 /\ rec[u].phase # "none")
          /\ bought'[u] >= bought[u]
    BY <1>0, <1>4 DEF ExitDropped
  <2> QED
    BY <1>4, <2>2, <2>3, ExchangeMoves DEF ExitDropped
<1> QED
  BY <1>1, <1>2, <1>3, <1>4 DEF Exchange

-----------------------------------------------------------------------------
(* The steps of a job *)

\* What booking makes of a record.
LEMMA BookedIs ==
    ASSUME NEW t, NEW b, DOMAIN rec[t] = Fields
    PROVE  LET r == Booked(t, b) IN
             /\ DOMAIN r = Fields /\ r.missed = rec[t].missed /\ r.cover = rec[t].cover
             /\ r.sold = sold[t] /\ r.bought = b
             /\ \/ rec[t].sold = sold[t] /\ rec[t].bought = b /\ r = rec[t]
                \/ /\ ~(rec[t].sold = sold[t] /\ rec[t].bought = b)
                   /\ r.pos = sold[t] - b
                   /\ r.phase = IF sold[t] = b THEN "done" ELSE "held"
BY DEF Booked, Fields

\* A record with all the trade has sold and b bought back.
GoodBooking(r, s, b) ==
    /\ DOMAIN r = Fields /\ r.phase \in Phases /\ r.phase # "none"
    /\ r.pos \in Int /\ -Most <= r.pos /\ r.pos <= Most
    /\ r.sold = s /\ r.bought = b
    /\ r.phase = "held" => r.pos # 0
    /\ r.phase = "sent" => r.pos = 0 /\ r.sold = 0

LEMMA BookedGood ==
    ASSUME BooksInv, NEW t \in Trade, NEW b \in Nat,
           rec[t].bought <= b, b <= bought[t], rec[t].phase # "none"
    PROVE  GoodBooking(Booked(t, b), sold[t], b)
<1> DEFINE r == Booked(t, b)
<1>1. GoodRec(rec[t], sold[t], bought[t]) /\ ExchangeInv
  BY DEF BooksInv
<1>2. /\ DOMAIN r = Fields /\ r.sold = sold[t] /\ r.bought = b
      /\ \/ r = rec[t]
         \/ r.pos = sold[t] - b /\ r.phase = IF sold[t] = b THEN "done" ELSE "held"
  BY <1>1, BookedIs DEF GoodRec
<1>3. Most \in Nat /\ sold[t] \in Nat /\ sold[t] <= Most /\ bought[t] \in Nat /\ bought[t] <= Most
  BY <1>1, Sizes DEF ExchangeInv
<1> HIDE DEF r
<1>4. CASE r = rec[t]
  BY <1>1, <1>2, <1>4 DEF GoodRec, GoodBooking, r
<1>5. CASE r.pos = sold[t] - b /\ r.phase = IF sold[t] = b THEN "done" ELSE "held"
  <2>1. r.pos \in Int /\ -Most <= r.pos /\ r.pos <= Most
    BY <1>3, <1>5
  <2>2. r.phase = "held" => r.pos # 0
    BY <1>3, <1>5
  <2>3. r.phase \in Phases /\ r.phase # "none" /\ r.phase # "sent"
    BY <1>5 DEF Phases
  <2> QED
    BY <1>2, <2>1, <2>2, <2>3 DEF GoodBooking, r
<1> QED
  BY <1>2, <1>4, <1>5

LEMMA AbsorbedGood ==
    ASSUME BooksInv, NEW t \in Trade, rec[t].phase # "none"
    PROVE  /\ GoodRec(Absorbed(t), sold[t], bought[t]) /\ Absorbed(t).phase # "none"
           /\ Absorbed(t).sold = sold[t] /\ Absorbed(t).bought = bought[t]
           /\ Absorbed(t).missed = 0
<1> DEFINE r == Booked(t, bought[t])
<1>1. GoodRec(rec[t], sold[t], bought[t]) /\ bought[t] \in Nat
  BY DEF BooksInv, ExchangeInv
<1>2. rec[t].bought <= bought[t]
  BY <1>1 DEF GoodRec
<1>3. GoodBooking(r, sold[t], bought[t])
  BY <1>1, <1>2, BookedGood
<1> HIDE DEF r
<1>4. Absorbed(t) = [r EXCEPT !.missed = 0]
  BY DEF Absorbed, r
<1> QED
  BY <1>1, <1>3, <1>4 DEF GoodRec, GoodBooking, Fields

LEMMA LookedUpGood ==
    ASSUME BooksInv, NEW t \in Trade, rec[t].phase # "none"
    PROVE  /\ GoodRec(LookedUp(t), sold[t], bought[t]) /\ LookedUp(t).phase # "none"
           /\ LookedUp(t).sold = sold[t] /\ LookedUp(t).bought = bought[t] - rec[t].missed
<1> DEFINE b == bought[t] - rec[t].missed
           r == Booked(t, b)
<1>1. GoodRec(rec[t], sold[t], bought[t]) /\ bought[t] \in Nat
  BY DEF BooksInv, ExchangeInv
<1>2. b \in Nat /\ rec[t].bought <= b /\ b <= bought[t] /\ b + rec[t].missed = bought[t]
  BY <1>1 DEF GoodRec
<1>3. r.missed = rec[t].missed
  BY <1>1, BookedIs DEF GoodRec
<1> HIDE DEF b
<1>4. GoodBooking(r, sold[t], b)
  BY <1>2, BookedGood
<1> HIDE DEF r
<1>5. LookedUp(t) = r
  BY DEF LookedUp, r, b
<1>6. rec[t].missed \in Nat
  BY <1>1 DEF GoodRec
<1> QED
  BY <1>1, <1>2, <1>3, <1>4, <1>5, <1>6 DEF GoodRec, GoodBooking, b

\* A step of one trade's: the other trades' records and jobs, and what the
\* exchange has filled, stay as they are.
Frame(t) ==
    /\ DOMAIN rec' = Trade /\ DOMAIN job' = Trade
    /\ UNCHANGED <<sold, bought, hand>>
    /\ \A u \in Trade \ {t} : rec'[u] = rec[u] /\ job'[u] = job[u]

RestOK == DOMAIN rest = Trade /\ \A u \in Trade : rest[u] \in 0 .. Most

LEMMA OwnStep ==
    ASSUME BooksInv, NEW t \in Trade, Frame(t),
           GoodRec(rec'[t], sold[t], bought[t]), GoodJob(job'[t], rec'[t]),
           RestOK', bad' \in Nat, start' = None \/ start' \subseteq Trade
    PROVE  BooksInv'
<1>1. UNCHANGED <<sold, bought, hand>> /\ Net' = Net
  BY NetStays DEF Frame
<1>2. ExchangeInv'
  BY <1>1 DEF BooksInv, ExchangeInv, RestOK
<1>3. \A u \in Trade : GoodRec(rec[u], sold[u], bought[u]) /\ GoodJob(job[u], rec[u])
  BY DEF BooksInv
<1>4. \A u \in Trade : GoodRec(rec'[u], sold[u], bought[u]) /\ GoodJob(job'[u], rec'[u])
  BY <1>3 DEF Frame
<1>5. \A u \in Trade : GoodRec(rec'[u], sold'[u], bought'[u])
  BY <1>1, <1>4
<1>6. \A u \in Trade : GoodRec(rec[u], sold[u], bought[u])'
  BY <1>5 DEF GoodRec
<1>7. \A u \in Trade : GoodJob(job[u], rec[u])'
  BY <1>4 DEF GoodJob
<1>8. DOMAIN rec' = Trade /\ DOMAIN job' = Trade
  BY DEF Frame
<1> QED
  BY <1>2, <1>6, <1>7, <1>8 DEF BooksInv

\* The record stays, the job goes on.
LEMMA JobStep ==
    ASSUME BooksInv, NEW t \in Trade, UNCHANGED <<rec, venueVars>>,
           NEW j, Become(t, j), GoodJob(j, rec[t]), start' = start,
           bad' \in Nat
    PROVE  BooksInv'
<1>1. Frame(t) /\ job'[t] = j /\ rec'[t] = rec[t]
  BY DEF BooksInv, Become, Frame, venueVars
<1>2. GoodRec(rec'[t], sold[t], bought[t]) /\ GoodJob(job'[t], rec'[t])
  BY <1>1 DEF BooksInv
<1>3. RestOK'
  <2>1. UNCHANGED <<sold, bought, hand, rest>>
    BY DEF venueVars
  <2> QED
    BY <2>1 DEF BooksInv, ExchangeInv, RestOK, Most
<1>4. start' = None \/ start' \subseteq Trade
  BY DEF BooksInv
<1> QED
  BY <1>1, <1>2, <1>3, <1>4, OwnStep

\* The record changes too; what rests of the exits does not.
LEMMA RecordStep ==
    ASSUME BooksInv, NEW t \in Trade, UNCHANGED venueVars,
           NEW r, rec' = [rec EXCEPT ![t] = r], GoodRec(r, sold[t], bought[t]),
           NEW j, Become(t, j), GoodJob(j, r),
           start' = None \/ start' \subseteq Trade, bad' \in Nat
    PROVE  BooksInv'
<1>1. Frame(t) /\ job'[t] = j /\ rec'[t] = r
  BY DEF BooksInv, Become, Frame, venueVars
<1>2. RestOK'
  <2>1. UNCHANGED <<sold, bought, hand, rest>>
    BY DEF venueVars
  <2> QED
    BY <2>1 DEF BooksInv, ExchangeInv, RestOK, Most
<1> QED
  BY <1>1, <1>2, OwnStep

LEMMA BadCounts ==
    ASSUME BooksInv, ReadFails \/ UNCHANGED faultVars \/ \E n \in 0 .. Net : PositionRead(n)
    PROVE  bad' \in Nat /\ bad <= bad'
BY DEF BooksInv, ExchangeInv, ReadFails, PositionRead, faultVars

LEMMA BooksEnter == ASSUME BooksInv, NEW t \in Trade, Enter(t) PROVE BooksInv'
<1> DEFINE r == [rec[t] EXCEPT !.phase = "sent"]
<1>1. /\ GoodRec(rec[t], sold[t], bought[t]) /\ GoodJob(job[t], rec[t])
      /\ DOMAIN job = Trade /\ DOMAIN rec = Trade /\ bad \in Nat
  BY DEF BooksInv, ExchangeInv
<1>2. rec' = [rec EXCEPT ![t] = r] /\ UNCHANGED <<job, start, venueVars, faultVars>>
  BY DEF Enter
<1>3. DOMAIN r = Fields /\ r.phase = "sent" /\ r.pos = rec[t].pos /\ r.sold = rec[t].sold
      /\ r.bought = rec[t].bought /\ r.missed = rec[t].missed
  BY <1>1 DEF GoodRec, Fields
<1>4. rec[t].phase = "none"
  BY DEF Enter
<1> HIDE DEF r
<1>5. GoodRec(r, sold[t], bought[t])
  BY <1>1, <1>3, <1>4 DEF GoodRec, Phases
<1>6. GoodJob(job[t], r)
  BY <1>1, <1>4 DEF GoodJob
<1>7. bad' \in Nat /\ (start' = None \/ start' \subseteq Trade)
  BY <1>2, BadCounts DEF BooksInv
<1>8. Frame(t) /\ rec'[t] = r /\ job'[t] = job[t]
  BY <1>1, <1>2 DEF Frame, venueVars
<1>9. RestOK'
  BY <1>2 DEF venueVars, BooksInv, ExchangeInv, RestOK, Most
<1> QED
  BY <1>5, <1>6, <1>7, <1>8, <1>9, OwnStep

LEMMA BooksPoll == ASSUME BooksInv, NEW t \in Trade, Poll(t) PROVE BooksInv'
<1> DEFINE q == LookedUp(t)
           c == IF rest[t] = 0 THEN 0 ELSE q.cover
           r == [q EXCEPT !.cover = c]
           z == [q EXCEPT !.cover = 0]
           j == IF q.pos > 0 /\ c # q.pos THEN [step |-> "protect"] ELSE None
<1>1. start = None /\ rec[t].phase # "none" /\ Free(t)
  BY DEF Poll, Open
<1>2. GoodRec(q, sold[t], bought[t]) /\ q.phase # "none"
  BY <1>1, LookedUpGood
<1>3. \/ /\ rec' = [rec EXCEPT ![t] = z]
         /\ rest' = [rest EXCEPT ![t] = 0] /\ UNCHANGED job
      \/ /\ rec' = [rec EXCEPT ![t] = r]
         /\ Become(t, j) /\ UNCHANGED rest
  BY DEF Poll
<1>4. UNCHANGED <<start, sold, bought, hand, faultVars>>
  BY DEF Poll
<1>5. j = None \/ (j = [step |-> "protect"] /\ q.pos > 0)
  OBVIOUS
<1> HIDE DEF j, c
<1>6. /\ DOMAIN r = Fields /\ r.phase = q.phase /\ r.pos = q.pos /\ r.sold = q.sold
      /\ r.bought = q.bought /\ r.missed = q.missed
  BY <1>2 DEF GoodRec, Fields
<1>7. /\ DOMAIN z = Fields /\ z.phase = q.phase /\ z.pos = q.pos /\ z.sold = q.sold
      /\ z.bought = q.bought /\ z.missed = q.missed
  BY <1>2 DEF GoodRec, Fields
<1> HIDE DEF r, z, q
<1>8. GoodRec(r, sold[t], bought[t]) /\ GoodRec(z, sold[t], bought[t])
  BY <1>2, <1>6, <1>7 DEF GoodRec
<1>9. GoodJob(j, r)
  BY <1>2, <1>5, <1>6 DEF GoodJob, Steps
<1>10. bad' \in Nat /\ (start' = None \/ start' \subseteq Trade)
  BY <1>1, <1>4 DEF faultVars, BooksInv, ExchangeInv
<1>11. CASE rec' = [rec EXCEPT ![t] = r] /\ Become(t, j) /\ UNCHANGED rest
  BY <1>4, <1>8, <1>9, <1>10, <1>11, RecordStep DEF venueVars
<1>12. CASE /\ rec' = [rec EXCEPT ![t] = z]
            /\ rest' = [rest EXCEPT ![t] = 0] /\ UNCHANGED job
  <2>1. Frame(t) /\ rec'[t] = z /\ job'[t] = None
    BY <1>1, <1>4, <1>12 DEF BooksInv, Frame, Free
  <2>2. Most \in Nat
    BY Sizes DEF BooksInv
  <2>3. RestOK'
    BY <1>12, <2>2 DEF RestOK, Most, BooksInv, ExchangeInv
  <2>4. GoodJob(job'[t], rec'[t])
    BY <2>1 DEF GoodJob
  <2> QED
    BY <1>8, <1>10, <2>1, <2>3, <2>4, OwnStep
<1> QED
  BY <1>3, <1>11, <1>12

LEMMA BooksSweep == ASSUME BooksInv, NEW t \in Trade, Sweep(t) PROVE BooksInv'
<1>1. UNCHANGED <<rec, job, start, sold, bought, hand, faultVars>> /\ rest' = [rest EXCEPT ![t] = 0]
  BY DEF Sweep
<1>2. Frame(t) /\ rec'[t] = rec[t] /\ job'[t] = job[t]
  BY <1>1 DEF Frame, BooksInv
<1>3. Most \in Nat
  BY Sizes DEF BooksInv
<1>4. RestOK'
  BY <1>1, <1>3 DEF RestOK, Most, BooksInv, ExchangeInv
<1>5. /\ GoodRec(rec'[t], sold[t], bought[t]) /\ GoodJob(job'[t], rec'[t])
      /\ bad' \in Nat /\ (start' = None \/ start' \subseteq Trade)
  BY <1>1 DEF BooksInv, ExchangeInv, faultVars
<1> QED
  BY <1>2, <1>4, <1>5, OwnStep

LEMMA BooksReconcile == ASSUME BooksInv, NEW t \in Trade, Reconcile(t) PROVE BooksInv'
<1>1. /\ rec[t].phase # "none" /\ rec' = [rec EXCEPT ![t] = Absorbed(t)]
      /\ Become(t, [step |-> "net"]) /\ UNCHANGED venueVars
      /\ start' = None \/ start' = start \ {t}
      /\ UNCHANGED faultVars
  BY DEF Reconcile, Open
<1>2. GoodRec(Absorbed(t), sold[t], bought[t]) /\ Absorbed(t).phase # "none"
  BY <1>1, AbsorbedGood
<1>3. GoodJob([step |-> "net"], Absorbed(t))
  BY <1>2 DEF GoodJob, Steps
<1>4. bad' \in Nat
  BY <1>1 DEF faultVars, BooksInv, ExchangeInv
<1>5. start' = None \/ start' \subseteq Trade
  <2>1. CASE start = None
    BY <2>1 DEF Reconcile
  <2>2. CASE start # None
    BY <1>1, <2>2 DEF BooksInv
  <2> QED
    BY <2>1, <2>2
<1> QED
  BY <1>1, <1>2, <1>3, <1>4, <1>5, RecordStep

LEMMA BooksReadNet == ASSUME BooksInv, NEW t \in Trade, ReadNet(t) PROVE BooksInv'
<1>1. /\ GoodJob(job[t], rec[t]) /\ GoodRec(rec[t], sold[t], bought[t])
      /\ At(t, "net") /\ UNCHANGED <<rec, start, venueVars>>
  BY DEF ReadNet, BooksInv
<1>2. rec[t].phase # "none" /\ rec[t].sold \in Int /\ rec[t].bought \in Int
  <2>1. sold[t] \in Int
    BY Sizes DEF BooksInv
  <2> QED
    BY <1>1, <2>1 DEF At, GoodJob, GoodRec
<1>3. Net <= Most /\ Net \in Nat /\ Most \in Nat
  BY Sizes DEF BooksInv, ExchangeInv
<1>4. ASSUME NEW n \in 0 .. Net, PositionRead(n),
             Become(t, [step |-> "siblings", net |-> n, was |-> rec[t].sold - rec[t].bought])
      PROVE  BooksInv'
  <2>1. bad' \in Nat
    BY <1>4, BadCounts
  <2> DEFINE w == rec[t].sold - rec[t].bought
             j == [step |-> "siblings", net |-> n, was |-> w]
  <2>2. w \in Int
    BY <1>2
  <2> HIDE DEF w
  <2>3. n \in 0 .. Most
    BY <1>3
  <2>4. GoodJob(j, rec[t])
    BY <1>2, <2>2, <2>3 DEF GoodJob, Steps
  <2>5. Become(t, j)
    BY <1>4 DEF w
  <2> HIDE DEF j
  <2> QED
    BY <1>1, <2>1, <2>4, <2>5, JobStep
<1>5. CASE ReadFails /\ Become(t, None)
  <2>1. bad' \in Nat /\ GoodJob(None, rec[t])
    BY <1>5, BadCounts DEF GoodJob
  <2> QED
    BY <1>1, <1>5, <2>1, JobStep
<1> QED
  BY <1>4, <1>5 DEF ReadNet

LEMMA BooksCompare == ASSUME BooksInv, NEW t \in Trade, CompareShare(t) PROVE BooksInv'
<1> DEFINE held == job[t].net - Theirs(t)
           k == [step |-> "judge", net |-> job[t].net, was |-> job[t].was,
                 held |-> held, shared |-> SiblingsOn(t) # {}]
<1>1. /\ GoodJob(job[t], rec[t]) /\ job[t] # None /\ job[t].step = "siblings"
      /\ UNCHANGED <<rec, start, venueVars, faultVars>>
      /\ Become(t, None) \/ Become(t, k)
  BY DEF BooksInv, CompareShare, At
<1>2. job[t].net \in 0 .. Most /\ job[t].was \in Int /\ rec[t].phase # "none"
  BY <1>1 DEF GoodJob
<1>3. Most \in Nat
  BY Sizes DEF BooksInv
<1>4. ASSUME ~k.shared PROVE held = job[t].net
  <2>1. Theirs(t) = 0
    BY <1>4, NoneOfTheirs
  <2> QED
    BY <1>2, <1>3, <2>1
<1>5. k.step = "judge" /\ k.net = job[t].net /\ k.was = job[t].was /\ k.held = held
  OBVIOUS
<1> HIDE DEF k
<1>6. GoodJob(k, rec[t])
  BY <1>2, <1>4, <1>5 DEF GoodJob, Steps
<1>7. GoodJob(None, rec[t])
  BY DEF GoodJob
<1>8. bad' \in Nat
  BY <1>1, BadCounts
<1> QED
  BY <1>1, <1>6, <1>7, <1>8, JobStep

\* A record left, or written over with what the trade has of the contract.
LEMMA LeaveStep ==
    ASSUME BooksInv, NEW t \in Trade, NEW r, GoodRec(r, sold[t], bought[t]), Leave(t, r),
           UNCHANGED <<start, venueVars>>, bad' \in Nat
    PROVE  BooksInv'
<1>1. GoodJob(None, r)
  BY DEF GoodJob
<1>2. start' = None \/ start' \subseteq Trade
  BY DEF BooksInv
<1> QED
  BY <1>1, <1>2, RecordStep DEF Leave

LEMMA WriteStep ==
    ASSUME BooksInv, NEW t \in Trade, NEW r, GoodRec(r, sold[t], bought[t]),
           r.phase # "none", NEW n \in 0 .. Most, Write(t, r, n),
           UNCHANGED <<start, venueVars>>, bad' \in Nat
    PROVE  BooksInv'
<1> DEFINE w == [r EXCEPT !.pos = n, !.phase = IF n = 0 THEN "done" ELSE "held"]
           j == [step |-> IF n = 0 THEN "clear" ELSE "protect"]
<1>1. rec' = [rec EXCEPT ![t] = w] /\ Become(t, j)
  BY DEF Write
<1>2. Most \in Nat /\ n \in Int /\ -Most <= n /\ n <= Most /\ 0 <= n
  BY Sizes DEF BooksInv
<1>3. /\ DOMAIN w = Fields /\ w.pos = n /\ w.phase = (IF n = 0 THEN "done" ELSE "held")
      /\ w.sold = r.sold /\ w.bought = r.bought /\ w.missed = r.missed
  BY DEF GoodRec, Fields
<1>4. j.step = IF n = 0 THEN "clear" ELSE "protect"
  OBVIOUS
<1> HIDE DEF w, j
<1>5. w.phase \in Phases /\ w.phase \notin {"none", "sent"} /\ (w.phase = "held" => w.pos # 0)
  BY <1>3 DEF Phases
<1>6. GoodRec(w, sold[t], bought[t])
  BY <1>2, <1>3, <1>5 DEF GoodRec
<1>7. /\ j.step \in Steps /\ j.step \in {"protect", "clear"}
      /\ j.step = "protect" => n # 0
  BY <1>4 DEF Steps
<1>8. GoodJob(j, w)
  BY <1>2, <1>3, <1>5, <1>7 DEF GoodJob
<1>9. start' = None \/ start' \subseteq Trade
  BY DEF BooksInv
<1> QED
  BY <1>1, <1>6, <1>8, <1>9, RecordStep

LEMMA BooksJudge == ASSUME BooksInv, NEW t \in Trade, Judge(t) PROVE BooksInv'
<1> DEFINE r == Absorbed(t)
           j == job[t]
           a == [step |-> "again", was |-> j.was]
           n == IF j.shared THEN 0 ELSE j.held
<1>1. /\ GoodJob(j, rec[t]) /\ j # None /\ j.step = "judge"
      /\ UNCHANGED <<start, venueVars, faultVars>>
  BY DEF BooksInv, Judge, At
<1>2. rec[t].phase # "none" /\ j.net \in 0 .. Most /\ j.was \in Int /\ (~j.shared => j.held = j.net)
  BY <1>1 DEF GoodJob
<1>3. \/ Leave(t, r)
      \/ rec' = [rec EXCEPT ![t] = r] /\ Become(t, a)
      \/ Write(t, r, n)
  BY DEF Judge
<1>4. GoodRec(r, sold[t], bought[t]) /\ r.phase # "none"
  BY <1>2, AbsorbedGood
<1>5. Most \in Nat
  BY Sizes DEF BooksInv
<1>6. n \in 0 .. Most
  BY <1>2, <1>5
<1>7. bad' \in Nat
  BY <1>1, BadCounts
<1>8. start' = None \/ start' \subseteq Trade
  BY <1>1 DEF BooksInv
<1>9. GoodJob(a, r)
  BY <1>2, <1>4 DEF GoodJob, Steps
<1> HIDE DEF r, j, a, n
<1>10. CASE Leave(t, r)
  BY <1>1, <1>4, <1>7, <1>10, LeaveStep
<1>11. CASE rec' = [rec EXCEPT ![t] = r] /\ Become(t, a)
  BY <1>1, <1>4, <1>7, <1>8, <1>9, <1>11, RecordStep
<1>12. CASE Write(t, r, n)
  BY <1>1, <1>4, <1>6, <1>7, <1>12, WriteStep
<1> QED
  BY <1>3, <1>10, <1>11, <1>12

LEMMA BooksLookAgain == ASSUME BooksInv, NEW t \in Trade, LookAgain(t) PROVE BooksInv'
<1>1. /\ GoodJob(job[t], rec[t]) /\ job[t] # None /\ GoodRec(rec[t], sold[t], bought[t])
      /\ UNCHANGED <<start, venueVars>>
  BY DEF BooksInv, LookAgain, At
<1>2. rec[t].phase # "none"
  BY <1>1 DEF GoodJob
<1>3. ReadFails \/ \E n \in 0 .. Net : PositionRead(n)
  BY DEF LookAgain
<1>4. bad' \in Nat
  BY <1>3, BadCounts
<1>5. 0 \in 0 .. Most
  BY Sizes DEF BooksInv
<1>6. Leave(t, rec[t]) \/ Write(t, rec[t], 0)
  BY DEF LookAgain
<1> QED
  BY <1>1, <1>2, <1>4, <1>5, <1>6, LeaveStep, WriteStep

LEMMA BooksProtectReads == ASSUME BooksInv, NEW t \in Trade, ProtectReads(t) PROVE BooksInv'
<1> DEFINE s == [step |-> "settle", seen |-> OnBook, own |-> rest[t]]
<1>1. /\ GoodJob(job[t], rec[t]) /\ job[t] # None /\ job[t].step = "protect"
      /\ UNCHANGED <<rec, start, venueVars>>
  BY DEF BooksInv, ProtectReads, At
<1>2. ReadFails \/ \E n \in 0 .. Net : PositionRead(n)
  BY DEF ProtectReads
<1>3. bad' \in Nat
  BY <1>2, BadCounts
<1>4. Become(t, None) \/ Become(t, s)
  BY DEF ProtectReads
<1>5. GoodJob(None, rec[t]) /\ GoodJob(s, rec[t])
  BY <1>1 DEF GoodJob, Steps
<1> HIDE DEF s
<1> QED
  BY <1>1, <1>3, <1>4, <1>5, JobStep

LEMMA BooksSettles == ASSUME BooksInv, NEW t \in Trade, ProtectSettles(t) PROVE BooksInv'
<1>1. /\ GoodJob(job[t], rec[t]) /\ job[t] # None /\ job[t].step = "settle"
      /\ GoodRec(rec[t], sold[t], bought[t]) /\ DOMAIN rec = Trade
      /\ bought[t] \in Nat /\ RestOK
      /\ UNCHANGED <<start, sold, bought, hand, faultVars>> /\ Become(t, None)
  BY DEF BooksInv, ExchangeInv, ProtectSettles, At, RestOK
<1>2. rec[t].phase # "none" /\ rec[t].pos > 0
  BY <1>1 DEF GoodJob
<1>3. Most \in Nat
  BY Sizes DEF BooksInv
<1>4. bad' \in Nat /\ (start' = None \/ start' \subseteq Trade)
  BY <1>1, BadCounts DEF BooksInv
<1>5. GoodJob(None, rec'[t])
  BY DEF GoodJob
<1>6. CASE FilledMeanwhile(t)
  <2>1. rec' = [rec EXCEPT ![t] = LookedUp(t)] /\ UNCHANGED venueVars
    BY <1>1, <1>6 DEF ProtectSettles, venueVars
  <2>2. GoodRec(LookedUp(t), sold[t], bought[t]) /\ GoodJob(None, LookedUp(t))
    BY <1>2, LookedUpGood DEF GoodJob
  <2> QED
    BY <1>1, <1>4, <2>1, <2>2, RecordStep
<1>7. CASE ~FilledMeanwhile(t)
  <2> DEFINE c == IF Kept(t) THEN rec[t].pos ELSE Exit(t)
             m == IF job[t].own = 0 \/ Kept(t) THEN rec[t].missed ELSE bought[t] - rec[t].bought
             r == [rec[t] EXCEPT !.cover = c, !.missed = m]
  <2>1. rec' = [rec EXCEPT ![t] = r]
    BY <1>1, <1>7 DEF ProtectSettles
  <2>2. rec[t].bought + m <= bought[t] /\ m \in Nat
    BY <1>1 DEF GoodRec
  <2> HIDE DEF m, c
  <2>3. /\ DOMAIN r = Fields /\ r.phase = rec[t].phase /\ r.pos = rec[t].pos
        /\ r.sold = rec[t].sold /\ r.bought = rec[t].bought /\ r.missed = m
    BY <1>1 DEF GoodRec, Fields
  <2> HIDE DEF r
  <2>4. GoodRec(r, sold[t], bought[t])
    BY <1>1, <2>2, <2>3 DEF GoodRec
  <2>5. rest' = [u \in Trade |->
                   IF u = t THEN Exit(t)
                   ELSE IF u \in Leftovers(job[t].seen, t) THEN 0 ELSE rest[u]]
    BY <1>7 DEF ProtectSettles
  <2>6. Exit(t) \in 0 .. Most
    <3>1. rec[t].pos \in 0 .. Most /\ rest[t] \in 0 .. Most
      BY <1>1, <1>2, <1>3 DEF GoodRec, RestOK
    <3> QED
      BY <1>3, <3>1 DEF Exit
  <2>7. RestOK'
    <3> HIDE DEF RestOK
    <3>1. \A u \in Trade : rest[u] \in 0 .. Most
      BY <1>1 DEF RestOK
    <3>2. DOMAIN rest' = Trade /\ \A u \in Trade : rest'[u] \in 0 .. Most
      BY <1>3, <2>5, <2>6, <3>1
    <3> QED
      BY <3>2 DEF RestOK, Most
  <2>8. Frame(t) /\ rec'[t] = r /\ job'[t] = None
    BY <1>1, <2>1 DEF Frame, Become, BooksInv
  <2> QED
    BY <1>4, <1>5, <2>4, <2>7, <2>8, OwnStep
<1> QED
  BY <1>6, <1>7

LEMMA BooksClearReads == ASSUME BooksInv, NEW t \in Trade, ClearReads(t) PROVE BooksInv'
<1>1. /\ GoodJob(job[t], rec[t]) /\ job[t] # None
      /\ UNCHANGED <<rec, start, venueVars>>
      /\ ReadFails \/ UNCHANGED faultVars
  BY DEF BooksInv, ClearReads, At
<1>2. bad' \in Nat
  BY <1>1, BadCounts
<1>3. PICK S : Become(t, [step |-> "cancel", seen |-> S])
  BY DEF ClearReads
<1>4. GoodJob([step |-> "cancel", seen |-> S], rec[t])
  BY <1>1 DEF GoodJob, Steps
<1> QED
  BY <1>1, <1>2, <1>3, <1>4, JobStep

LEMMA BooksClearCancels == ASSUME BooksInv, NEW t \in Trade, ClearCancels(t) PROVE BooksInv'
<1> DEFINE r == [rec[t] EXCEPT !.cover = 0]
<1>1. /\ GoodRec(rec[t], sold[t], bought[t]) /\ DOMAIN rec = Trade /\ RestOK
      /\ UNCHANGED <<start, sold, bought, hand, faultVars>> /\ Become(t, None)
      /\ rec' = [rec EXCEPT ![t] = r]
      /\ \E S : rest' = [u \in Trade |-> IF u \in S THEN 0 ELSE rest[u]]
  BY DEF BooksInv, ExchangeInv, ClearCancels, RestOK
<1>2. /\ DOMAIN r = Fields /\ r.phase = rec[t].phase /\ r.pos = rec[t].pos
      /\ r.sold = rec[t].sold /\ r.bought = rec[t].bought /\ r.missed = rec[t].missed
  BY <1>1 DEF GoodRec, Fields
<1> HIDE DEF r
<1>3. GoodRec(r, sold[t], bought[t])
  BY <1>1, <1>2 DEF GoodRec
<1>4. Most \in Nat
  BY Sizes DEF BooksInv
<1>5. DOMAIN rest' = Trade /\ \A u \in Trade : rest'[u] \in 0 .. Most
  BY <1>1, <1>4 DEF RestOK
<1>6. RestOK'
  BY <1>5 DEF RestOK, Most
<1>7. Frame(t) /\ rec'[t] = r /\ job'[t] = None
  BY <1>1 DEF Frame, Become, BooksInv
<1>8. GoodJob(job'[t], rec'[t]) /\ bad' \in Nat /\ (start' = None \/ start' \subseteq Trade)
  BY <1>1, <1>7, BadCounts DEF GoodJob, BooksInv
<1> QED
  BY <1>3, <1>6, <1>7, <1>8, OwnStep

LEMMA BooksWorks == ASSUME BooksInv, NEW t \in Trade, Works(t) PROVE BooksInv'
BY BooksEnter, BooksPoll, BooksSweep, BooksReconcile, BooksReadNet, BooksCompare, BooksJudge,
   BooksLookAgain, BooksProtectReads, BooksSettles, BooksClearReads, BooksClearCancels DEF Works

\* The desk's own steps that are no trade's.
LEMMA BooksDesk ==
    ASSUME BooksInv, Started \/ Crash \/ UNCHANGED vars
    PROVE  BooksInv'
<1>1. UNCHANGED <<rec, venueVars, bad>> /\ (UNCHANGED job \/ job' = [t \in Trade |-> None])
  BY DEF Started, Crash, vars, faultVars
<1>2. Net' = Net
  BY <1>1, NetStays DEF venueVars
<1>3. ExchangeInv'
  BY <1>1, <1>2 DEF BooksInv, ExchangeInv, venueVars
<1>4. start' = None \/ start' \subseteq Trade
  BY DEF Started, Crash, vars, Open, BooksInv
<1>5. \A t \in Trade : GoodRec(rec[t], sold[t], bought[t])'
  BY <1>1 DEF BooksInv, venueVars, GoodRec
<1>6. DOMAIN job' = Trade /\ \A t \in Trade : GoodJob(job'[t], rec'[t])
  BY <1>1 DEF BooksInv, GoodJob
<1>7. \A t \in Trade : GoodJob(job[t], rec[t])'
  BY <1>6 DEF GoodJob
<1>8. DOMAIN rec' = Trade
  BY <1>1 DEF BooksInv
<1> QED
  BY <1>3, <1>4, <1>5, <1>6, <1>7, <1>8 DEF BooksInv

LEMMA BooksStep == BooksInv /\ [Next]_vars => BooksInv'
BY BooksExchange, BooksWorks, BooksDesk DEF Next

LEMMA BooksInvariant == Spec => []BooksInv
BY BooksInit, BooksStep, PTL DEF Spec

\* For any number of trades and any sizes.
THEOREM RecordsWellFormed == Spec => []TypeOK
<1>1. BooksInv => TypeOK
  <2> SUFFICES ASSUME BooksInv PROVE TypeOK
    OBVIOUS
  <2>1. ASSUME NEW t \in Trade
        PROVE  /\ rec[t].phase \in Phases
               /\ rec[t].pos \in -Most .. Most
               /\ rec[t].phase = "held" => rec[t].pos # 0
               /\ rec[t].phase = "sent" => rec[t].pos = 0 /\ rec[t].sold = 0
    <3>1. GoodRec(rec[t], sold[t], bought[t]) /\ Most \in Nat
      BY Sizes DEF BooksInv
    <3> QED
      BY <3>1 DEF GoodRec
  <2>2. \A t \in Trade : sold[t] \in {0, Lots[t]} /\ rest[t] \in 0 .. Most
    BY DEF BooksInv, ExchangeInv
  <2>3. \A t \in Trade : job[t] # None => job[t].step \in Steps
    BY DEF BooksInv, GoodJob
  <2>4. Net >= 0 /\ (start = None \/ start \subseteq Trade)
    BY DEF BooksInv, ExchangeInv
  <2> QED
    BY <2>1, <2>2, <2>3, <2>4 DEF TypeOK, Phases, Steps
<1> QED
  BY <1>1, BooksInvariant, PTL

-----------------------------------------------------------------------------
(* What the fills explain *)

\* What never comes back: fills are not undone, a trade sells once, and what
\* was counted against the exchange or written over stays so.
Onward ==
    /\ \A u \in Trade : sold[u] # 0 => sold'[u] = sold[u]
    /\ \A u \in Trade : sold[u] # 0 => Share'[u] <= Share[u]
    /\ \A u \in Trade : bought[u] <= bought'[u]
    /\ hand <= hand' /\ bad <= bad' /\ written \subseteq written'

LEMMA StepsGoOnward == BooksInv /\ [Next]_vars => Onward
<1> SUFFICES ASSUME BooksInv, [Next]_vars PROVE Onward
  OBVIOUS
<1>1. /\ DOMAIN sold = Trade /\ DOMAIN bought = Trade /\ hand \in Nat /\ bad \in Nat
      /\ \A u \in Trade : sold[u] \in Nat /\ bought[u] \in Nat /\ rest[u] \in Nat
      /\ \A u \in Trade : Share[u] = sold[u] - bought[u]
      /\ \A u \in Trade : Share'[u] = sold'[u] - bought'[u]
  BY Sizes DEF BooksInv, ExchangeInv, Share
<1>2. CASE UNCHANGED <<sold, bought>> /\ hand <= hand' /\ bad <= bad' /\ written \subseteq written'
  BY <1>1, <1>2 DEF Onward
<1>3. CASE HandBuys
  BY <1>1, <1>2, <1>3 DEF HandBuys, faultVars
<1>4. ASSUME NEW t \in Trade, EntryFills(t)
      PROVE  Onward
  <2>1. /\ sold[t] = 0 /\ \A u \in Trade \ {t} : sold'[u] = sold[u]
        /\ bought' = bought /\ hand' = hand /\ bad' = bad /\ written' = written
    BY <1>1, <1>4 DEF EntryFills, faultVars
  <2>2. \A u \in Trade : sold[u] # 0 => sold'[u] = sold[u]
    BY <2>1
  <2> QED
    BY <1>1, <2>1, <2>2 DEF Onward
<1>5. ASSUME NEW t \in Trade, ExitFills(t)
      PROVE  Onward
  <2>1. PICK n \in 1 .. rest[t] : bought' = [bought EXCEPT ![t] = @ + n]
    BY <1>5 DEF ExitFills
  <2>2. sold' = sold /\ hand' = hand /\ bad' = bad /\ written' = written
    BY <1>5 DEF ExitFills, faultVars
  <2>3. \A u \in Trade : bought[u] <= bought'[u] /\ bought'[u] \in Nat
    BY <1>1, <2>1
  <2> QED
    BY <1>1, <2>2, <2>3 DEF Onward
<1>6. ASSUME NEW t \in Trade, ExitDropped(t)
      PROVE  Onward
  BY <1>1, <1>2, <1>6 DEF ExitDropped, faultVars
<1>7. ASSUME NEW t \in Trade, Works(t)
      PROVE  Onward
  <2>1. UNCHANGED <<sold, bought, hand>>
    BY <1>7 DEF Works, Enter, Poll, Sweep, Reconcile, ReadNet, CompareShare, Judge, LookAgain,
      ProtectReads, ProtectSettles, ClearReads, ClearCancels, venueVars
  <2>2. ReadFails \/ UNCHANGED faultVars \/ \E n \in 0 .. Net : PositionRead(n)
    BY <1>7 DEF Works, Enter, Poll, Sweep, Reconcile, ReadNet, CompareShare, Judge, LookAgain,
      ProtectReads, ProtectSettles, ClearReads, ClearCancels
  <2>3. written \subseteq written'
    BY <1>7 DEF Works, Enter, Poll, Sweep, Reconcile, ReadNet, CompareShare, Judge, LookAgain,
      ProtectReads, ProtectSettles, ClearReads, ClearCancels, Write, Leave
  <2> QED
    BY <1>1, <1>2, <2>1, <2>2, <2>3, BadCounts
<1>8. CASE Started \/ Crash \/ UNCHANGED vars
  BY <1>1, <1>2, <1>8 DEF Started, Crash, vars, venueVars, faultVars
<1> QED
  BY <1>3, <1>4, <1>5, <1>6, <1>7, <1>8 DEF Next, Exchange

\* Until a record is written over, each is what its fills come to; an exit is
\* never placed, and so never fills, before the entry is on the record.
Explained(r, e, b) ==
    /\ r.pos = r.sold - r.bought
    /\ e > 0 \/ b > 0 => r.sold # 0
    /\ r.phase = "done" => r.sold = r.bought /\ r.sold # 0

CleanInv == written = {} => \A t \in Trade : Explained(rec[t], rest[t], bought[t])

LEMMA CleanInit == Init => CleanInv
BY DEF Init, CleanInv, Explained

\* Booking more of the fills keeps a record explained.
LEMMA BookedExplained ==
    ASSUME BooksInv, NEW t \in Trade, NEW b \in Nat, NEW e,
           rec[t].bought <= b, b <= bought[t], Explained(rec[t], e, bought[t])
    PROVE  Explained(Booked(t, b), e, bought[t])
<1> DEFINE r == Booked(t, b)
<1>1. GoodRec(rec[t], sold[t], bought[t]) /\ ExchangeInv
  BY DEF BooksInv
<1>2. /\ DOMAIN r = Fields /\ r.sold = sold[t] /\ r.bought = b
      /\ \/ r = rec[t]
         \/ /\ ~(rec[t].sold = sold[t] /\ rec[t].bought = b)
            /\ r.pos = sold[t] - b /\ r.phase = IF sold[t] = b THEN "done" ELSE "held"
  BY <1>1, BookedIs DEF GoodRec
<1>3. sold[t] \in Nat /\ bought[t] \in Nat /\ rec[t].bought \in Nat /\ (rec[t].sold = 0 \/ rec[t].sold = sold[t])
  BY <1>1, Sizes DEF ExchangeInv, GoodRec
<1> HIDE DEF r
<1>4. CASE r = rec[t]
  BY <1>4 DEF r
<1>5. CASE /\ ~(rec[t].sold = sold[t] /\ rec[t].bought = b)
           /\ r.pos = sold[t] - b /\ r.phase = IF sold[t] = b THEN "done" ELSE "held"
  <2>1. e > 0 \/ bought[t] > 0 => r.sold # 0
    BY <1>2, <1>3 DEF Explained
  <2>2. ASSUME r.phase = "done" PROVE r.sold = r.bought /\ r.sold # 0
    <3>1. sold[t] = b
      BY <1>5, <2>2
    <3>2. ASSUME b = 0 PROVE FALSE
      BY <1>3, <1>5, <3>1, <3>2
    <3> QED
      BY <1>2, <3>1, <3>2
  <2> QED
    BY <1>2, <1>5, <2>1, <2>2 DEF Explained, r
<1> QED
  BY <1>2, <1>4, <1>5

LEMMA AbsorbedExplained ==
    ASSUME BooksInv, NEW t \in Trade, NEW e, Explained(rec[t], e, bought[t])
    PROVE  Explained(Absorbed(t), e, bought[t])
<1> DEFINE r == Booked(t, bought[t])
<1>1. GoodRec(rec[t], sold[t], bought[t]) /\ bought[t] \in Nat
  BY DEF BooksInv, ExchangeInv
<1>2. rec[t].bought <= bought[t]
  BY <1>1 DEF GoodRec
<1>3. Explained(r, e, bought[t])
  BY <1>1, <1>2, BookedExplained
<1>4. DOMAIN r = Fields
  BY <1>1, BookedIs DEF GoodRec
<1> HIDE DEF r
<1>5. Absorbed(t) = [r EXCEPT !.missed = 0]
  BY DEF Absorbed, r
<1> QED
  BY <1>3, <1>4, <1>5 DEF Explained, Fields

LEMMA LookedUpExplained ==
    ASSUME BooksInv, NEW t \in Trade, NEW e, Explained(rec[t], e, bought[t])
    PROVE  Explained(LookedUp(t), e, bought[t])
<1> DEFINE b == bought[t] - rec[t].missed
<1>1. GoodRec(rec[t], sold[t], bought[t]) /\ bought[t] \in Nat
  BY DEF BooksInv, ExchangeInv
<1>2. b \in Nat /\ rec[t].bought <= b /\ b <= bought[t]
  BY <1>1 DEF GoodRec
<1>3. LookedUp(t) = Booked(t, b)
  BY DEF LookedUp
<1> HIDE DEF b
<1> QED
  BY <1>2, <1>3, BookedExplained

\* A number written over a record that was explained by the fills, and that
\* the history does not count: it was theirs.
LEMMA WriteExplained ==
    ASSUME NEW t \in Trade, NEW r, NEW n, NEW e, NEW b, DOMAIN rec = Trade,
           DOMAIN r = Fields, r.phase \in Phases \ {"none"}, r.phase = "held" => r.pos # 0,
           Write(t, r, n), written' = {}, Explained(r, e, b)
    PROVE  Explained(rec'[t], e, b)
<1> DEFINE w == [r EXCEPT !.pos = n, !.phase = IF n = 0 THEN "done" ELSE "held"]
<1>1. rec'[t] = w
  BY DEF Write
<1>2. /\ w.pos = n /\ w.phase = (IF n = 0 THEN "done" ELSE "held")
      /\ w.sold = r.sold /\ w.bought = r.bought
  BY DEF Fields
<1>3. n = r.sold - r.bought /\ r.phase # "sent"
  BY DEF Write
<1> HIDE DEF w
<1>4. r.phase = "held" \/ r.phase = "done"
  BY <1>3 DEF Phases
<1>5. w.phase = "done" => r.sold = r.bought /\ r.sold # 0
  <2>1. CASE r.phase = "done"
    BY <2>1 DEF Explained
  <2>2. CASE r.phase = "held"
    BY <1>2, <1>3, <2>2 DEF Explained
  <2> QED
    BY <1>4, <2>1, <2>2
<1> QED
  BY <1>1, <1>2, <1>3, <1>5 DEF Explained

\* One trade's record and the exits that rest change.
LEMMA CleanOwn ==
    ASSUME CleanInv, NEW t \in Trade, Frame(t), written = {},
           \A u \in Trade \ {t} : rest'[u] = rest[u] \/ rest'[u] = 0,
           Explained(rec'[t], rest'[t], bought[t])
    PROVE  CleanInv'
<1>1. ASSUME NEW u \in Trade
      PROVE  Explained(rec'[u], rest'[u], bought[u])
  <2>1. CASE u = t
    BY <2>1
  <2>2. CASE u # t
    <3>1. rec'[u] = rec[u] /\ (rest'[u] = rest[u] \/ rest'[u] = 0)
      BY <2>2 DEF Frame
    <3>2. Explained(rec[u], rest[u], bought[u])
      BY DEF CleanInv
    <3> QED
      BY <3>1, <3>2 DEF Explained
  <2> QED
    BY <2>1, <2>2
<1>2. bought' = bought
  BY DEF Frame
<1>3. \A u \in Trade : Explained(rec'[u], rest'[u], bought'[u])
  BY <1>1, <1>2
<1> QED
  BY <1>3 DEF CleanInv, Explained

LEMMA CleanWorks ==
    ASSUME BooksInv, CleanInv, NEW t \in Trade, Works(t)
    PROVE  CleanInv'
<1> SUFFICES ASSUME written' = {} PROVE CleanInv'
  BY DEF CleanInv
<1>1. written = {} /\ UNCHANGED bought
  <2>1. written \subseteq written'
    BY StepsGoOnward DEF Onward, Next
  <2>2. UNCHANGED bought
    BY DEF Works, Enter, Poll, Sweep, Reconcile, ReadNet, CompareShare, Judge, LookAgain,
      ProtectReads, ProtectSettles, ClearReads, ClearCancels, venueVars
  <2> QED
    BY <2>1, <2>2
<1>2. /\ Explained(rec[t], rest[t], bought[t]) /\ GoodRec(rec[t], sold[t], bought[t])
      /\ GoodJob(job[t], rec[t])
      /\ DOMAIN rec = Trade /\ DOMAIN job = Trade /\ DOMAIN rest = Trade
      /\ \A u \in Trade : rest[u] \in Nat
      /\ \A e : Explained(rec[t], e, bought[t]) <=>
                  Explained(rec[t], rest[t], bought[t]) /\ (e > 0 => rec[t].sold # 0)
  BY <1>1, Sizes DEF CleanInv, BooksInv, ExchangeInv, Explained
<1>3. CASE UNCHANGED <<rec, rest>>
  BY <1>1, <1>3 DEF CleanInv, Explained
<1>4. CASE Enter(t)
  <2> DEFINE r == [rec[t] EXCEPT !.phase = "sent"]
  <2>1. /\ rec' = [rec EXCEPT ![t] = r] /\ UNCHANGED <<rest, sold, bought, hand>> /\ job' = job
    BY <1>4 DEF Enter, venueVars
  <2>2. r.phase = "sent" /\ r.pos = rec[t].pos /\ r.sold = rec[t].sold /\ r.bought = rec[t].bought
    BY <1>2 DEF GoodRec, Fields
  <2> HIDE DEF r
  <2>3. Frame(t) /\ rec'[t] = r
    BY <1>2, <2>1 DEF Frame
  <2>4. Explained(r, rest[t], bought[t])
    BY <1>2, <2>2 DEF Explained
  <2> QED
    BY <1>1, <2>1, <2>3, <2>4, CleanOwn
<1>5. CASE Poll(t)
  <2> DEFINE q == LookedUp(t)
             c == IF rest[t] = 0 THEN 0 ELSE q.cover
             r == [q EXCEPT !.cover = c]
             z == [q EXCEPT !.cover = 0]
  <2>1. Explained(q, rest[t], bought[t]) /\ DOMAIN q = Fields
    BY <1>2, <1>5, LookedUpExplained, LookedUpGood DEF Poll, Open, GoodRec
  <2>2. \/ rec' = [rec EXCEPT ![t] = r] /\ UNCHANGED rest
        \/ rec' = [rec EXCEPT ![t] = z] /\ rest' = [rest EXCEPT ![t] = 0]
    BY <1>5 DEF Poll
  <2>3. UNCHANGED job \/ \E j : Become(t, j)
    BY <1>5 DEF Poll
  <2>4. UNCHANGED <<sold, bought, hand>>
    BY <1>5 DEF Poll
  <2> HIDE DEF c
  <2>5. /\ r.pos = q.pos /\ r.sold = q.sold /\ r.bought = q.bought /\ r.phase = q.phase
        /\ z.pos = q.pos /\ z.sold = q.sold /\ z.bought = q.bought /\ z.phase = q.phase
    BY <2>1 DEF Fields
  <2> HIDE DEF r, z, q
  <2>6. /\ Explained(r, rest[t], bought[t]) /\ Explained(z, rest[t], bought[t])
        /\ Explained(z, 0, bought[t])
    BY <2>1, <2>5 DEF Explained
  <2>7. Frame(t)
    BY <1>2, <2>2, <2>3, <2>4 DEF Frame, Become
  <2>8. CASE rec' = [rec EXCEPT ![t] = r] /\ UNCHANGED rest
    BY <1>1, <1>2, <2>6, <2>7, <2>8, CleanOwn
  <2>9. CASE rec' = [rec EXCEPT ![t] = z] /\ rest' = [rest EXCEPT ![t] = 0]
    BY <1>1, <1>2, <2>6, <2>7, <2>9, CleanOwn
  <2> QED
    BY <2>2, <2>8, <2>9
<1>6. CASE Sweep(t)
  <2>1. Frame(t) /\ rec'[t] = rec[t] /\ rest' = [rest EXCEPT ![t] = 0]
    BY <1>2, <1>6 DEF Sweep, Frame
  <2>2. Explained(rec[t], 0, bought[t])
    BY <1>2
  <2> QED
    BY <1>1, <1>2, <2>1, <2>2, CleanOwn
<1>7. CASE Reconcile(t)
  <2>1. /\ rec' = [rec EXCEPT ![t] = Absorbed(t)] /\ Become(t, [step |-> "net"])
        /\ UNCHANGED <<rest, sold, bought, hand>>
    BY <1>7 DEF Reconcile, venueVars
  <2>2. Explained(Absorbed(t), rest[t], bought[t])
    BY <1>2, AbsorbedExplained
  <2>3. Frame(t) /\ rec'[t] = Absorbed(t)
    BY <1>2, <2>1 DEF Frame, Become
  <2> QED
    BY <1>1, <2>1, <2>2, <2>3, CleanOwn
<1>8. CASE Judge(t)
  <2> DEFINE r == Absorbed(t)
             n == IF job[t].shared THEN 0 ELSE job[t].held
  <2>1. /\ Explained(r, rest[t], bought[t]) /\ GoodRec(r, sold[t], bought[t]) /\ r.phase # "none"
    BY <1>2, <1>8, AbsorbedExplained, AbsorbedGood DEF Judge, At, GoodJob
  <2>2. /\ \/ rec' = [rec EXCEPT ![t] = r]
           \/ Write(t, r, n)
        /\ \E j : Become(t, j)
        /\ \E x : rec' = [rec EXCEPT ![t] = x]
        /\ UNCHANGED <<rest, sold, bought, hand>>
    BY <1>8 DEF Judge, Leave, Write, venueVars
  <2>3. Frame(t)
    BY <1>2, <2>2 DEF Frame, Become
  <2> HIDE DEF r, n
  <2>4. Explained(rec'[t], rest[t], bought[t])
    <3>1. CASE rec' = [rec EXCEPT ![t] = r]
      BY <1>2, <2>1, <3>1
    <3>2. CASE Write(t, r, n)
      BY <1>2, <2>1, <3>2, WriteExplained DEF GoodRec
    <3> QED
      BY <2>2, <3>1, <3>2
  <2> QED
    BY <1>1, <2>2, <2>3, <2>4, CleanOwn
<1>9. CASE LookAgain(t)
  <2>1. rec[t].phase # "none"
    BY <1>2, <1>9 DEF LookAgain, At, GoodJob
  <2>2. /\ Leave(t, rec[t]) \/ Write(t, rec[t], 0)
        /\ \E j : Become(t, j)
        /\ \E x : rec' = [rec EXCEPT ![t] = x]
        /\ UNCHANGED <<rest, sold, bought, hand>>
    BY <1>9 DEF LookAgain, Leave, Write, venueVars
  <2>3. Frame(t)
    BY <1>2, <2>2 DEF Frame, Become
  <2>4. Explained(rec'[t], rest[t], bought[t])
    <3>1. CASE Leave(t, rec[t])
      BY <1>2, <3>1 DEF Leave
    <3>2. CASE Write(t, rec[t], 0)
      BY <1>2, <2>1, <3>2, WriteExplained DEF GoodRec
    <3> QED
      BY <2>2, <3>1, <3>2
  <2> QED
    BY <1>1, <2>2, <2>3, <2>4, CleanOwn
<1>10. CASE ProtectSettles(t)
  <2>1. rec[t].pos > 0 /\ rec[t].phase # "none" /\ UNCHANGED <<sold, bought, hand>> /\ Become(t, None)
    BY <1>2, <1>10 DEF ProtectSettles, At, GoodJob
  <2>2. CASE FilledMeanwhile(t)
    <3>1. rec' = [rec EXCEPT ![t] = LookedUp(t)] /\ UNCHANGED rest
      BY <1>10, <2>2 DEF ProtectSettles
    <3>2. Explained(LookedUp(t), rest[t], bought[t])
      BY <1>2, LookedUpExplained
    <3>3. Frame(t) /\ rec'[t] = LookedUp(t)
      BY <1>2, <2>1, <3>1 DEF Frame, Become
    <3> QED
      BY <1>1, <3>1, <3>2, <3>3, CleanOwn
  <2>3. CASE ~FilledMeanwhile(t)
    <3>1. PICK c, m : rec' = [rec EXCEPT ![t].cover = c, ![t].missed = m]
      BY <1>10, <2>3 DEF ProtectSettles
    <3> DEFINE r == [rec[t] EXCEPT !.cover = c, !.missed = m]
    <3>2. rec' = [rec EXCEPT ![t] = r]
      BY <1>2, <3>1
    <3>3. r.pos = rec[t].pos /\ r.sold = rec[t].sold /\ r.bought = rec[t].bought /\ r.phase = rec[t].phase
      BY <1>2 DEF GoodRec, Fields
    <3> HIDE DEF r
    <3>4. /\ rest'[t] = Exit(t)
          /\ \A u \in Trade \ {t} : rest'[u] = rest[u] \/ rest'[u] = 0
      BY <1>10, <2>3 DEF ProtectSettles
    <3>5. rec[t].sold # 0
      <4>1. rec[t].pos = rec[t].sold - rec[t].bought /\ rec[t].bought \in Nat
        BY <1>2 DEF Explained, GoodRec
      <4> QED
        BY <2>1, <4>1
    <3>6. Explained(r, rest'[t], bought[t])
      BY <1>2, <3>3, <3>5 DEF Explained
    <3>7. Frame(t) /\ rec'[t] = r
      BY <1>2, <2>1, <3>2 DEF Frame, Become
    <3> QED
      BY <1>1, <3>4, <3>6, <3>7, CleanOwn
  <2> QED
    BY <2>2, <2>3
<1>11. CASE ClearCancels(t)
  <2> DEFINE r == [rec[t] EXCEPT !.cover = 0]
  <2>1. /\ rec' = [rec EXCEPT ![t] = r] /\ Become(t, None) /\ UNCHANGED <<sold, bought, hand>>
        /\ \A u \in Trade : rest'[u] = rest[u] \/ rest'[u] = 0
    BY <1>11 DEF ClearCancels
  <2>2. r.pos = rec[t].pos /\ r.sold = rec[t].sold /\ r.bought = rec[t].bought /\ r.phase = rec[t].phase
    BY <1>2 DEF GoodRec, Fields
  <2> HIDE DEF r
  <2>3. Frame(t) /\ rec'[t] = r
    BY <1>2, <2>1 DEF Frame, Become
  <2>4. Explained(r, rest'[t], bought[t])
    BY <1>2, <2>1, <2>2 DEF Explained
  <2> QED
    BY <1>1, <2>1, <2>3, <2>4, CleanOwn
<1>12. CASE ReadNet(t) \/ CompareShare(t) \/ ProtectReads(t) \/ ClearReads(t)
  BY <1>3, <1>12 DEF ReadNet, CompareShare, ProtectReads, ClearReads, venueVars
<1> QED
  BY <1>4, <1>5, <1>6, <1>7, <1>8, <1>9, <1>10, <1>11, <1>12 DEF Works

LEMMA CleanStep == BooksInv /\ CleanInv /\ [Next]_vars => CleanInv'
<1> SUFFICES ASSUME BooksInv, CleanInv, [Next]_vars PROVE CleanInv'
  OBVIOUS
<1>1. CASE UNCHANGED <<rec, rest, bought, written>>
  BY <1>1 DEF CleanInv, Explained
<1>2. ASSUME NEW t \in Trade, EntryFills(t) PROVE CleanInv'
  BY <1>1, <1>2 DEF EntryFills
<1>3. ASSUME NEW t \in Trade, ExitFills(t) PROVE CleanInv'
  <2>1. PICK n \in 1 .. rest[t] :
          /\ bought' = [bought EXCEPT ![t] = @ + n] /\ rest' = [rest EXCEPT ![t] = @ - n]
    BY <1>3 DEF ExitFills
  <2>2. /\ DOMAIN bought = Trade /\ DOMAIN rest = Trade /\ rest[t] \in Nat /\ bought[t] \in Nat
    BY Sizes DEF BooksInv, ExchangeInv
  <2>3. rest[t] > 0
    BY <2>1, <2>2
  <2>4. rec' = rec /\ written' = written
    BY <1>3 DEF ExitFills
  <2>5. /\ \A u \in Trade \ {t} : rest'[u] = rest[u] /\ bought'[u] = bought[u]
    BY <2>1, <2>2
  <2>6. ASSUME written = {}, NEW u \in Trade PROVE Explained(rec[u], rest'[u], bought'[u])
    <3>1. Explained(rec[u], rest[u], bought[u])
      BY <2>6 DEF CleanInv
    <3>2. CASE u = t
      BY <2>3, <3>1, <3>2 DEF Explained
    <3> QED
      BY <2>5, <3>1, <3>2
  <2> QED
    BY <2>4, <2>6 DEF CleanInv, Explained
<1>4. ASSUME NEW t \in Trade, ExitDropped(t) PROVE CleanInv'
  <2>1. rest' = [rest EXCEPT ![t] = 0] /\ UNCHANGED <<rec, bought, written>> /\ DOMAIN rest = Trade
    BY <1>4 DEF ExitDropped, BooksInv, ExchangeInv
  <2>2. \A u \in Trade : rest'[u] = rest[u] \/ rest'[u] = 0
    BY <2>1
  <2> QED
    BY <2>1, <2>2 DEF CleanInv, Explained
<1>5. CASE HandBuys \/ Started \/ Crash \/ UNCHANGED vars
  BY <1>1, <1>5 DEF HandBuys, Started, Crash, vars, venueVars
<1> QED
  BY <1>2, <1>3, <1>4, <1>5, CleanWorks DEF Next, Exchange

-----------------------------------------------------------------------------
(* What it takes to write a trade off *)

\* A trade that has bought more than it sold.
Overbought == \E u \in Trade : sold[u] # 0 /\ Share[u] < 0

\* The fills do not explain the position, and never will again.
Unexplained == written # {} \/ hand > 0 \/ Overbought

LEMMA UnexplainedStays == ASSUME BooksInv, [Next]_vars, Unexplained PROVE Unexplained'
<1>1. Onward
  BY StepsGoOnward
<1>2. \A u \in Trade : Share[u] \in Int /\ Share'[u] \in Int
  BY BooksStep, Sizes DEF BooksInv, ExchangeInv, Share
<1>3. CASE written # {}
  BY <1>1, <1>3 DEF Onward, Unexplained
<1>4. CASE hand > 0
  <2>1. hand \in Nat /\ hand' \in Nat
    BY BooksStep DEF BooksInv, ExchangeInv
  <2> QED
    BY <1>1, <1>4, <2>1 DEF Onward, Unexplained
<1>5. CASE Overbought
  <2>1. PICK u \in Trade : sold[u] # 0 /\ Share[u] < 0
    BY <1>5 DEF Overbought
  <2>2. sold'[u] # 0 /\ Share'[u] < 0
    BY <1>1, <1>2, <2>1 DEF Onward
  <2>3. Overbought'
    BY <2>2 DEF Overbought
  <2> QED
    BY <2>3 DEF Unexplained
<1> QED
  BY <1>3, <1>4, <1>5 DEF Unexplained

LEMMA ExplainedByFills ==
    ASSUME BooksInv, CleanInv
    PROVE  FillsExplain <=> ~Unexplained
<1>1. \A u \in Trade : Share[u] \in Int /\ Share[u] = sold[u] - bought[u] /\ bought[u] \in Nat
  BY Sizes DEF BooksInv, ExchangeInv, Share
<1>2. hand \in Nat
  BY DEF BooksInv, ExchangeInv
<1>3. FillsExplain => ~Unexplained
  BY <1>1 DEF FillsExplain, Unexplained, Overbought
<1>4. ASSUME ~Unexplained PROVE FillsExplain
  <2>1. hand = 0 /\ written = {}
    BY <1>2, <1>4 DEF Unexplained
  <2>2. ASSUME NEW u \in Trade PROVE Share[u] >= 0
    <3>1. CASE sold[u] # 0
      BY <1>1, <1>4, <3>1 DEF Unexplained, Overbought
    <3>2. CASE sold[u] = 0
      <4>1. rec[u].sold = 0
        BY <3>2 DEF BooksInv, GoodRec
      <4>2. bought[u] = 0
        BY <1>1, <2>1, <4>1 DEF CleanInv, Explained
      <4> QED
        BY <1>1, <3>2, <4>2
    <3> QED
      BY <3>1, <3>2
  <2> QED
    BY <2>1, <2>2 DEF FillsExplain
<1> QED
  BY <1>3, <1>4

\* Whoever goes by a read that says flat doubts it, or is right.
Flat(t) ==
    \/ At(t, "again")
    \/ At(t, "siblings") /\ job[t].net = 0
    \/ At(t, "judge") /\ job[t].net = 0

FlatGround(t) ==
    \/ Unexplained \/ bad > 0 \/ job[t].was = 0
    \/ sold[t] # 0 /\ Share[t] <= 0

FlatInv == \A t \in Trade : Flat(t) => FlatGround(t)

\* How a job comes to such a step.
LEMMA JobMoves ==
    ASSUME BooksInv, [Next]_vars, NEW t \in Trade, job'[t] # job[t], job'[t] # None,
           job'[t].step \in {"siblings", "judge", "again"}
    PROVE  \/ /\ ReadNet(t) /\ job'[t].step = "siblings"
              /\ \E n \in 0 .. Net :
                   /\ PositionRead(n) /\ job'[t].net = n
                   /\ job'[t].was = rec[t].sold - rec[t].bought
           \/ /\ CompareShare(t) /\ job'[t].step = "judge" /\ job'[t].net = job[t].net
              /\ job'[t].was = job[t].was /\ job'[t].shared = (SiblingsOn(t) # {})
           \/ /\ Judge(t) /\ job'[t].step = "again" /\ job[t].net = 0
              /\ job'[t].was = job[t].was
<1>1. DOMAIN job = Trade
  BY DEF BooksInv
<1>2. PICK u \in Trade : Works(u) \/ Exchange \/ Started \/ Crash \/ UNCHANGED vars
  BY DEF Next
<1>3. CASE Exchange \/ Started \/ Crash \/ UNCHANGED vars
  BY <1>3 DEF Exchange, HandBuys, EntryFills, ExitFills, ExitDropped, Started, Crash, vars
<1>4. CASE Works(u)
  <2>1. UNCHANGED job \/ \E j : Become(u, j)
    BY <1>4 DEF Works, Enter, Poll, Sweep, Reconcile, ReadNet, CompareShare, Judge, LookAgain,
      ProtectReads, ProtectSettles, ClearReads, ClearCancels, Write, Leave
  <2>2. u = t
    BY <1>1, <2>1 DEF Become
  <2>3. CASE Enter(t) \/ Sweep(t)
    BY <2>3 DEF Enter, Sweep
  <2>4. CASE Poll(t)
    BY <1>1, <2>4 DEF Poll, Become
  <2>5. CASE Reconcile(t)
    BY <1>1, <2>5 DEF Reconcile, Become
  <2>6. CASE ReadNet(t)
    BY <1>1, <2>6 DEF ReadNet, Become
  <2>7. CASE CompareShare(t)
    BY <1>1, <2>7 DEF CompareShare, Become
  <2>8. CASE Judge(t)
    BY <1>1, <2>8 DEF Judge, Become, Leave, Write
  <2>9. CASE LookAgain(t)
    BY <1>1, <2>9 DEF LookAgain, Become, Leave, Write
  <2>10. CASE ProtectReads(t)
    BY <1>1, <2>10 DEF ProtectReads, Become
  <2>11. CASE ProtectSettles(t) \/ ClearCancels(t)
    BY <1>1, <2>11 DEF ProtectSettles, ClearCancels, Become
  <2>12. CASE ClearReads(t)
    BY <1>1, <2>12 DEF ClearReads, Become
  <2> QED
    BY <1>4, <2>2, <2>3, <2>4, <2>5, <2>6, <2>7, <2>8, <2>9, <2>10, <2>11, <2>12 DEF Works
<1> QED
  BY <1>2, <1>3, <1>4

LEMMA FlatInit == Init => FlatInv
BY DEF Init, FlatInv, Flat, At

LEMMA FlatStep == BooksInv /\ CleanInv /\ FlatInv /\ [Next]_vars => FlatInv'
<1> SUFFICES ASSUME BooksInv, CleanInv, FlatInv, [Next]_vars, ~Unexplained',
                    NEW t \in Trade, Flat(t)'
             PROVE  FlatGround(t)'
  BY DEF FlatInv, FlatGround
<1>1. Onward /\ ~Unexplained /\ bad \in Nat /\ bad' \in Nat
  BY StepsGoOnward, UnexplainedStays, BooksStep DEF BooksInv, ExchangeInv
<1>2. Share[t] \in Int /\ Share'[t] \in Int
  BY BooksStep, Sizes DEF BooksInv, ExchangeInv, Share
<1>3. bad > 0 => bad' > 0
  BY <1>1 DEF Onward
<1>4. sold[t] # 0 /\ Share[t] <= 0 => sold'[t] # 0 /\ Share'[t] <= 0
  BY <1>1, <1>2 DEF Onward
<1>5. ASSUME FlatGround(t), job'[t].was = job[t].was PROVE FlatGround(t)'
  BY <1>1, <1>3, <1>4, <1>5 DEF FlatGround
<1>6. job'[t] # None /\ job'[t].step \in {"siblings", "judge", "again"}
  BY DEF Flat, At
<1>7. CASE job'[t] = job[t]
  <2>1. Flat(t)
    BY <1>7 DEF Flat, At
  <2> QED
    BY <1>5, <1>7, <2>1 DEF FlatInv
<1>8. CASE /\ CompareShare(t) /\ job'[t].step = "judge" /\ job'[t].net = job[t].net
           /\ job'[t].was = job[t].was
  <2>1. Flat(t)
    BY <1>8 DEF Flat, At, CompareShare
  <2> QED
    BY <1>5, <1>8, <2>1 DEF FlatInv
<1>9. CASE /\ Judge(t) /\ job[t].net = 0 /\ job'[t].was = job[t].was
  <2>1. Flat(t)
    BY <1>9 DEF Flat, At, Judge
  <2> QED
    BY <1>5, <1>9, <2>1 DEF FlatInv
<1>10. CASE /\ ReadNet(t) /\ job'[t].step = "siblings"
            /\ \E n \in 0 .. Net :
                 /\ PositionRead(n) /\ job'[t].net = n
                 /\ job'[t].was = rec[t].sold - rec[t].bought
  <2> SUFFICES ASSUME ~(bad' > 0), job'[t].was # 0 PROVE sold'[t] # 0 /\ Share'[t] <= 0
    BY DEF FlatGround
  <2>1. PositionRead(0)
    BY <1>10 DEF Flat, At
  <2>2. Net = 0
    BY <1>1, <2>1 DEF PositionRead
  <2>3. FillsExplain
    BY <1>1, ExplainedByFills
  <2>4. Share[t] <= 0
    <3>1. Share[t] <= Net + hand
      BY <2>3, ShareOfAll DEF BooksInv, FillsExplain
    <3> QED
      BY <2>2, <2>3, <3>1 DEF FillsExplain
  <2>5. rec[t].sold - rec[t].bought # 0
    BY <1>10
  <2>6. rec[t].sold # 0 \/ rec[t].bought # 0
    BY <2>5
  <2>7. Explained(rec[t], rest[t], bought[t]) /\ GoodRec(rec[t], sold[t], bought[t]) /\ bought[t] \in Nat
    BY <2>3 DEF CleanInv, FillsExplain, BooksInv, ExchangeInv
  <2>8. rec[t].sold # 0
    <3>1. CASE rec[t].bought # 0
      <4>1. bought[t] > 0
        BY <2>7, <3>1 DEF GoodRec
      <4> QED
        BY <2>7, <4>1 DEF Explained
    <3> QED
      BY <2>6, <3>1
  <2>9. sold[t] # 0
    BY <2>7, <2>8 DEF GoodRec
  <2> QED
    BY <1>4, <2>4, <2>9
<1> QED
  BY <1>6, <1>7, <1>8, <1>9, <1>10, JobMoves

\* Only a job's own step writes a number over the record.
LEMMA WritesAre ==
    ASSUME BooksInv, Next, NEW t \in Trade, Writes(t)
    PROVE  Judge(t) \/ LookAgain(t)
<1>1. DOMAIN job = Trade /\ job[t] # None /\ job[t].step \in {"judge", "again"} /\ job'[t] # None
      /\ job'[t].step \in {"protect", "clear"} /\ rec[t].phase # "none"
  BY DEF BooksInv, Writes, At, GoodJob
<1>2. PICK u \in Trade : Works(u) \/ Exchange \/ Started \/ Crash
  BY DEF Next
<1>3. CASE Exchange \/ Started \/ Crash
  BY <1>1, <1>3 DEF Exchange, HandBuys, EntryFills, ExitFills, ExitDropped, Started, Crash
<1>4. CASE Works(u)
  <2>1. UNCHANGED job \/ \E j : Become(u, j)
    BY <1>4 DEF Works, Enter, Poll, Sweep, Reconcile, ReadNet, CompareShare, Judge, LookAgain,
      ProtectReads, ProtectSettles, ClearReads, ClearCancels, Write, Leave
  <2>2. u = t
    BY <1>1, <2>1 DEF Become
  <2> QED
    BY <1>1, <1>4, <2>2 DEF Works, Enter, Poll, Sweep, Reconcile, ReadNet, CompareShare,
      ProtectReads, ProtectSettles, ClearReads, ClearCancels, At, Free
<1> QED
  BY <1>2, <1>3, <1>4

\* For any number of trades and any sizes: where the fills explain the
\* position, a trade that holds is written off only by two reads without the
\* contract, or by one if its entry filled between the two.
THEOREM NotWrittenOffByOneRead == Spec => WrittenOffFlat
<1> DEFINE OffFlat ==
      \A t \in Trade :
        Writes(t) /\ FillsExplain /\ Share[t] > 0 /\ rec'[t].pos = 0 =>
          bad' > (IF job[t].was = 0 THEN 0 ELSE 1)
<1>1. ASSUME BooksInv, CleanInv, FlatInv, Next, NEW t \in Trade,
             Writes(t), FillsExplain, Share[t] > 0, rec'[t].pos = 0
      PROVE  bad' > (IF job[t].was = 0 THEN 0 ELSE 1)
  <2>1. /\ GoodJob(job[t], rec[t]) /\ GoodRec(rec[t], sold[t], bought[t])
        /\ Explained(rec[t], rest[t], bought[t])
        /\ DOMAIN job = Trade /\ DOMAIN rec = Trade /\ bad \in Nat /\ Net \in Nat
        /\ Share[t] = sold[t] - bought[t]
    BY <1>1 DEF BooksInv, ExchangeInv, CleanInv, FillsExplain, Share
  <2>2. Net > 0
    <3>1. Share[t] \in Int
      BY <1>1, <2>1, Sizes DEF BooksInv, ExchangeInv
    <3>2. Share[t] <= Net + hand /\ hand = 0
      BY <1>1, ShareOfAll DEF BooksInv, FillsExplain
    <3> QED
      BY <1>1, <2>1, <3>1, <3>2
  <2>3. Judge(t) \/ LookAgain(t)
    BY <1>1, WritesAre
  <2>4. CASE Judge(t)
    <3> DEFINE r == Absorbed(t)
               n == IF job[t].shared THEN 0 ELSE job[t].held
    <3>1. job[t] # None /\ job[t].step = "judge" /\ rec[t].phase # "none"
      BY <2>1, <2>4 DEF Judge, At, GoodJob
    <3>2. r.pos = Share[t]
      <4>1. Explained(r, rest[t], bought[t]) /\ r.sold = sold[t] /\ r.bought = bought[t]
        BY <1>1, <2>1, <3>1, AbsorbedExplained, AbsorbedGood
      <4> QED
        BY <2>1, <4>1 DEF Explained
    <3>3. r.pos # 0 /\ (job[t].shared \/ job[t].held = job[t].net)
      BY <1>1, <2>1, <3>1, <3>2 DEF GoodJob
    <3>4. /\ job[t].held # r.pos /\ ~(job[t].shared /\ job[t].net # 0) /\ job[t].net # 0
          /\ Write(t, r, n)
      BY <1>1, <2>1, <2>4, <3>3 DEF Judge, Leave, Become, Writes
    <3>5. rec'[t].pos = n
      BY <2>1, <3>1, <3>4, AbsorbedGood DEF Write, GoodRec, Fields
    <3> QED
      BY <1>1, <3>3, <3>4, <3>5
  <2>5. CASE LookAgain(t)
    <3>1. PICK n \in 0 .. Net : PositionRead(n) /\ n = 0
      BY <1>1, <2>1, <2>5 DEF LookAgain, Leave, Become, Writes
    <3>2. bad' = bad + 1
      BY <2>2, <3>1 DEF PositionRead
    <3>3. Flat(t)
      BY <2>5 DEF Flat, LookAgain
    <3>4. job[t].was = 0 \/ bad > 0
      <4>1. ~Unexplained
        BY <1>1, ExplainedByFills
      <4>2. Share[t] \in Int
        BY <1>1, <2>1, Sizes DEF BooksInv, ExchangeInv
      <4>3. ~(Share[t] <= 0)
        BY <1>1, <4>2
      <4> QED
        BY <1>1, <3>3, <4>1, <4>3 DEF FlatInv, FlatGround
    <3> QED
      BY <2>1, <3>2, <3>4
  <2> QED
    BY <2>3, <2>4, <2>5
<1>2. BooksInv /\ CleanInv /\ FlatInv /\ [Next]_vars => [OffFlat]_vars
  BY <1>1
<1>3. Spec => [](BooksInv /\ CleanInv /\ FlatInv)
  BY BooksInit, BooksStep, CleanInit, CleanStep, FlatInit, FlatStep, PTL DEF Spec
<1> QED
  BY <1>2, <1>3, PTL DEF Spec, WrittenOffFlat

-----------------------------------------------------------------------------
(* The start: one trade at a time *)

\* While recover() goes through the trades, the job of one that has the
\* contract to itself goes by what its own fills came to.
Alone(t) ==
    \/ At(t, "siblings") /\ SiblingsOn(t) = {}
    \/ At(t, "judge") /\ ~job[t].shared

AloneGround(t) ==
    LET r == rec[t]
        j == job[t] IN
    \/ Unexplained \/ bad > 0 \/ j.net = 0
    \/ r.sold = 0 /\ sold[t] # 0 /\ j.net = Lots[t]
    \/ r.sold # 0 /\ Share[t] <= j.net /\ j.net <= j.was

StartInv ==
    start # None => \A t \in Trade : job[t] # None =>
      /\ \A u \in Trade \ {t} : job[u] = None
      /\ Alone(t) => AloneGround(t)

\* The steps of the start are those of the one job.
LEMMA StartSteps ==
    ASSUME BooksInv, StartInv, [Next]_vars, start' # None, NEW t \in Trade, job'[t] # None
    PROVE  /\ start # None /\ \A u \in Trade \ {t} : job[u] = None /\ job'[u] = None
           /\ Works(t) \/ UNCHANGED <<rec, job>>
<1>1. DOMAIN job = Trade
  BY DEF BooksInv
<1>2. PICK u \in Trade : Works(u) \/ Exchange \/ Started \/ Crash \/ UNCHANGED vars
  BY DEF Next
<1>3. ~Crash /\ ~Started
  BY DEF Crash, Started
<1>4. CASE Exchange \/ UNCHANGED vars
  <2>1. UNCHANGED <<rec, job, start>>
    BY <1>4 DEF Exchange, HandBuys, EntryFills, ExitFills, ExitDropped, vars
  <2> QED
    BY <2>1 DEF StartInv
<1>5. CASE Works(u)
  <2>1. start # None
    BY <1>5 DEF Works, Enter, Poll, Sweep, Reconcile, ReadNet, CompareShare, Judge, LookAgain,
      ProtectReads, ProtectSettles, ClearReads, ClearCancels, venueVars
  <2>2. job[u] # None \/ \A v \in Trade : job[v] = None
    BY <1>5, <2>1 DEF Works, Enter, Poll, Sweep, Reconcile, ReadNet, CompareShare, Judge,
      LookAgain, ProtectReads, ProtectSettles, ClearReads, ClearCancels, At, Free
  <2>3. \A v \in Trade \ {u} : job[v] = None
    BY <2>1, <2>2 DEF StartInv
  <2>4. UNCHANGED job \/ \E j : Become(u, j)
    BY <1>5 DEF Works, Enter, Poll, Sweep, Reconcile, ReadNet, CompareShare, Judge, LookAgain,
      ProtectReads, ProtectSettles, ClearReads, ClearCancels, Write, Leave
  <2>5. \A v \in Trade \ {u} : job'[v] = job[v]
    BY <1>1, <2>4 DEF Become
  <2>6. u = t
    BY <2>3, <2>5
  <2> QED
    BY <1>5, <2>1, <2>3, <2>5, <2>6
<1> QED
  BY <1>2, <1>3, <1>4, <1>5

\* The number read, when this trade alone has the contract.
LEMMA ReadAlone ==
    ASSUME BooksInv, CleanInv, FillsExplain, NEW t \in Trade, SiblingsOn(t) = {}
    PROVE  Share[t] = Net
<1>1. ASSUME NEW u \in Trade \ {t} PROVE Share[u] = 0
  <2>1. /\ GoodRec(rec[u], sold[u], bought[u]) /\ Explained(rec[u], rest[u], bought[u])
        /\ bought[u] \in Nat /\ sold[u] \in Nat /\ Share[u] = sold[u] - bought[u] /\ Share[u] >= 0
    BY Sizes DEF BooksInv, ExchangeInv, CleanInv, FillsExplain, Share
  <2>2. rec[u].phase = "none" \/ rec[u].phase = "done"
    BY <2>1 DEF GoodRec, Phases, SiblingsOn, Open
  <2>3. CASE rec[u].phase = "none"
    BY <2>1, <2>3 DEF GoodRec, Explained
  <2>4. CASE rec[u].phase = "done"
    <3>1. rec[u].sold = rec[u].bought /\ rec[u].sold = sold[u]
      BY <2>1, <2>4 DEF GoodRec, Explained
    <3>2. rec[u].bought <= bought[u]
      BY <2>1 DEF GoodRec
    <3> QED
      BY <2>1, <3>1, <3>2
  <2> QED
    BY <2>2, <2>3, <2>4
<1>2. Share[t] = Net + hand
  BY <1>1, ShareAlone DEF BooksInv
<1>3. hand = 0 /\ Net \in Nat
  BY DEF FillsExplain, BooksInv, ExchangeInv
<1> QED
  BY <1>2, <1>3

\* What is known at the read is the ground the job goes by.
LEMMA GroundAtRead ==
    ASSUME BooksInv, CleanInv, FillsExplain, NEW t \in Trade, SiblingsOn(t) = {}
    PROVE  \/ Net = 0
           \/ rec[t].sold = 0 /\ sold[t] # 0 /\ Net = Lots[t]
           \/ rec[t].sold # 0 /\ Share[t] <= Net /\ Net <= rec[t].sold - rec[t].bought
<1>1. Share[t] = Net /\ Share[t] = sold[t] - bought[t] /\ Net \in Nat
  BY ReadAlone DEF Share, BooksInv, ExchangeInv
<1>2. /\ GoodRec(rec[t], sold[t], bought[t]) /\ Explained(rec[t], rest[t], bought[t])
      /\ bought[t] \in Nat /\ sold[t] \in Nat /\ Lots[t] \in Nat /\ (sold[t] = 0 \/ sold[t] = Lots[t])
  BY Sizes DEF BooksInv, ExchangeInv, CleanInv, FillsExplain
<1>3. CASE rec[t].sold = 0
  <2>1. bought[t] = 0
    BY <1>2, <1>3 DEF Explained
  <2> QED
    BY <1>1, <1>2, <1>3, <2>1
<1>4. CASE rec[t].sold # 0
  <2>1. rec[t].sold = sold[t] /\ rec[t].bought \in Nat /\ rec[t].bought <= bought[t]
    BY <1>2, <1>4 DEF GoodRec
  <2> QED
    BY <1>1, <1>2, <1>4, <2>1
<1> QED
  BY <1>3, <1>4

\* It stays so while only the exchange moves.
LEMMA GroundStays ==
    ASSUME BooksInv, [Next]_vars, NEW t \in Trade, AloneGround(t), rec'[t] = rec[t],
           job'[t].net = job[t].net, job'[t].was = job[t].was, job[t].net \in Nat
    PROVE  AloneGround(t)'
<1>1. Onward /\ (Unexplained => Unexplained')
  BY StepsGoOnward, UnexplainedStays
<1>2. Share[t] \in Int /\ Share'[t] \in Int /\ bad \in Nat /\ bad' \in Nat
  BY BooksStep, Sizes DEF BooksInv, ExchangeInv, Share
<1>3. bad > 0 => bad' > 0
  BY <1>1, <1>2 DEF Onward
<1>4. sold[t] # 0 => sold'[t] # 0
  BY <1>1 DEF Onward
<1>5. rec[t].sold # 0 => sold[t] # 0
  BY DEF BooksInv, GoodRec
<1>6. rec[t].sold # 0 /\ Share[t] <= job[t].net => Share'[t] <= job[t].net
  BY <1>1, <1>2, <1>5 DEF Onward
<1> QED
  BY <1>1, <1>3, <1>4, <1>6 DEF AloneGround

LEMMA StartInit == Init => StartInv
BY DEF Init, StartInv

LEMMA StartStep == BooksInv /\ CleanInv /\ StartInv /\ [Next]_vars => StartInv'
<1> SUFFICES ASSUME BooksInv, CleanInv, StartInv, [Next]_vars, start' # None,
                    NEW t \in Trade, job'[t] # None
             PROVE  /\ \A u \in Trade \ {t} : job'[u] = None
                    /\ Alone(t)' => AloneGround(t)'
  BY DEF StartInv
<1>1. /\ start # None /\ \A u \in Trade \ {t} : job[u] = None /\ job'[u] = None
      /\ Works(t) \/ UNCHANGED <<rec, job>>
  BY StartSteps
<1> SUFFICES ASSUME Alone(t)' PROVE AloneGround(t)'
  BY <1>1
<1>2. job'[t].step \in {"siblings", "judge"}
  BY DEF Alone, At
<1>3. CASE job'[t] = job[t]
  <2>1. UNCHANGED <<rec, job>>
    <3>1. At(t, "siblings") \/ At(t, "judge")
      BY <1>3 DEF Alone, At
    <3>2. ASSUME Works(t) PROVE CompareShare(t) \/ Judge(t) \/ Enter(t)
      BY <3>1, <3>2 DEF Works, Poll, Sweep, Reconcile, ReadNet, LookAgain, ProtectReads,
        ProtectSettles, ClearReads, ClearCancels, At, Free
    <3>3. DOMAIN job = Trade /\ rec[t].phase # "none"
      BY <3>1 DEF BooksInv, GoodJob, At
    <3>4. ~CompareShare(t)
      BY <1>3, <3>3 DEF CompareShare, At, Become
    <3>5. ~Judge(t)
      BY <1>3, <3>3 DEF Judge, At, Become, Leave, Write
    <3>6. ~Enter(t)
      BY <3>3 DEF Enter
    <3> QED
      BY <1>1, <3>2, <3>4, <3>5, <3>6
  <2>2. Alone(t)
    BY <2>1 DEF Alone, At, SiblingsOn, Open
  <2>3. AloneGround(t) /\ job[t].net \in Nat
    <3>1. At(t, "siblings") \/ At(t, "judge")
      BY <2>2 DEF Alone
    <3>2. job[t].net \in 0 .. Most
      BY <3>1 DEF BooksInv, GoodJob, At
    <3> QED
      BY <1>1, <2>2, <3>1, <3>2, Sizes DEF StartInv, BooksInv, At
  <2> QED
    BY <2>1, <2>3, GroundStays
<1>4. CASE /\ CompareShare(t) /\ job'[t].step = "judge" /\ job'[t].net = job[t].net
           /\ job'[t].was = job[t].was /\ job'[t].shared = (SiblingsOn(t) # {})
  <2>1. SiblingsOn(t) = {} /\ At(t, "siblings") /\ rec' = rec
    BY <1>4 DEF Alone, At, CompareShare
  <2>2. job[t].net \in 0 .. Most
    BY <2>1 DEF BooksInv, GoodJob, At
  <2>3. AloneGround(t) /\ job[t].net \in Nat
    BY <1>1, <2>1, <2>2, Sizes DEF StartInv, BooksInv, At, Alone
  <2> QED
    BY <1>4, <2>1, <2>3, GroundStays
<1>5. CASE /\ ReadNet(t) /\ job'[t].step = "siblings"
           /\ \E n \in 0 .. Net :
                /\ PositionRead(n) /\ job'[t].net = n
                /\ job'[t].was = rec[t].sold - rec[t].bought
  <2> SUFFICES ASSUME ~Unexplained', ~(bad' > 0), job'[t].net # 0 PROVE AloneGround(t)'
    BY DEF AloneGround
  <2>1. /\ UNCHANGED <<rec, sold, bought, hand>> /\ SiblingsOn(t) = {}
        /\ Net' = Net /\ Share' = Share
    BY <1>5, NetStays DEF ReadNet, venueVars, Alone, At, SiblingsOn, Open
  <2>2. FillsExplain
    BY UnexplainedStays, ExplainedByFills
  <2>3. bad \in Nat
    BY DEF BooksInv, ExchangeInv
  <2>4. job'[t].net = Net /\ job'[t].was = rec[t].sold - rec[t].bought
    BY <1>5, <2>3 DEF PositionRead
  <2>5. \/ rec[t].sold = 0 /\ sold[t] # 0 /\ Net = Lots[t]
        \/ rec[t].sold # 0 /\ Share[t] <= Net /\ Net <= rec[t].sold - rec[t].bought
    BY <2>1, <2>2, <2>4, GroundAtRead
  <2> QED
    BY <2>1, <2>4, <2>5 DEF AloneGround
<1> QED
  BY <1>2, <1>3, <1>4, <1>5, JobMoves

\* For any number of trades and any sizes, and whatever the exchange fills
\* meanwhile: with the fills explaining the position and no bad read, what the
\* start writes over a record is what the trade's own fills came to.
THEOREM StartWritesOwnFills == Spec => StartKeepsShares
<1> DEFINE Keeps ==
      \A t \in Trade :
        start # None /\ Writes(t) /\ FillsExplain /\ bad' = 0 =>
          rec'[t].pos = Share[t] \/ rec'[t].pos \in Share[t] .. job[t].was
<1>1. ASSUME BooksInv, CleanInv, StartInv, Next, NEW t \in Trade,
             start # None, Writes(t), FillsExplain, bad' = 0
      PROVE  rec'[t].pos = Share[t] \/ rec'[t].pos \in Share[t] .. job[t].was
  <2>1. /\ GoodJob(job[t], rec[t]) /\ GoodRec(rec[t], sold[t], bought[t])
        /\ Explained(rec[t], rest[t], bought[t])
        /\ DOMAIN job = Trade /\ DOMAIN rec = Trade /\ bad \in Nat /\ Net \in Nat
        /\ Share[t] = sold[t] - bought[t] /\ sold[t] \in Nat /\ bought[t] \in Nat
        /\ sold[t] = 0 \/ sold[t] = Lots[t]
    BY <1>1, Sizes DEF BooksInv, ExchangeInv, CleanInv, FillsExplain, Share
  <2>2. CASE Judge(t)
    <3> DEFINE r == Absorbed(t)
               n == IF job[t].shared THEN 0 ELSE job[t].held
    <3>1. job[t] # None /\ job[t].step = "judge" /\ rec[t].phase # "none"
      BY <2>1, <2>2 DEF Judge, At, GoodJob
    <3>2. r.pos = Share[t]
      <4>1. Explained(r, rest[t], bought[t]) /\ r.sold = sold[t] /\ r.bought = bought[t]
        BY <1>1, <2>1, <3>1, AbsorbedExplained, AbsorbedGood
      <4> QED
        BY <2>1, <4>1 DEF Explained
    <3>3. job[t].shared \/ job[t].held = job[t].net
      BY <2>1, <3>1 DEF GoodJob
    <3>4. /\ job[t].held # r.pos /\ ~(job[t].shared /\ job[t].net # 0)
          /\ ~(job[t].net = 0 /\ r.pos # 0) /\ Write(t, r, n)
      BY <1>1, <2>1, <2>2, <3>1 DEF Judge, Leave, Become, Writes
    <3>5. rec'[t].pos = n
      BY <1>1, <2>1, <3>1, <3>4, AbsorbedGood DEF Write, GoodRec, Fields
    <3>6. CASE job[t].shared
      BY <3>2, <3>4, <3>5, <3>6
    <3>7. CASE ~job[t].shared
      <4>1. n = job[t].net /\ job[t].net # Share[t] /\ job[t].net # 0 /\ job[t].net \in 0 .. Most
            /\ job[t].was \in Int
        BY <2>1, <3>1, <3>2, <3>3, <3>4, <3>7 DEF GoodJob
      <4>2. AloneGround(t)
        BY <1>1, <3>1, <3>7 DEF StartInv, Alone, At
      <4>3. ~Unexplained /\ ~(bad > 0)
        <5>1. bad <= bad'
          BY <1>1, StepsGoOnward DEF Onward
        <5> QED
          BY <1>1, <2>1, <5>1, ExplainedByFills
      <4>4. CASE rec[t].sold = 0 /\ sold[t] # 0 /\ job[t].net = Lots[t]
        <5>1. bought[t] = 0
          BY <2>1, <4>4 DEF Explained
        <5> QED
          BY <2>1, <4>1, <4>4, <5>1
      <4>5. CASE rec[t].sold # 0 /\ Share[t] <= job[t].net /\ job[t].net <= job[t].was
        BY <2>1, <3>5, <4>1, <4>5
      <4> QED
        BY <4>1, <4>2, <4>3, <4>4, <4>5 DEF AloneGround
    <3> QED
      BY <3>6, <3>7
  <2>3. CASE LookAgain(t)
    <3>1. PICK n \in 0 .. Net : PositionRead(n) /\ n = 0 /\ Write(t, rec[t], 0)
      BY <1>1, <2>1, <2>3 DEF LookAgain, Leave, Become, Writes
    <3>2. Net = 0
      BY <1>1, <2>1, <3>1 DEF PositionRead
    <3>3. Share[t] = 0
      <4>1. Share[t] <= Net + hand /\ Share[t] >= 0 /\ hand = 0
        BY <1>1, ShareOfAll DEF BooksInv, FillsExplain
      <4> QED
        BY <2>1, <3>2, <4>1
    <3>4. rec'[t].pos = 0
      BY <2>1, <3>1 DEF Write, GoodRec, Fields
    <3> QED
      BY <3>3, <3>4
  <2> QED
    BY <1>1, <2>2, <2>3, WritesAre
<1>2. BooksInv /\ CleanInv /\ StartInv /\ [Next]_vars => [Keeps]_vars
  BY <1>1
<1>3. Spec => [](BooksInv /\ CleanInv /\ StartInv)
  BY BooksInit, BooksStep, CleanInit, CleanStep, StartInit, StartStep, PTL DEF Spec
<1> QED
  BY <1>2, <1>3, PTL DEF Spec, StartKeepsShares

-----------------------------------------------------------------------------
(* The exits of the siblings *)

\* The orders a job may take off as left over are never an open sibling's.
LEMMA LeftoversSpareSiblings ==
    ASSUME NEW t \in Trade, NEW u \in Open, NEW seen, u # t
    PROVE  u \notin Leftovers(seen, t)
BY DEF Leftovers, SiblingsOn

\* The number of trades on a contract, their sizes, lost reads and restarts do
\* not matter: an open trade's exit leaves the book by its own hand or the
\* exchange's.
THEOREM ExitsOfSiblingsStay == Spec => SiblingsLeftAlone
<1>. DEFINE Spared ==
       \A t \in Trade :
         t \in Open /\ rest[t] > 0 /\ rest'[t] = 0 =>
           \/ bought'[t] # bought[t] \/ Net = 0
           \/ job'[t] # job[t] \/ rec'[t] # rec[t]
<1>1. ASSUME BooksInv, Next, NEW t \in Trade, t \in Open, rest[t] > 0, rest'[t] = 0,
             bought'[t] = bought[t], Net # 0, job'[t] = job[t], rec'[t] = rec[t]
      PROVE  FALSE
  <2>1. rest'[t] # rest[t]
    BY <1>1
  <2>2. /\ DOMAIN rec = Trade /\ DOMAIN job = Trade /\ DOMAIN rest = Trade /\ DOMAIN bought = Trade
        /\ bought[t] \in Nat
    BY <1>1 DEF BooksInv, ExchangeInv
  <2>3. ASSUME NEW u \in Trade, ExitFills(u)
        PROVE  FALSE
    <3>1. PICK n \in 1 .. rest[u] :
            bought' = [bought EXCEPT ![u] = @ + n] /\ rest' = [rest EXCEPT ![u] = @ - n]
      BY <2>3 DEF ExitFills
    <3>2. u = t
      BY <2>1, <2>2, <3>1
    <3>3. n \in Int /\ n # 0
      BY <1>1, <3>2 DEF BooksInv, ExchangeInv
    <3>. QED BY <1>1, <2>2, <3>1, <3>2, <3>3
  <2>4. ASSUME NEW u \in Trade, ExitDropped(u)
        PROVE  FALSE
    BY <1>1, <2>4 DEF ExitDropped
  <2>5. ASSUME NEW u \in Trade, ProtectSettles(u) \/ ClearCancels(u)
        PROVE  FALSE
    <3>1. u # t
      BY <1>1, <2>2, <2>5 DEF ProtectSettles, ClearCancels, At, Become
    <3>2. t \notin Leftovers(job[u].seen, u)
      BY <1>1, <3>1, LeftoversSpareSiblings
    <3>. QED BY <2>1, <2>5, <3>1, <3>2 DEF ProtectSettles, ClearCancels
  <2>6. ASSUME NEW u \in Trade, Poll(u)
        PROVE  FALSE
    <3>1. /\ u = t /\ LookedUp(u).phase = "done"
          /\ rec' = [rec EXCEPT ![u] = [LookedUp(u) EXCEPT !.cover = 0]]
      BY <1>1, <2>1, <2>2, <2>6 DEF Poll
    <3>2. DOMAIN LookedUp(t) = Fields
      BY <1>1, LookedUpGood DEF Open, GoodRec
    <3>3. rec'[t].phase = "done"
      BY <2>2, <3>1, <3>2 DEF Fields
    <3>. QED BY <1>1, <3>3 DEF Open
  <2>7. ASSUME NEW u \in Trade, Sweep(u)
        PROVE  FALSE
    BY <1>1, <2>1, <2>2, <2>7 DEF Sweep, Open
  <2>8. CASE UNCHANGED rest
    BY <2>1, <2>8
  <2>9. ASSUME NEW u \in Trade,
               \/ Enter(u) \/ Reconcile(u) \/ ReadNet(u) \/ CompareShare(u) \/ Judge(u)
               \/ LookAgain(u) \/ ProtectReads(u) \/ ClearReads(u) \/ EntryFills(u)
        PROVE  FALSE
    BY <2>8, <2>9 DEF Enter, Reconcile, ReadNet, CompareShare, Judge, LookAgain, ProtectReads,
      ClearReads, EntryFills, venueVars
  <2>10. CASE Started \/ Crash \/ HandBuys
    BY <2>8, <2>10 DEF Started, Crash, HandBuys, venueVars
  <2>. QED BY <1>1, <2>3, <2>4, <2>5, <2>6, <2>7, <2>9, <2>10 DEF Next, Exchange, Works
<1>2. BooksInv /\ [Next]_vars => [Spared]_vars
  BY <1>1
<1>. QED BY <1>2, BooksInvariant, PTL DEF Spec, SiblingsLeftAlone

=============================================================================
