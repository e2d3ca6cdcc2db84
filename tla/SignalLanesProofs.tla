------------------------- MODULE SignalLanesProofs -------------------------
(***************************************************************************)
(* Proofs about SignalLanes, for any signals, strategies and accounts, any *)
(* caps and any number of turns and faults: no signal is sold twice, the   *)
(* caps hold, the longest timeframe goes first, and a signal's trades      *)
(* never multiply.                                                         *)
(***************************************************************************)
EXTENDS SignalLanes, FiniteSetTheorems, FunctionTheorems, SequenceTheorems,
        WellFoundedInduction, TLAPS

\* Whatever has been sold was claimed, and not too much of it is open.
ClaimInv ==
    /\ DOMAIN at = Account
    /\ IsFiniteSet(open)
    /\ open \subseteq claims /\ gone \subseteq claims

\* Between its claim and its order a line's key is claimed, unsold, and of the
\* line's own account.
WorkAt(a) ==
    at[a] # Idle /\ at[a].step \in {"count", "place"} =>
      /\ Head(at[a].todo) \in claims
      /\ Head(at[a].todo) \notin open
      /\ Head(at[a].todo) \notin gone
      /\ AccountOf[Head(at[a].todo).st] = a

\* What a line has counted: its account only loses trades until it places.
RoomAt(a) ==
    at[a] # Idle /\ at[a].step = "place" =>
      /\ Cardinality(OwnOf(a, Head(at[a].todo).st)) < MaxOpen
      /\ Cap > 0 => Cardinality(OpenOf(a)) < Cap
      /\ Cap > 0 => Cardinality(OnSide(a, Head(at[a].todo).side)) < SideCap

\* CapsHeld, of one account.
CapsAt(a) ==
    /\ Cap > 0 => Cardinality(OpenOf(a)) <= Cap
    /\ \A side \in {"CE", "PE"} : Cap > 0 => Cardinality(OnSide(a, side)) <= SideCap
    /\ \A st \in Strategy : Cardinality(OwnOf(a, st)) <= MaxOpen

LaneInv ==
    ClaimInv /\ \A a \in Account : WorkAt(a) /\ RoomAt(a) /\ CapsAt(a)

\* A line in which nothing is claimed and not yet placed.
Resting(a) == at[a] = Idle \/ at[a].step \notin {"count", "place"}

-----------------------------------------------------------------------------
\* A set with room for one more takes one more.
LEMMA OneMore ==
  ASSUME NEW S, IsFiniteSet(S), NEW T, NEW k, T \subseteq S \cup {k},
         NEW n \in Nat, Cardinality(S) < n
  PROVE  Cardinality(T) <= n
  <1>1. IsFiniteSet(S \cup {k}) /\ Cardinality(S) \in Nat
    BY FS_AddElement, FS_CardinalityType
  <1>2. \/ Cardinality(S \cup {k}) = Cardinality(S)
        \/ Cardinality(S \cup {k}) = Cardinality(S) + 1
    BY FS_AddElement
  <1>3. IsFiniteSet(T) /\ Cardinality(T) <= Cardinality(S \cup {k})
    BY <1>1, FS_Subset
  <1>4. Cardinality(T) \in Nat
    BY <1>3, FS_CardinalityType
  <1>5. QED
    BY <1>1, <1>2, <1>3, <1>4

\* A part is no larger than the whole.
LEMMA NoMore ==
  ASSUME NEW S, IsFiniteSet(S), NEW T, T \subseteq S
  PROVE  /\ IsFiniteSet(T) /\ Cardinality(T) <= Cardinality(S)
         /\ Cardinality(T) \in Nat /\ Cardinality(S) \in Nat
  BY FS_Subset, FS_CardinalityType

\* What an account has open is finite.
LEMMA FiniteOpen ==
  ASSUME ClaimInv, NEW a
  PROVE  /\ IsFiniteSet(OpenOf(a))
         /\ \A st : IsFiniteSet(OwnOf(a, st))
         /\ \A side : IsFiniteSet(OnSide(a, side))
  <1>1. IsFiniteSet(OpenOf(a))
    <2>1. OpenOf(a) \subseteq open
      BY DEF OpenOf
    <2>2. QED
      BY <2>1, NoMore DEF ClaimInv
  <1>2. ASSUME NEW st PROVE IsFiniteSet(OwnOf(a, st))
    <2>1. OwnOf(a, st) \subseteq OpenOf(a)
      BY DEF OwnOf
    <2>2. QED
      BY <1>1, <2>1, NoMore
  <1>3. ASSUME NEW side PROVE IsFiniteSet(OnSide(a, side))
    <2>1. OnSide(a, side) \subseteq OpenOf(a)
      BY DEF OnSide
    <2>2. QED
      BY <1>1, <2>1, NoMore
  <1>4. QED
    BY <1>1, <1>2, <1>3

\* While nothing new of an account is open, it has no more of anything.
LEMMA FewerOpen ==
  ASSUME ClaimInv, NEW a, OpenOf(a)' \subseteq OpenOf(a)
  PROVE  /\ Cardinality(OpenOf(a)') <= Cardinality(OpenOf(a))
         /\ Cardinality(OpenOf(a)') \in Nat /\ Cardinality(OpenOf(a)) \in Nat
         /\ \A st :
              /\ Cardinality(OwnOf(a, st)') <= Cardinality(OwnOf(a, st))
              /\ Cardinality(OwnOf(a, st)') \in Nat
              /\ Cardinality(OwnOf(a, st)) \in Nat
         /\ \A side :
              /\ Cardinality(OnSide(a, side)') <= Cardinality(OnSide(a, side))
              /\ Cardinality(OnSide(a, side)') \in Nat
              /\ Cardinality(OnSide(a, side)) \in Nat
  <1>1. /\ Cardinality(OpenOf(a)') <= Cardinality(OpenOf(a))
        /\ Cardinality(OpenOf(a)') \in Nat /\ Cardinality(OpenOf(a)) \in Nat
    BY FiniteOpen, NoMore
  <1>2. ASSUME NEW st
        PROVE  /\ Cardinality(OwnOf(a, st)') <= Cardinality(OwnOf(a, st))
               /\ Cardinality(OwnOf(a, st)') \in Nat
               /\ Cardinality(OwnOf(a, st)) \in Nat
    <2>1. OwnOf(a, st)' \subseteq OwnOf(a, st)
      BY DEF OwnOf
    <2>2. QED
      BY <2>1, FiniteOpen, NoMore
  <1>3. ASSUME NEW side
        PROVE  /\ Cardinality(OnSide(a, side)') <= Cardinality(OnSide(a, side))
               /\ Cardinality(OnSide(a, side)') \in Nat
               /\ Cardinality(OnSide(a, side)) \in Nat
    <2>1. OnSide(a, side)' \subseteq OnSide(a, side)
      BY DEF OnSide
    <2>2. QED
      BY <2>1, FiniteOpen, NoMore
  <1>4. QED
    BY <1>1, <1>2, <1>3
-----------------------------------------------------------------------------
\* An account of which nothing new is open, and whose line claims nothing, is
\* as it should be.
LEMMA AccountKept ==
  ASSUME LaneInv, NEW a \in Account, claims \subseteq claims',
         gone' \subseteq gone \cup open, OpenOf(a)' \subseteq OpenOf(a),
         at'[a] = at[a] \/ Resting(a)'
  PROVE  WorkAt(a)' /\ RoomAt(a)' /\ CapsAt(a)'
  <1> DEFINE k == Head(at[a].todo)
  <1>1. WorkAt(a) /\ RoomAt(a) /\ CapsAt(a) /\ ClaimInv
    BY DEF LaneInv
  <1>2. WorkAt(a)'
    <2>1. CASE at'[a] = at[a]
      <3>1. ASSUME k \in open', AccountOf[k.st] = a
            PROVE  k \in open
        BY <3>1 DEF OpenOf
      <3>2. QED
        BY <1>1, <2>1, <3>1 DEF WorkAt
    <2>2. CASE Resting(a)'
      BY <2>2 DEF Resting, WorkAt
    <2>3. QED
      BY <2>1, <2>2
  <1>3. MaxOpen \in Nat /\ Cap \in Nat /\ SideCap \in Nat
    BY LaneAssumption DEF LaneAssumption
  <1>4. /\ Cardinality(OpenOf(a)') <= Cardinality(OpenOf(a))
        /\ Cardinality(OpenOf(a)') \in Nat /\ Cardinality(OpenOf(a)) \in Nat
    BY <1>1, FewerOpen
  <1>5. ASSUME NEW st
        PROVE  /\ Cardinality(OwnOf(a, st)') <= Cardinality(OwnOf(a, st))
               /\ Cardinality(OwnOf(a, st)') \in Nat
               /\ Cardinality(OwnOf(a, st)) \in Nat
    BY <1>1, FewerOpen
  <1>6. ASSUME NEW side
        PROVE  /\ Cardinality(OnSide(a, side)') <= Cardinality(OnSide(a, side))
               /\ Cardinality(OnSide(a, side)') \in Nat
               /\ Cardinality(OnSide(a, side)) \in Nat
    BY <1>1, FewerOpen
  <1>7. RoomAt(a)'
    <2>1. CASE at'[a] = at[a]
      <3>1. ASSUME NEW q, q = Head(at[a].todo),
                   at[a] # Idle, at[a].step = "place"
            PROVE  /\ Cardinality(OwnOf(a, q.st)') < MaxOpen
                   /\ Cap > 0 => Cardinality(OpenOf(a)') < Cap
                   /\ Cap > 0 => Cardinality(OnSide(a, q.side)') < SideCap
        <4>1. /\ Cardinality(OwnOf(a, q.st)) < MaxOpen
              /\ Cap > 0 => Cardinality(OpenOf(a)) < Cap
              /\ Cap > 0 => Cardinality(OnSide(a, q.side)) < SideCap
          BY <1>1, <3>1 DEF RoomAt
        <4>2. QED
          BY <1>3, <1>4, <1>5, <1>6, <4>1
      <3>2. QED
        BY <2>1, <3>1 DEF RoomAt, OwnOf, OpenOf, OnSide
    <2>2. CASE Resting(a)'
      BY <2>2 DEF Resting, RoomAt
    <2>3. QED
      BY <2>1, <2>2
  <1>8. CapsAt(a)'
    <2>1. Cap > 0 => Cardinality(OpenOf(a)') <= Cap
      BY <1>1, <1>3, <1>4 DEF CapsAt
    <2>2. ASSUME NEW side \in {"CE", "PE"}
          PROVE  Cap > 0 => Cardinality(OnSide(a, side)') <= SideCap
      BY <1>1, <1>3, <1>6 DEF CapsAt
    <2>3. ASSUME NEW st \in Strategy
          PROVE  Cardinality(OwnOf(a, st)') <= MaxOpen
      BY <1>1, <1>3, <1>5 DEF CapsAt
    <2>4. QED
      BY <2>1, <2>2, <2>3 DEF CapsAt
  <1>9. QED
    BY <1>2, <1>7, <1>8

\* What serve() makes of a line: it is as it was, idle, or at its first step.
LEMMA ServeRests ==
  ASSUME NEW waiting, NEW busy, NEW coming
  PROVE  \/ Serve(waiting, busy, coming).at = busy
         \/ Serve(waiting, busy, coming).at.step \in {"list", "off"}
  BY DEF Serve, Begun

LEMMA TurnOverRests ==
  ASSUME LaneInv, NEW a \in Account, TurnOver(a)
  PROVE  /\ DOMAIN at' = Account /\ Resting(a)'
         /\ \A b \in Account : b # a => at'[b] = at[b]
  <1>1. /\ at' = [at EXCEPT ![a] = Serve(line[a], Idle, arriving).at]
        /\ DOMAIN at = Account
    BY DEF TurnOver, LaneInv, ClaimInv
  <1>2. at'[a] = Serve(line[a], Idle, arriving).at
    BY <1>1
  <1>3. Resting(a)'
    BY <1>2, ServeRests DEF Resting
  <1>4. QED
    BY <1>1, <1>3

LEMMA ProceedRests ==
  ASSUME LaneInv, NEW a \in Account, NEW todo, Proceed(a, todo)
  PROVE  /\ DOMAIN at' = Account /\ Resting(a)'
         /\ \A b \in Account : b # a => at'[b] = at[b]
  <1>1. CASE todo = <<>>
    BY <1>1, TurnOverRests DEF Proceed
  <1>2. CASE todo # <<>>
    BY <1>2 DEF Proceed, Goto, Resting, LaneInv, ClaimInv
  <1>3. QED
    BY <1>1, <1>2

\* A step that opens nothing and claims nothing for a line keeps everything.
LEMMA NothingOpened ==
  ASSUME LaneInv, claims \subseteq claims', open' \subseteq open,
         gone' \subseteq gone \cup open, DOMAIN at' = Account,
         \A a \in Account : at'[a] = at[a] \/ Resting(a)'
  PROVE  LaneInv'
  <1>1. ClaimInv'
    <2>1. IsFiniteSet(open')
      BY FS_Subset DEF LaneInv, ClaimInv
    <2>2. QED
      BY <2>1 DEF LaneInv, ClaimInv
  <1>2. ASSUME NEW a \in Account
        PROVE  WorkAt(a)' /\ RoomAt(a)' /\ CapsAt(a)'
    <2>1. OpenOf(a)' \subseteq OpenOf(a)
      BY DEF OpenOf
    <2>2. QED
      BY <2>1, AccountKept
  <1>3. QED
    BY <1>1, <1>2 DEF LaneInv
-----------------------------------------------------------------------------
\* A claim is one nobody made before, so what it is for has not been sold.
LEMMA ClaimKeeps ==
  ASSUME LaneInv, NEW a \in Account, Claim(a)
  PROVE  LaneInv'
  <1> DEFINE k == Head(at[a].todo)
  <1> USE DEF Claim
  <1>1. CASE Proceed(a, Tail(at[a].todo)) /\ UNCHANGED claims
    BY <1>1, ProceedRests, NothingOpened
  <1>2. CASE /\ AccountOf[k.st] = a /\ k \notin claims
             /\ claims' = claims \cup {k}
             /\ Goto(a, "count", at[a].todo)
    <2>1. /\ DOMAIN at' = Account
          /\ at'[a].step = "count" /\ Head(at'[a].todo) = k
          /\ \A b \in Account : b # a => at'[b] = at[b]
      BY <1>2 DEF Goto, LaneInv, ClaimInv
    <2>2. ClaimInv' /\ k \notin open /\ k \notin gone
      BY <1>2, <2>1 DEF LaneInv, ClaimInv
    <2>3. ASSUME NEW b \in Account PROVE OpenOf(b)' = OpenOf(b)
      BY DEF OpenOf
    <2>4. ASSUME NEW b \in Account, b # a
          PROVE  WorkAt(b)' /\ RoomAt(b)' /\ CapsAt(b)'
      BY <1>2, <2>1, <2>3, <2>4, AccountKept
    <2>5. WorkAt(a)' /\ RoomAt(a)'
      BY <1>2, <2>1, <2>2 DEF WorkAt, RoomAt
    <2>6. CapsAt(a)'
      BY <2>3 DEF LaneInv, CapsAt, OnSide, OwnOf, OpenOf
    <2>7. QED
      BY <2>2, <2>4, <2>5, <2>6 DEF LaneInv
  <1>3. QED
    BY <1>1, <1>2

\* What is counted stays true until the line places.
LEMMA CountKeeps ==
  ASSUME LaneInv, NEW a \in Account, Count(a)
  PROVE  LaneInv'
  <1> DEFINE k == Head(at[a].todo)
  <1> USE DEF Count, journalVars
  <1>1. CASE ~Room(a, k)
    BY <1>1, ProceedRests, NothingOpened
  <1>2. CASE Room(a, k)
    <2>1. /\ DOMAIN at' = Account
          /\ at'[a].step = "place" /\ Head(at'[a].todo) = k
          /\ \A b \in Account : b # a => at'[b] = at[b]
      BY <1>2 DEF Goto, LaneInv, ClaimInv
    <2>2. ClaimInv'
      BY <2>1 DEF LaneInv, ClaimInv
    <2>3. ASSUME NEW b \in Account PROVE OpenOf(b)' = OpenOf(b)
      BY DEF OpenOf
    <2>4. ASSUME NEW b \in Account, b # a
          PROVE  WorkAt(b)' /\ RoomAt(b)' /\ CapsAt(b)'
      BY <2>1, <2>3, <2>4, AccountKept
    <2>5. WorkAt(a)'
      BY <2>1 DEF LaneInv, WorkAt
    <2>6. /\ Cardinality(OwnOf(a, k.st)) < MaxOpen
          /\ Cap > 0 => Cardinality(OpenOf(a)) < Cap
          /\ Cap > 0 => Cardinality(OnSide(a, k.side)) < SideCap
      <3>1. /\ Cardinality(OpenOf(a)) \in Nat
            /\ Cardinality(OnSide(a, k.side)) \in Nat
        BY FiniteOpen, FS_CardinalityType DEF LaneInv
      <3>2. MaxOpen \in Nat /\ Cap \in Nat /\ SideCap \in Nat
        BY LaneAssumption DEF LaneAssumption
      <3>3. QED
        BY <1>2, <3>1, <3>2 DEF Room
    <2>7. RoomAt(a)'
      BY <2>1, <2>6 DEF RoomAt, OwnOf, OpenOf, OnSide
    <2>8. CapsAt(a)'
      BY <2>3 DEF LaneInv, CapsAt, OnSide, OwnOf, OpenOf
    <2>9. QED
      BY <2>2, <2>4, <2>5, <2>7, <2>8 DEF LaneInv
  <1>3. QED
    BY <1>1, <1>2

\* A placed trade is the claimed one, and there was room for it.
LEMMA PlaceKeeps ==
  ASSUME LaneInv, NEW a \in Account, Place(a)
  PROVE  /\ LaneInv'
         /\ open' \subseteq open \cup {Head(at[a].todo)}
         /\ Head(at[a].todo) \notin gone
  <1>1. PICK k : k = Head(at[a].todo)
    OBVIOUS
  <1>2. /\ k \in claims /\ k \notin gone /\ AccountOf[k.st] = a
        /\ Cardinality(OwnOf(a, k.st)) < MaxOpen
        /\ Cap > 0 => Cardinality(OpenOf(a)) < Cap
        /\ Cap > 0 => Cardinality(OnSide(a, k.side)) < SideCap
        /\ ClaimInv /\ CapsAt(a)
    BY <1>1 DEF Place, LaneInv, WorkAt, RoomAt
  <1>3. /\ open' \subseteq open \cup {k} /\ open \subseteq open'
        /\ UNCHANGED <<claims, gone>>
    BY <1>1 DEF Place
  <1>4. /\ DOMAIN at' = Account /\ Resting(a)'
        /\ \A b \in Account : b # a => at'[b] = at[b]
    BY ProceedRests DEF Place
  <1>5. ClaimInv'
    <2>1. IsFiniteSet(open \cup {k})
      BY <1>2, FS_AddElement DEF ClaimInv
    <2>2. IsFiniteSet(open')
      BY <1>3, <2>1, FS_Subset
    <2>3. QED
      BY <1>2, <1>3, <1>4, <2>2 DEF ClaimInv
  <1>6. ASSUME NEW b \in Account, b # a
        PROVE  WorkAt(b)' /\ RoomAt(b)' /\ CapsAt(b)'
    <2>1. OpenOf(b)' \subseteq OpenOf(b)
      BY <1>2, <1>3, <1>6 DEF OpenOf
    <2>2. QED
      BY <1>3, <1>4, <1>6, <2>1, AccountKept
  <1>7. WorkAt(a)' /\ RoomAt(a)'
    BY <1>4 DEF Resting, WorkAt, RoomAt
  <1>8. CapsAt(a)'
    <2>1. MaxOpen \in Nat /\ Cap \in Nat /\ SideCap \in Nat
      BY LaneAssumption DEF LaneAssumption
    <2>2. OpenOf(a)' \subseteq OpenOf(a) \cup {k}
      BY <1>3 DEF OpenOf
    <2>3. Cap > 0 => Cardinality(OpenOf(a)') <= Cap
      BY <1>2, <2>1, <2>2, FiniteOpen, OneMore
    <2>4. ASSUME NEW st \in Strategy
          PROVE  Cardinality(OwnOf(a, st)') <= MaxOpen
      <3>1. CASE st = k.st
        <4>1. OwnOf(a, st)' \subseteq OwnOf(a, st) \cup {k}
          BY <2>2 DEF OwnOf
        <4>2. QED
          BY <1>2, <2>1, <3>1, <4>1, FiniteOpen, OneMore
      <3>2. CASE st # k.st
        <4>1. OwnOf(a, st)' \subseteq OwnOf(a, st)
          BY <2>2, <3>2 DEF OwnOf
        <4>2. /\ Cardinality(OwnOf(a, st)') <= Cardinality(OwnOf(a, st))
              /\ Cardinality(OwnOf(a, st)') \in Nat
              /\ Cardinality(OwnOf(a, st)) \in Nat
          BY <1>2, <4>1, FiniteOpen, NoMore
        <4>3. QED
          BY <1>2, <2>1, <4>2 DEF CapsAt
      <3>3. QED
        BY <3>1, <3>2
    <2>5. ASSUME NEW side \in {"CE", "PE"}
          PROVE  Cap > 0 => Cardinality(OnSide(a, side)') <= SideCap
      <3>1. CASE side = k.side
        <4>1. OnSide(a, side)' \subseteq OnSide(a, side) \cup {k}
          BY <2>2 DEF OnSide
        <4>2. QED
          BY <1>2, <2>1, <3>1, <4>1, FiniteOpen, OneMore
      <3>2. CASE side # k.side
        <4>1. OnSide(a, side)' \subseteq OnSide(a, side)
          BY <2>2, <3>2 DEF OnSide
        <4>2. /\ Cardinality(OnSide(a, side)') <= Cardinality(OnSide(a, side))
              /\ Cardinality(OnSide(a, side)') \in Nat
              /\ Cardinality(OnSide(a, side)) \in Nat
          BY <1>2, <4>1, FiniteOpen, NoMore
        <4>3. QED
          BY <1>2, <2>1, <4>2 DEF CapsAt
      <3>3. QED
        BY <3>1, <3>2
    <2>6. QED
      BY <2>3, <2>4, <2>5 DEF CapsAt
  <1>9. QED
    BY <1>1, <1>2, <1>3, <1>5, <1>6, <1>7, <1>8 DEF LaneInv

\* Every line is served: none of them claims anything by it.
LEMMA ServeAllRests ==
  ASSUME NEW coming, NEW joined, ServeAll(coming, joined)
  PROVE  /\ DOMAIN at' = Account
         /\ \A a \in Account : at'[a] = at[a] \/ Resting(a)'
  BY ServeRests DEF ServeAll, Resting

-----------------------------------------------------------------------------
\* A trade is opened only by the line that claimed it.
LEMMA OnlyPlaceOpens ==
  ASSUME Next
  PROVE  open' \subseteq open \/ \E a \in Account : Place(a)
  BY DEF Next, Environment, Hand, Exit, Ticket, Switch, Crash, Join, JoinFails,
         Trades, TurnOff, ReadStrategies, Claim, Count, journalVars

LEMMA LaneInit == Init => LaneInv
  <1> SUFFICES ASSUME Init PROVE LaneInv
    OBVIOUS
  <1>1. ClaimInv
    BY FS_EmptySet DEF Init, ClaimInv
  <1>2. ASSUME NEW a \in Account PROVE WorkAt(a) /\ RoomAt(a) /\ CapsAt(a)
    <2>1. WorkAt(a) /\ RoomAt(a)
      BY DEF Init, WorkAt, RoomAt
    <2>2. /\ OpenOf(a) = {}
          /\ \A st : OwnOf(a, st) = {}
          /\ \A side : OnSide(a, side) = {}
      BY DEF Init, OpenOf, OwnOf, OnSide
    <2>3. CapsAt(a)
      <3>1. Cardinality({}) = 0
        BY FS_EmptySet
      <3>2. MaxOpen \in Nat /\ Cap \in Nat /\ SideCap \in Nat
        BY LaneAssumption DEF LaneAssumption
      <3>3. QED
        BY <2>2, <3>1, <3>2 DEF CapsAt
    <2>4. QED
      BY <2>1, <2>3
  <1>3. QED
    BY <1>1, <1>2 DEF LaneInv

LEMMA LaneStep == LaneInv /\ [Next]_vars => LaneInv'
  <1> SUFFICES ASSUME LaneInv, [Next]_vars PROVE LaneInv'
    OBVIOUS
  <1>0. DOMAIN at = Account
    BY DEF LaneInv, ClaimInv
  <1>1. CASE UNCHANGED vars
    BY <1>0, <1>1, NothingOpened DEF vars, runnerVars, journalVars
  <1>2. ASSUME NEW s \in Signal, Hand(s) PROVE LaneInv'
    BY <1>0, <1>2, NothingOpened DEF Hand, journalVars
  <1>3. ASSUME NEW k \in open, Exit(k) PROVE LaneInv'
    BY <1>0, <1>3, NothingOpened DEF Exit
  <1>4. ASSUME NEW a \in TicketUsed, Ticket(a) PROVE LaneInv'
    BY <1>0, <1>4, NothingOpened DEF Ticket, runnerVars
  <1>5. CASE Switch
    BY <1>0, <1>5, NothingOpened DEF Switch, runnerVars, journalVars
  <1>6. CASE Crash
    BY <1>6, NothingOpened DEF Crash, journalVars, Resting
  <1>7. ASSUME NEW t \in arriving, Join(t) \/ JoinFails(t) PROVE LaneInv'
    BY <1>7, ServeAllRests, NothingOpened DEF Join, JoinFails, journalVars
  <1>8. ASSUME NEW a \in Account, TurnOff(a) PROVE LaneInv'
    BY <1>8, TurnOverRests, NothingOpened DEF TurnOff, journalVars
  <1>9. ASSUME NEW a \in Account, ReadStrategies(a) PROVE LaneInv'
    BY <1>9, ProceedRests, NothingOpened DEF ReadStrategies, journalVars
  <1>10. QED
    BY <1>1, <1>2, <1>3, <1>4, <1>5, <1>6, <1>7, <1>8, <1>9,
       ClaimKeeps, CountKeeps, PlaceKeeps DEF Next, Environment, Trades

LEMMA LanesKept == Spec => []LaneInv
  BY LaneInit, LaneStep, PTL DEF Spec

\* Whatever arrives at once, from as many graders and exits as there are, the
\* trades a line opens never pass its account's three caps (takeSignal).
THEOREM CapsAreHeld == Spec => []CapsHeld
  <1>1. LaneInv => CapsHeld
    BY DEF LaneInv, CapsAt, CapsHeld
  <1>2. QED
    BY <1>1, LanesKept, PTL

\* A signal, or a re-entry, is sold at most once by a strategy, whoever hands
\* it over again and wherever the process dies (claimSignal before the order).
THEOREM NeverSoldTwice == Spec => SoldOnce
  <1>1. LaneInv /\ [Next]_vars => [\A k \in open' \ open : k \notin gone]_vars
    BY OnlyPlaceOpens, PlaceKeeps DEF vars, runnerVars, journalVars
  <1>2. QED
    BY <1>1, LanesKept, PTL DEF Spec, SoldOnce
-----------------------------------------------------------------------------
(* The turns and what they are to claim. *)

KeySet ==
    [st : Strategy, sig : Signal, path : Seq(Nat), side : {"CE", "PE"}]

\* A turn is about a signal, or about a strategy's trade that has closed.
ItemOK(item) ==
    \/ \E s \in Signal : item = SignalItem(s)
    \/ \E k \in gone, by \in {"stop", "target"} : item = ExitItem(k, by)

TurnOK(t) ==
    /\ t = [item |-> t.item, seq |-> t.seq]
    /\ ItemOK(t.item) /\ t.seq \in Nat /\ t.seq < seq

\* A turn that is on its way, waits in a line or is being traded.
InPlay(t) ==
    \/ t \in arriving
    \/ \E a \in Account : t \in line[a]
    \/ \E a \in Account : at[a] # Idle /\ t = at[a].turn

BaseInv ==
    /\ armed \in BOOLEAN /\ on \in [Strategy -> BOOLEAN]
    /\ seq \in 0 .. MaxTurns /\ faults \in 0 .. MaxFaults
    /\ byHand \subseteq TicketUsed

\* Every turn was counted as it arrived, so no two of them have one place.
TurnsInv ==
    /\ DOMAIN line = Account /\ DOMAIN at = Account
    /\ IsFiniteSet(arriving) /\ \A a \in Account : IsFiniteSet(line[a])
    /\ \A t : InPlay(t) => TurnOK(t)
    /\ \A t, u : InPlay(t) /\ InPlay(u) /\ t.seq = u.seq => t = u

\* What one item may claim, of all the strategies it is for.
KeysOf(item) ==
    {Key(st, item, e) : st \in {q \in Strategy : Mine(q, item)},
                        e \in 1 .. EntriesOf(item)}

\* What is left of a turn is to be claimed for what the turn is about.
TodoAt(a) ==
    at[a] # Idle =>
      /\ at[a].step \in {"off", "list", "claim", "count", "place"}
      /\ at[a].step \in {"claim", "count", "place"} =>
           at[a].todo \in Seq(KeysOf(at[a].turn.item)) /\ at[a].todo # <<>>

WorkInv ==
    /\ BaseInv /\ TurnsInv
    /\ \A a \in Account : TodoAt(a)
    /\ claims \subseteq KeySet /\ open \subseteq claims /\ gone \subseteq claims

-----------------------------------------------------------------------------
\* What an item may claim is a key, of the item's own signal.
LEMMA KeysAreKeys ==
  ASSUME gone \subseteq KeySet, NEW item, ItemOK(item)
  PROVE  /\ KeysOf(item) \subseteq KeySet
         /\ EntriesOf(item) \in Nat /\ Tf(item) \in Nat
  <1>0. /\ Entries \in Nat /\ TfSec \in [Signal -> Nat]
        /\ SideOf \in [Signal -> {"CE", "PE"}]
    BY LaneAssumption DEF LaneAssumption
  <1>1. ASSUME NEW s \in Signal, item = SignalItem(s)
        PROVE  /\ KeysOf(item) \subseteq KeySet
               /\ EntriesOf(item) \in Nat /\ Tf(item) \in Nat
    <2>1. item.kind = "signal" /\ item.sig = s
      BY <1>1 DEF SignalItem
    <2>2. EntriesOf(item) \in Nat /\ Tf(item) \in Nat
      BY <1>0, <2>1 DEF EntriesOf, Tf
    <2>3. ASSUME NEW st \in Strategy, NEW e PROVE Key(st, item, e) \in KeySet
      BY <1>0, <2>1, EmptySeq DEF Key, KeySet
    <2>4. QED
      BY <2>2, <2>3 DEF KeysOf
  <1>2. ASSUME NEW k \in gone, NEW by \in {"stop", "target"}, item = ExitItem(k, by)
        PROVE  /\ KeysOf(item) \subseteq KeySet
               /\ EntriesOf(item) \in Nat /\ Tf(item) \in Nat
    <2>1. /\ k.st \in Strategy /\ k.sig \in Signal /\ k.path \in Seq(Nat)
          /\ k.side \in {"CE", "PE"}
      BY DEF KeySet
    <2>2. item.kind = "exit" /\ item.of = k /\ item.by = by
      BY <1>2 DEF ExitItem
    <2>3. EntriesOf(item) \in Nat /\ Tf(item) \in Nat
      BY <1>0, <2>1, <2>2 DEF EntriesOf, Tf
    <2>4. ASSUME NEW e \in 1 .. EntriesOf(item) PROVE Append(k.path, e) \in Seq(Nat)
      BY <2>1, <2>3, AppendProperties
    <2>5. ASSUME NEW st \in Strategy, Mine(st, item), NEW e \in 1 .. EntriesOf(item)
          PROVE  Key(st, item, e) \in KeySet
      BY <2>1, <2>2, <2>4 DEF Key, KeySet, OtherSide
    <2>6. QED
      BY <2>3, <2>5 DEF KeysOf
  <1>3. QED
    BY <1>1, <1>2 DEF ItemOK

\* A set of naturals has a least one.
LEMMA LeastOne ==
  ASSUME NEW B \in SUBSET Nat, B # {}
  PROVE  \E m \in B : \A k \in B : m <= k
  <1>1. PICK m \in B : \A k \in B : <<k, m>> \notin OpToRel(<, Nat)
    BY NatLessThanWellFounded, WFMin
  <1>2. \A k \in B : ~(k < m)
    BY <1>1 DEF OpToRel
  <1>3. QED
    BY <1>2

\* What one strategy claims in a turn, in order.
LEMMA ClaimsAreKeys ==
  ASSUME NEW st \in Strategy, NEW a, NEW item, EntriesOf(item) \in Nat
  PROVE  ClaimsOf(st, a, item) \in Seq(KeysOf(item))
  <1>1. CASE on[st] /\ AccountOf[st] = a /\ Mine(st, item)
    <2> DEFINE n == EntriesOf(item)
               c == [e \in 1 .. n |-> Key(st, item, e)]
    <2>1. \A e \in 1 .. n : Key(st, item, e) \in KeysOf(item)
      BY <1>1 DEF KeysOf
    <2>2. n \in Nat
      OBVIOUS
    <2> HIDE DEF n
    <2>3. c \in [1 .. n -> KeysOf(item)]
      BY <2>1
    <2> HIDE DEF c
    <2>4. c \in Seq(KeysOf(item))
      BY <2>2, <2>3, SeqDef
    <2>5. QED
      BY <1>1, <2>4 DEF ClaimsOf, c, n
  <1>2. CASE ~(on[st] /\ AccountOf[st] = a /\ Mine(st, item))
    BY <1>2, EmptySeq DEF ClaimsOf
  <1>3. QED
    BY <1>1, <1>2

\* One step of the recursion of Work().
WorkStep(f, i, a, item) ==
    IF i = 0 THEN <<>> ELSE f[i - 1] \o ClaimsOf(List[i], a, item)

SolvesWork(f, n, a, item) == f = [i \in 0 .. n |-> WorkStep(f, i, a, item)]

\* The recursion has a solution, over any beginning of the list.
LEMMA WorkSolved ==
  ASSUME NEW n \in Nat, NEW a, NEW item
  PROVE  \E f : SolvesWork(f, n, a, item)
  <1> DEFINE Bad == {m \in Nat : ~\E f : SolvesWork(f, m, a, item)}
  <1> SUFFICES ASSUME Bad # {} PROVE FALSE
    OBVIOUS
  <1>1. PICK m \in Bad : \A k \in Bad : m <= k
    <2>1. Bad \in SUBSET Nat /\ Bad # {}
      OBVIOUS
    <2> HIDE DEF Bad
    <2>2. QED
      BY <2>1, LeastOne
  <1>2. CASE m = 0
    <2> DEFINE f == [i \in 0 .. 0 |-> <<>>]
    <2>1. \A i \in 0 .. 0 : i = 0
      OBVIOUS
    <2>2. SolvesWork(f, 0, a, item)
      BY <2>1 DEF SolvesWork, WorkStep
    <2>3. QED
      BY <1>2, <2>2
  <1>3. CASE m # 0
    <2>1. m - 1 \in Nat /\ m - 1 \notin Bad
      BY <1>1, <1>3
    <2>2. PICK f : SolvesWork(f, m - 1, a, item)
      BY <2>1
    <2> DEFINE g == [i \in 0 .. m |-> WorkStep(f, i, a, item)]
    <2>3. \A i \in 0 .. m - 1 : i \in 0 .. m /\ f[i] = WorkStep(f, i, a, item)
      <3>1. \A i \in 0 .. m - 1 : i \in 0 .. m
        BY <1>1
      <3>2. \A i \in 0 .. m - 1 : f[i] = WorkStep(f, i, a, item)
        BY <2>2, Zenon DEF SolvesWork
      <3>3. QED
        BY <3>1, <3>2
    <2>4. \A i \in 0 .. m - 1 : g[i] = f[i]
      BY <2>3
    <2>5. \A i \in 0 .. m : i # 0 => i - 1 \in 0 .. m - 1
      BY <1>1
    <2>6. \A i \in 0 .. m : WorkStep(f, i, a, item) = WorkStep(g, i, a, item)
      <3> HIDE DEF g
      <3>1. QED
        BY <2>4, <2>5 DEF WorkStep
    <2>7. SolvesWork(g, m, a, item)
      BY <2>6 DEF SolvesWork
    <2> HIDE DEF g
    <2>8. QED
      BY <2>7, <1>1
  <1>4. QED
    BY <1>2, <1>3

\* What a turn goes through is what its item may claim, of strategies of the
\* list.
LEMMA WorkIsKeys ==
  ASSUME NEW a, NEW item, EntriesOf(item) \in Nat
  PROVE  Work(a, item) \in Seq(KeysOf(item))
  <1> DEFINE upTo[i \in 0 .. Len(List)] ==
               IF i = 0 THEN <<>> ELSE upTo[i - 1] \o ClaimsOf(List[i], a, item)
             n == Len(List)
             K == KeysOf(item)
  <1>1. Work(a, item) = upTo[n]
    BY DEF Work
  <1>2. List \in Seq(Strategy) /\ n \in Nat
    BY LaneAssumption DEF LaneAssumption
  <1>3. SolvesWork(upTo, n, a, item)
    <2>1. \E f : SolvesWork(f, n, a, item)
      BY <1>2, WorkSolved
    <2>2. QED
      BY <2>1, Zenon DEF SolvesWork, WorkStep
  <1> HIDE DEF upTo
  <1> DEFINE Bad == {m \in Nat : m <= n /\ upTo[m] \notin Seq(K)}
  <1>4. SUFFICES ASSUME Bad # {} PROVE FALSE
    BY <1>1, <1>2
  <1>5. PICK m \in Bad : \A k \in Bad : m <= k
    <2>1. Bad \in SUBSET Nat /\ Bad # {}
      BY <1>4
    <2> HIDE DEF Bad
    <2>2. QED
      BY <2>1, LeastOne
  <1>6. upTo[m] = WorkStep(upTo, m, a, item)
    BY <1>2, <1>3, <1>5 DEF SolvesWork
  <1>7. CASE m = 0
    BY <1>5, <1>6, <1>7, EmptySeq DEF WorkStep
  <1>8. CASE m # 0
    <2>1. m - 1 \in Nat /\ m - 1 \notin Bad /\ m - 1 <= n
      BY <1>2, <1>5, <1>8
    <2>2. upTo[m - 1] \in Seq(K)
      BY <2>1
    <2>3. List[m] \in Strategy
      BY <1>2, <1>5, <1>8, ElementOfSeq
    <2>4. ClaimsOf(List[m], a, item) \in Seq(K)
      BY <2>3, ClaimsAreKeys
    <2>5. upTo[m] \in Seq(K)
      <3> HIDE DEF K
      <3>1. QED
        BY <1>6, <1>8, <2>2, <2>4, ConcatProperties DEF WorkStep
    <2>6. QED
      BY <1>5, <2>5
  <1>9. QED
    BY <1>7, <1>8
-----------------------------------------------------------------------------
\* Turns among which there is an order: each of a timeframe, at a place of its
\* own.
Placed(waiting) ==
    /\ \A t \in waiting : Tf(t.item) \in Nat /\ t.seq \in Nat
    /\ \A t, u \in waiting : t.seq = u.seq => t = u

Wins(t, waiting) == t \in waiting /\ \A u \in waiting \ {t} : GoesBefore(t, u)

\* Of a few turns that wait, one goes before all the others.
LEMMA OneWins ==
  ASSUME NEW waiting, IsFiniteSet(waiting), waiting # {}, Placed(waiting)
  PROVE  \E t : Wins(t, waiting)
  <1> DEFINE Bad == {n \in Nat : \E w \in SUBSET waiting :
                        /\ Cardinality(w) = n /\ w # {}
                        /\ ~\E t : Wins(t, w)}
  <1>1. SUFFICES ASSUME Bad # {} PROVE FALSE
    BY FS_CardinalityType
  <1>2. PICK n \in Bad : \A k \in Bad : n <= k
    <2>1. Bad \in SUBSET Nat /\ Bad # {}
      BY <1>1
    <2> HIDE DEF Bad
    <2>2. QED
      BY <2>1, LeastOne
  <1>3. PICK w \in SUBSET waiting :
          Cardinality(w) = n /\ w # {} /\ ~\E t : Wins(t, w)
    BY <1>2
  <1>4. PICK t : t \in w
    BY <1>3
  <1> DEFINE r == w \ {t}
  <1>5. Cardinality(r) = n - 1 /\ n - 1 \in Nat /\ r \in SUBSET waiting
    <2>1. IsFiniteSet(w) /\ IsFiniteSet(r)
      BY FS_Subset
    <2>2. Cardinality(r) = Cardinality(w) - 1 /\ Cardinality(r) \in Nat
      BY <1>4, <2>1, FS_RemoveElement, FS_CardinalityType
    <2>3. QED
      BY <1>3, <2>2
  <1>6. r # {}
    <2>1. r = {} => Wins(t, w)
      BY <1>4 DEF Wins
    <2>2. QED
      BY <1>3, <2>1
  <1>7. PICK v : Wins(v, r)
    <2>1. n - 1 \notin Bad
      BY <1>2, <1>5
    <2>2. QED
      BY <1>5, <1>6, <2>1
  <1>8. /\ v \in w /\ v # t
        /\ \A u \in w \ {t, v} : GoesBefore(v, u)
    BY <1>7 DEF Wins
  <1>9. CASE GoesBefore(v, t)
    <2>1. Wins(v, w)
      BY <1>8, <1>9 DEF Wins
    <2>2. QED
      BY <1>3, <2>1
  <1>10. CASE ~GoesBefore(v, t)
    <2>1. \A u \in w : Tf(u.item) \in Nat /\ u.seq \in Nat
      BY <1>3 DEF Placed
    <2>2. t.seq # v.seq
      BY <1>4, <1>8 DEF Placed
    <2>3. GoesBefore(t, v)
      BY <1>4, <1>8, <1>10, <2>1, <2>2 DEF GoesBefore
    <2>4. ASSUME NEW u \in w \ {t, v} PROVE GoesBefore(t, u)
      <3>1. GoesBefore(v, u)
        BY <1>8
      <3>2. QED
        BY <1>4, <1>8, <2>1, <2>3, <3>1 DEF GoesBefore
    <2>5. Wins(t, w)
      BY <1>4, <2>3, <2>4 DEF Wins
    <2>6. QED
      BY <1>3, <2>5
  <1>11. QED
    BY <1>9, <1>10

\* What serve() takes out of a line, and when it does.
LEMMA ServeTakes ==
  ASSUME NEW waiting, IsFiniteSet(waiting), Placed(waiting),
         NEW busy, NEW coming
  PROVE  \/ Serve(waiting, busy, coming) = [line |-> waiting, at |-> busy]
         \/ \E t \in waiting :
              /\ Serve(waiting, busy, coming) =
                   [line |-> waiting \ {t}, at |-> Begun(t)]
              /\ coming = {}
              /\ \A u \in waiting : Tf(u.item) <= Tf(t.item)
  <1>1. CASE busy = Idle /\ coming = {} /\ waiting # {}
    <2>1. \E t \in waiting : \A u \in waiting \ {t} : GoesBefore(t, u)
      BY <1>1, OneWins DEF Wins
    <2>2. PICK t \in waiting : /\ t = Next1(waiting)
                               /\ \A u \in waiting \ {t} : GoesBefore(t, u)
      BY <2>1 DEF Next1
    <2>3. \A u \in waiting : Tf(u.item) <= Tf(t.item)
      BY <2>2 DEF GoesBefore, Placed
    <2>4. QED
      BY <1>1, <2>2, <2>3 DEF Serve
  <1>2. CASE ~(busy = Idle /\ coming = {} /\ waiting # {})
    BY <1>2 DEF Serve
  <1>3. QED
    BY <1>1, <1>2

\* The turns in play are in order.
LEMMA PlayIsPlaced ==
  ASSUME WorkInv, NEW waiting, \A t \in waiting : InPlay(t)
  PROVE  Placed(waiting)
  <1>1. ASSUME NEW t \in waiting PROVE Tf(t.item) \in Nat /\ t.seq \in Nat
    <2>1. TurnOK(t) /\ gone \subseteq KeySet
      BY DEF WorkInv, TurnsInv
    <2>2. QED
      BY <2>1, KeysAreKeys DEF TurnOK
  <1>2. ASSUME NEW t \in waiting, NEW u \in waiting, t.seq = u.seq PROVE t = u
    BY <1>2 DEF WorkInv, TurnsInv
  <1>3. QED
    BY <1>1, <1>2 DEF Placed

-----------------------------------------------------------------------------
\* Turns stay turns: nothing that closed opens again, and the count goes on.
LEMMA TurnStays ==
  ASSUME NEW t, TurnOK(t), gone \subseteq gone', seq \in Nat, seq' \in Nat, seq <= seq'
  PROVE  TurnOK(t)'
  BY DEF TurnOK, ItemOK

\* A step that moves the turns there are along, and hands over none.
LEMMA TurnsMove ==
  ASSUME TurnsInv, gone \subseteq gone', seq \in Nat, seq' = seq,
         DOMAIN line' = Account, DOMAIN at' = Account,
         IsFiniteSet(arriving'), \A a \in Account : IsFiniteSet(line'[a]),
         \A t : InPlay(t)' => InPlay(t)
  PROVE  TurnsInv'
  <1>1. ASSUME NEW t, InPlay(t)' PROVE TurnOK(t)'
    <2>1. TurnOK(t)
      BY <1>1 DEF TurnsInv
    <2>2. QED
      BY <2>1, TurnStays
  <1>2. ASSUME NEW t, NEW u, InPlay(t)', InPlay(u)', t.seq = u.seq PROVE t = u
    BY <1>2 DEF TurnsInv
  <1>3. QED
    BY <1>1, <1>2 DEF TurnsInv

\* inTurn(): the turn handed over has the next place.
LEMMA ArriveKeeps ==
  ASSUME TurnsInv, seq \in Nat, NEW item, ItemOK(item)', gone \subseteq gone',
         Arrive(item), UNCHANGED <<line, at>>
  PROVE  TurnsInv'
  <1>0. PICK t0 : t0 = [item |-> item, seq |-> seq]
    OBVIOUS
  <1>1. /\ arriving' \subseteq arriving \cup {t0} /\ seq' = seq + 1
        /\ IsFiniteSet(arriving) /\ IsFiniteSet(arriving \cup {t0})
    BY <1>0, FS_AddElement DEF Arrive, TurnsInv
  <1>2. IsFiniteSet(arriving')
    BY <1>1, FS_Subset
  <1>3. \A t : InPlay(t)' => InPlay(t) \/ t = t0
    BY <1>1 DEF InPlay
  <1>4. TurnOK(t0)'
    <2>1. t0.item = item /\ t0.seq = seq
      BY <1>0
    <2>2. QED
      BY <1>0, <1>1, <2>1 DEF TurnOK
  <1>5. ASSUME NEW t, InPlay(t)' PROVE TurnOK(t)'
    <2>1. InPlay(t) => TurnOK(t)
      BY DEF TurnsInv
    <2>2. InPlay(t) => TurnOK(t)'
      BY <1>1, <2>1, TurnStays
    <2>3. QED
      BY <1>3, <1>4, <1>5, <2>2
  <1>6. ASSUME NEW t, NEW u, InPlay(t)', InPlay(u)', t.seq = u.seq PROVE t = u
    <2>1. \A v : InPlay(v) => v.seq < seq
      BY DEF TurnsInv, TurnOK
    <2>2. t0.seq = seq /\ ~(seq < seq)
      BY <1>0
    <2>3. CASE InPlay(t) /\ InPlay(u)
      BY <1>6, <2>3 DEF TurnsInv
    <2>4. CASE t = t0 \/ u = t0
      BY <1>3, <1>6, <2>1, <2>2, <2>4
    <2>5. QED
      BY <1>3, <1>6, <2>3, <2>4
  <1>7. QED
    BY <1>2, <1>5, <1>6 DEF TurnsInv
-----------------------------------------------------------------------------
\* What a step may make of a line: it is left alone, goes idle, begins a turn
\* that waited, or goes on with the turn it has.
Goes(a) ==
    \/ at'[a] = at[a]
    \/ at'[a] = Idle
    \/ \E t \in line[a] \cup arriving : at'[a] = Begun(t)
    \/ /\ at[a] # Idle
       /\ at'[a].turn = at[a].turn
       /\ at'[a].step \in {"claim", "count", "place"}
       /\ at'[a].todo \in Seq(KeysOf(at[a].turn.item)) /\ at'[a].todo # <<>>

\* LongestFirst, of one line.
LongestOf(a) ==
    at'[a] # Idle /\ (at[a] = Idle \/ at'[a].turn # at[a].turn) =>
      \A t \in line'[a] \cup arriving' : Tf(t.item) <= Tf(at'[a].turn.item)

LinesGo ==
    /\ DOMAIN line' = Account /\ DOMAIN at' = Account
    /\ \A a \in Account :
         line'[a] \subseteq line[a] \cup arriving /\ Goes(a) /\ LongestOf(a)

\* A line that is served goes on as it should.
LEMMA ServeGoes ==
  ASSUME WorkInv, NEW a \in Account, NEW waiting, NEW busy, NEW coming,
         waiting \subseteq line[a] \cup arriving, busy \in {at[a], Idle},
         coming = arriving',
         line'[a] = Serve(waiting, busy, coming).line,
         at'[a] = Serve(waiting, busy, coming).at
  PROVE  line'[a] \subseteq line[a] \cup arriving /\ Goes(a) /\ LongestOf(a)
  <1>1. IsFiniteSet(waiting)
    <2>1. IsFiniteSet(line[a]) /\ IsFiniteSet(arriving)
      BY DEF WorkInv, TurnsInv
    <2>2. IsFiniteSet(line[a] \cup arriving)
      BY <2>1, FS_Union
    <2>3. QED
      BY <2>2, FS_Subset
  <1>2. Placed(waiting)
    <2>1. \A t \in waiting : InPlay(t)
      BY DEF InPlay
    <2>2. QED
      BY <2>1, PlayIsPlaced
  <1>3. CASE Serve(waiting, busy, coming) = [line |-> waiting, at |-> busy]
    <2>1. line'[a] = waiting /\ at'[a] = busy
      BY <1>3
    <2>2. QED
      BY <2>1 DEF Goes, LongestOf
  <1>4. ASSUME NEW t \in waiting,
               Serve(waiting, busy, coming) =
                 [line |-> waiting \ {t}, at |-> Begun(t)],
               coming = {}, \A u \in waiting : Tf(u.item) <= Tf(t.item)
        PROVE  line'[a] \subseteq line[a] \cup arriving /\ Goes(a) /\ LongestOf(a)
    <2>1. line'[a] = waiting \ {t} /\ at'[a] = Begun(t) /\ arriving' = {}
      BY <1>4
    <2>2. Begun(t).turn = t
      BY DEF Begun
    <2>3. LongestOf(a)
      BY <1>4, <2>1, <2>2 DEF LongestOf
    <2>4. Goes(a)
      BY <2>1 DEF Goes
    <2>5. QED
      BY <2>1, <2>3, <2>4
  <1>5. QED
    BY <1>1, <1>2, <1>3, <1>4, ServeTakes

\* A line that goes on with its turn.
LEMMA GotoGoes ==
  ASSUME WorkInv, NEW a \in Account, at[a] # Idle, NEW step, NEW todo,
         step \in {"claim", "count", "place"},
         todo \in Seq(KeysOf(at[a].turn.item)), todo # <<>>, Goto(a, step, todo)
  PROVE  LinesGo
  <1>1. DOMAIN line = Account /\ DOMAIN at = Account
    BY DEF WorkInv, TurnsInv
  <1>2. /\ line' = line /\ DOMAIN at' = Account
        /\ at'[a] = [turn |-> at[a].turn, step |-> step, todo |-> todo]
        /\ \A b \in Account : b # a => at'[b] = at[b]
    BY <1>1 DEF Goto
  <1>3. Goes(a) /\ LongestOf(a)
    BY <1>2 DEF Goes, LongestOf
  <1>4. \A b \in Account : b # a => Goes(b) /\ LongestOf(b)
    BY <1>2 DEF Goes, LongestOf
  <1>5. QED
    BY <1>1, <1>2, <1>3, <1>4 DEF LinesGo

LEMMA TurnOverGoes ==
  ASSUME WorkInv, NEW a \in Account, TurnOver(a), UNCHANGED arriving
  PROVE  LinesGo
  <1> DEFINE s == Serve(line[a], Idle, arriving)
  <1>1. DOMAIN line = Account /\ DOMAIN at = Account
    BY DEF WorkInv, TurnsInv
  <1>2. /\ DOMAIN line' = Account /\ DOMAIN at' = Account
        /\ line'[a] = s.line /\ at'[a] = s.at
        /\ \A b \in Account : b # a => at'[b] = at[b] /\ line'[b] = line[b]
    BY <1>1 DEF TurnOver
  <1>3. line'[a] \subseteq line[a] \cup arriving /\ Goes(a) /\ LongestOf(a)
    BY <1>2, ServeGoes
  <1>4. \A b \in Account : b # a => Goes(b) /\ LongestOf(b)
    BY <1>2 DEF Goes, LongestOf
  <1> HIDE DEF s
  <1>5. QED
    BY <1>2, <1>3, <1>4 DEF LinesGo

LEMMA ProceedGoes ==
  ASSUME WorkInv, NEW a \in Account, at[a] # Idle, NEW todo,
         todo \in Seq(KeysOf(at[a].turn.item)), Proceed(a, todo),
         UNCHANGED arriving
  PROVE  LinesGo
  <1>1. CASE todo = <<>>
    BY <1>1, TurnOverGoes DEF Proceed
  <1>2. CASE todo # <<>>
    BY <1>2, GotoGoes DEF Proceed
  <1>3. QED
    BY <1>1, <1>2

LEMMA ServeAllGoes ==
  ASSUME WorkInv, NEW coming, coming = arriving', NEW joined,
         \A a \in Account : joined[a] \subseteq line[a] \cup arriving,
         ServeAll(coming, joined)
  PROVE  LinesGo
  <1>1. /\ DOMAIN line' = Account /\ DOMAIN at' = Account
        /\ \A a \in Account : /\ line'[a] = Serve(joined[a], at[a], coming).line
                              /\ at'[a] = Serve(joined[a], at[a], coming).at
    BY DEF ServeAll
  <1>2. ASSUME NEW a \in Account
        PROVE  line'[a] \subseteq line[a] \cup arriving /\ Goes(a) /\ LongestOf(a)
    BY <1>1, ServeGoes
  <1>3. QED
    BY <1>1, <1>2 DEF LinesGo

\* A line hands over nothing: every turn in play was there before.
LEMMA NoneHanded ==
  ASSUME LinesGo, arriving' \subseteq arriving, NEW t, InPlay(t)'
  PROVE  InPlay(t)
  <1>1. CASE t \in arriving'
    BY <1>1 DEF InPlay
  <1>2. ASSUME NEW a \in Account, t \in line'[a] PROVE InPlay(t)
    BY <1>2 DEF LinesGo, InPlay
  <1>3. ASSUME NEW a \in Account, at'[a] # Idle, t = at'[a].turn PROVE InPlay(t)
    <2>1. Goes(a)
      BY DEF LinesGo
    <2>2. \A u : Begun(u).turn = u
      BY DEF Begun
    <2>3. QED
      BY <1>3, <2>1, <2>2 DEF Goes, InPlay
  <1>4. QED
    BY <1>1, <1>2, <1>3 DEF InPlay

\* Lines that go on keep every turn and what it is to claim as they should be.
LEMMA LinesKeep ==
  ASSUME WorkInv, LinesGo, arriving' \subseteq arriving, seq' = seq,
         gone \subseteq gone', BaseInv',
         claims' \subseteq KeySet, open' \subseteq claims', gone' \subseteq claims'
  PROVE  WorkInv'
  <1>1. \A t : InPlay(t)' => InPlay(t)
    BY NoneHanded
  <1>2. IsFiniteSet(arriving') /\ \A a \in Account : IsFiniteSet(line'[a])
    <2>1. IsFiniteSet(arriving) /\ \A a \in Account : IsFiniteSet(line[a])
      BY DEF WorkInv, TurnsInv
    <2>2. \A a \in Account : IsFiniteSet(line[a] \cup arriving)
      BY <2>1, FS_Union
    <2>3. QED
      BY <2>1, <2>2, FS_Subset DEF LinesGo
  <1>3. TurnsInv'
    BY <1>1, <1>2, TurnsMove DEF WorkInv, BaseInv, LinesGo
  <1>4. ASSUME NEW a \in Account PROVE TodoAt(a)'
    <2>1. Goes(a) /\ TodoAt(a)
      BY DEF WorkInv, LinesGo
    <2>2. \A u : Begun(u).step \in {"list", "off"}
      BY DEF Begun
    <2>3. QED
      BY <2>1, <2>2 DEF Goes, TodoAt
  <1>5. QED
    BY <1>3, <1>4 DEF WorkInv
-----------------------------------------------------------------------------
LEMMA WorkInit == Init => WorkInv
  <1> SUFFICES ASSUME Init PROVE WorkInv
    OBVIOUS
  <1>1. BaseInv
    BY LaneAssumption DEF LaneAssumption, Init, BaseInv
  <1>2. \A t : ~InPlay(t)
    BY DEF Init, InPlay
  <1>3. TurnsInv
    BY <1>2, FS_EmptySet DEF Init, TurnsInv
  <1>4. QED
    BY <1>1, <1>3 DEF Init, WorkInv, TodoAt

\* What is left of a turn that is being claimed.
LEMMA TodoLeft ==
  ASSUME WorkInv, NEW a \in Account, at[a] # Idle,
         at[a].step \in {"claim", "count", "place"}
  PROVE  /\ at[a].todo \in Seq(KeysOf(at[a].turn.item)) /\ at[a].todo # <<>>
         /\ Tail(at[a].todo) \in Seq(KeysOf(at[a].turn.item))
         /\ Head(at[a].todo) \in KeysOf(at[a].turn.item)
         /\ Head(at[a].todo) \in KeySet
  <1>1. at[a].todo \in Seq(KeysOf(at[a].turn.item)) /\ at[a].todo # <<>>
    BY DEF WorkInv, TodoAt
  <1>2. /\ Tail(at[a].todo) \in Seq(KeysOf(at[a].turn.item))
        /\ Head(at[a].todo) \in KeysOf(at[a].turn.item)
    BY <1>1, HeadTailProperties
  <1>3. TurnOK(at[a].turn) /\ gone \subseteq KeySet
    BY DEF WorkInv, TurnsInv, InPlay
  <1>4. QED
    BY <1>1, <1>2, <1>3, KeysAreKeys DEF TurnOK

\* The lines go on as they should in every step but those that hand over.
LEMMA TradesGo ==
  ASSUME WorkInv, NEW a \in Account, Trades(a)
  PROVE  LinesGo /\ UNCHANGED <<armed, on, arriving, seq, gone, byHand, faults>>
  <1>1. ASSUME TurnOff(a) PROVE LinesGo
    BY <1>1, TurnOverGoes DEF TurnOff
  <1>2. ASSUME ReadStrategies(a) PROVE LinesGo
    <2>1. TurnOK(at[a].turn) /\ gone \subseteq KeySet
      BY <1>2 DEF ReadStrategies, WorkInv, TurnsInv, InPlay
    <2>2. Work(a, at[a].turn.item) \in Seq(KeysOf(at[a].turn.item))
      BY <2>1, KeysAreKeys, WorkIsKeys DEF TurnOK
    <2>3. QED
      BY <1>2, <2>2, ProceedGoes DEF ReadStrategies
  <1>3. ASSUME Claim(a) PROVE LinesGo
    BY <1>3, TodoLeft, ProceedGoes, GotoGoes DEF Claim
  <1>4. ASSUME Count(a) PROVE LinesGo
    BY <1>4, TodoLeft, ProceedGoes, GotoGoes DEF Count
  <1>5. ASSUME Place(a) PROVE LinesGo
    BY <1>5, TodoLeft, ProceedGoes DEF Place
  <1>6. UNCHANGED <<armed, on, arriving, seq, gone, byHand, faults>>
    BY DEF Trades, TurnOff, ReadStrategies, Claim, Count, Place, journalVars
  <1>7. QED
    BY <1>1, <1>2, <1>3, <1>4, <1>5, <1>6 DEF Trades

LEMMA JoinsGo ==
  ASSUME WorkInv, NEW t \in arriving, Join(t) \/ JoinFails(t)
  PROVE  /\ LinesGo /\ arriving' = arriving \ {t}
         /\ UNCHANGED <<armed, on, seq, journalVars>>
         /\ faults' = faults \/ (faults < MaxFaults /\ faults' = faults + 1)
  <1>1. CASE Join(t)
    BY <1>1, ServeAllGoes DEF Join
  <1>2. CASE JoinFails(t)
    BY <1>2, ServeAllGoes DEF JoinFails
  <1>3. QED
    BY <1>1, <1>2

\* Steps that leave every line alone.
LEMMA StillLines ==
  ASSUME WorkInv, UNCHANGED <<line, at>>
  PROVE  LinesGo
  BY DEF LinesGo, Goes, LongestOf, WorkInv, TurnsInv

\* A turn is handed over for what is there to be sold or followed.
LEMMA HandedKeeps ==
  ASSUME WorkInv, NEW item, ItemOK(item)', Arrive(item), seq < MaxTurns,
         gone \subseteq gone', UNCHANGED <<armed, on, line, at, claims, byHand, faults>>,
         open' \subseteq claims', gone' \subseteq claims'
  PROVE  WorkInv'
  <1>1. seq \in Nat /\ MaxTurns \in Nat
    BY LaneAssumption DEF LaneAssumption, WorkInv, BaseInv
  <1>2. TurnsInv'
    BY <1>1, ArriveKeeps DEF WorkInv
  <1>3. BaseInv'
    BY <1>1 DEF WorkInv, BaseInv, Arrive
  <1>4. QED
    BY <1>2, <1>3 DEF WorkInv, TodoAt

LEMMA WorkStepKeeps ==
  ASSUME LaneInv', WorkInv, [Next]_vars
  PROVE  WorkInv'
  <1>0. open' \subseteq claims' /\ gone' \subseteq claims'
    BY DEF LaneInv, ClaimInv
  <1>1. ASSUME UNCHANGED <<line, at, arriving, seq>>, BaseInv', claims' = claims,
               gone \subseteq gone'
        PROVE  WorkInv'
    BY <1>0, <1>1, StillLines, LinesKeep DEF WorkInv
  <1>2. CASE UNCHANGED vars
    BY <1>1, <1>2 DEF vars, runnerVars, journalVars, WorkInv, BaseInv
  <1>3. ASSUME NEW s \in Signal, Hand(s) PROVE WorkInv'
    BY <1>0, <1>3, HandedKeeps DEF Hand, journalVars, ItemOK
  <1>4. ASSUME NEW k \in open, Exit(k) PROVE WorkInv'
    <2>1. CASE UNCHANGED <<arriving, seq>>
      BY <1>1, <1>4, <2>1 DEF Exit, WorkInv, BaseInv
    <2>2. ASSUME NEW by \in {"stop", "target"}, Arrive(ExitItem(k, by)), seq < MaxTurns
          PROVE  WorkInv'
      <3>1. ItemOK(ExitItem(k, by))'
        BY <1>4 DEF Exit, ItemOK
      <3>2. QED
        BY <1>0, <1>4, <2>2, <3>1, HandedKeeps DEF Exit
    <2>3. QED
      BY <1>4, <2>1, <2>2 DEF Exit
  <1>5. ASSUME NEW a \in TicketUsed, Ticket(a) PROVE WorkInv'
    BY <1>1, <1>5 DEF Ticket, runnerVars, WorkInv, BaseInv
  <1>6. CASE Switch
    <2>1. faults' \in 0 .. MaxFaults
      BY <1>6, LaneAssumption DEF LaneAssumption, Switch, WorkInv, BaseInv
    <2>2. armed' \in BOOLEAN /\ on' \in [Strategy -> BOOLEAN]
      BY <1>6 DEF Switch, WorkInv, BaseInv
    <2>3. BaseInv'
      BY <1>6, <2>1, <2>2 DEF Switch, runnerVars, journalVars, WorkInv, BaseInv
    <2>4. QED
      BY <1>1, <1>6, <2>3 DEF Switch, runnerVars, journalVars
  <1>7. CASE Crash
    <2>1. faults' \in 0 .. MaxFaults
      BY <1>7, LaneAssumption DEF LaneAssumption, Crash, WorkInv, BaseInv
    <2>2. BaseInv'
      BY <1>7, <2>1 DEF Crash, journalVars, WorkInv, BaseInv
    <2>3. \A t : ~InPlay(t)'
      BY <1>7 DEF Crash, InPlay
    <2>4. TurnsInv'
      BY <1>7, <2>3, FS_EmptySet DEF Crash, TurnsInv
    <2>5. QED
      BY <1>0, <1>7, <2>2, <2>4 DEF Crash, journalVars, WorkInv, TodoAt
  <1>8. ASSUME NEW t \in arriving, Join(t) \/ JoinFails(t) PROVE WorkInv'
    <2>1. /\ LinesGo /\ arriving' \subseteq arriving
          /\ UNCHANGED <<armed, on, seq, journalVars>>
          /\ faults' = faults \/ (faults < MaxFaults /\ faults' = faults + 1)
      BY <1>8, JoinsGo
    <2>2. faults' \in 0 .. MaxFaults
      BY <2>1, LaneAssumption DEF LaneAssumption, WorkInv, BaseInv
    <2>3. BaseInv'
      BY <2>1, <2>2 DEF journalVars, WorkInv, BaseInv
    <2>4. QED
      BY <1>0, <2>1, <2>3, LinesKeep DEF journalVars, WorkInv
  <1>9. ASSUME NEW a \in Account, Trades(a) PROVE WorkInv'
    <2>1. LinesGo /\ UNCHANGED <<armed, on, arriving, seq, gone, byHand, faults>>
      BY <1>9, TradesGo
    <2>2. claims' \subseteq KeySet
      BY <1>9, TodoLeft DEF Trades, TurnOff, ReadStrategies, Claim, Count, Place,
           journalVars, WorkInv
    <2>3. BaseInv'
      BY <2>1 DEF WorkInv, BaseInv
    <2>4. QED
      BY <1>0, <2>1, <2>2, <2>3, LinesKeep
  <1>10. QED
    BY <1>2, <1>3, <1>4, <1>5, <1>6, <1>7, <1>8, <1>9 DEF Next, Environment

LEMMA WorkKept == Spec => [](LaneInv /\ WorkInv)
  <1>1. Init => LaneInv /\ WorkInv
    BY LaneInit, WorkInit
  <1>2. LaneInv /\ WorkInv /\ [Next]_vars => LaneInv' /\ WorkInv'
    BY LaneStep, WorkStepKeeps
  <1>3. QED
    BY <1>1, <1>2, PTL DEF Spec

\* Whatever is handed over, claimed or being traded is about a signal or a
\* trade of the desk, and a line that claims has something left to claim.
THEOREM LanesWellFormed == Spec => []TypeOK
  <1>1. ASSUME WorkInv PROVE TypeOK
    <2>1. \A k \in KeySet : IsKey(k)
      BY DEF KeySet, IsKey
    <2>2. ASSUME NEW t, InPlay(t) PROVE IsTurn(t)
      <3>1. TurnOK(t) /\ gone \subseteq KeySet
        BY <1>1, <2>2 DEF WorkInv, TurnsInv
      <3>2. QED
        BY <2>1, <3>1 DEF TurnOK, ItemOK, IsTurn, SignalItem, ExitItem
    <2>3. /\ \A t \in arriving : InPlay(t)
          /\ \A a \in Account : \A t \in line[a] : InPlay(t)
          /\ \A a \in Account : at[a] # Idle => InPlay(at[a].turn)
      BY DEF InPlay
    <2>4. \A k \in claims \cup open \cup gone : IsKey(k)
      BY <1>1, <2>1 DEF WorkInv
    <2>5. QED
      BY <1>1, <2>2, <2>3, <2>4 DEF TypeOK, WorkInv, BaseInv, TodoAt
  <1>2. QED
    BY <1>1, WorkKept, PTL

\* A line begins the turn of the longest timeframe there is, and only when
\* none is still on its way in (goesBefore and serve).
THEOREM LongestComesFirst == Spec => LongestFirst
  <1>1. ASSUME WorkInv, Next PROVE \A a \in Account : LongestOf(a)
    <2>1. ASSUME UNCHANGED <<line, at>> PROVE LinesGo
      BY <1>1, <2>1, StillLines
    <2>2. CASE Environment
      BY <2>1, <2>2 DEF Environment, Hand, Exit, Ticket, Switch, Crash,
           runnerVars, LinesGo, LongestOf
    <2>3. ASSUME NEW t \in arriving, Join(t) \/ JoinFails(t) PROVE LinesGo
      BY <1>1, <2>3, JoinsGo
    <2>4. ASSUME NEW a \in Account, Trades(a) PROVE LinesGo
      BY <1>1, <2>4, TradesGo
    <2>5. QED
      BY <1>1, <2>2, <2>3, <2>4 DEF Next, LinesGo
  <1>2. LaneInv /\ WorkInv /\ [Next]_vars =>
          [\A a \in Account :
             at'[a] # Idle /\ (at[a] = Idle \/ at'[a].turn # at[a].turn) =>
               \A t \in line'[a] \cup arriving' :
                 Tf(t.item) <= Tf(at'[a].turn.item)]_vars
    BY <1>1 DEF LongestOf
  <1>3. QED
    BY <1>2, WorkKept, PTL DEF Spec, LongestFirst
-----------------------------------------------------------------------------
(* The trades of one signal: its own, and the re-entries that follow. *)

\* g is on the way down to c: c follows what followed g, or g itself.
Above(g, c) ==
    /\ g.st = c.st /\ g.sig = c.sig /\ Len(g.path) < Len(c.path)
    /\ \A i \in 1 .. Len(g.path) : g.path[i] = c.path[i]

Siblings(c, d) == c.st = d.st /\ c.sig = d.sig /\ c.path = d.path

\* A signal's own trade is followed by its entries, and each of them by one.
PathOK(c) ==
    \A i \in 1 .. Len(c.path) :
      IF i = 1 THEN c.path[1] \in 1 .. Entries ELSE c.path[i] = 1

\* A trade is followed only when it has closed, so what is open has nobody
\* below it.
FollowsGone(c) ==
    \A n \in 0 .. Len(c.path) - 1 : \E g \in gone : Above(g, c) /\ Len(g.path) = n

\* c is one of the trades that follow what the turn t is about.
Follows(c, t) ==
    /\ t.item.kind = "exit" /\ c.st = t.item.of.st /\ c.sig = t.item.of.sig
    /\ \E e \in 1 .. EntriesOf(t.item) : c.path = Append(t.item.of.path, e)

\* One place in the family is claimed on one key: the side of a signal's own
\* trade is the signal's, and that of a re-entry is settled by the one exit
\* that opens it.
FamilyInv ==
    /\ open \cap gone = {}
    /\ \A c \in claims : PathOK(c) /\ FollowsGone(c)
    /\ \A c \in claims : c.path = <<>> => c.side = SideOf[c.sig]
    /\ \A c, d \in claims : Siblings(c, d) => c = d
    /\ \A t, u : InPlay(t) /\ InPlay(u) /\ t.item.kind = "exit" /\ u.item.kind = "exit"
                   /\ t.item.of = u.item.of => t.item = u.item
    /\ \A t, c : InPlay(t) /\ c \in claims /\ Follows(c, t) =>
                   c.side = Key(c.st, t.item, 1).side

\* Where the trade stands among the ones its signal's own trade opens.
Branch(c) == IF c.path = <<>> THEN 1 ELSE c.path[1]

-----------------------------------------------------------------------------
\* Nobody is below a trade that is open.
LEMMA NobodyBelow ==
  ASSUME WorkInv, FamilyInv, NEW k \in open, NEW c \in claims, Above(k, c)
  PROVE  FALSE
  <1>0. k \in KeySet /\ c \in KeySet /\ k \in claims
    BY DEF WorkInv
  <1>1. /\ k.path \in Seq(Nat) /\ c.path \in Seq(Nat)
        /\ Len(k.path) \in Nat /\ Len(c.path) \in Nat
    BY <1>0, LenProperties DEF KeySet
  <1>2. PICK g \in gone : Above(g, c) /\ Len(g.path) = Len(k.path)
    <2>1. Len(k.path) \in 0 .. Len(c.path) - 1
      BY <1>1 DEF Above
    <2>2. QED
      BY <2>1 DEF FamilyInv, FollowsGone
  <1>3. g.path \in Seq(Nat) /\ g \in claims
    BY DEF WorkInv, KeySet
  <1>4. g.path = k.path
    <2>1. \A i \in 1 .. Len(k.path) : g.path[i] = k.path[i]
      BY <1>2 DEF Above
    <2>2. QED
      BY <1>1, <1>2, <1>3, <2>1, SeqEqual
  <1>5. g = k
    BY <1>0, <1>2, <1>3, <1>4 DEF FamilyInv, Siblings, Above
  <1>6. QED
    BY <1>5 DEF FamilyInv

\* Two trades of a signal that are open at once are different ones of those
\* its own trade opens.
LEMMA PlacesDiffer ==
  ASSUME WorkInv, FamilyInv, NEW k \in open, NEW c \in open,
         k.st = c.st, k.sig = c.sig, Branch(k) = Branch(c),
         Len(k.path) <= Len(c.path)
  PROVE  k = c
  <1>1. k \in claims /\ c \in claims /\ k \in KeySet /\ c \in KeySet
    BY DEF WorkInv
  <1>2. /\ k.path \in Seq(Nat) /\ c.path \in Seq(Nat)
        /\ Len(k.path) \in Nat /\ Len(c.path) \in Nat
    BY <1>1, LenProperties DEF KeySet
  <1>3. ASSUME NEW i \in 1 .. Len(k.path) PROVE k.path[i] = c.path[i]
    <2>1. i \in 1 .. Len(c.path)
      BY <1>2
    <2>2. k.path # <<>> /\ c.path # <<>>
      BY <1>2, <2>1, EmptySeq
    <2>3. k.path[1] = c.path[1]
      BY <2>2 DEF Branch
    <2>4. PathOK(k) /\ PathOK(c)
      BY <1>1 DEF FamilyInv
    <2>5. QED
      BY <2>1, <2>3, <2>4 DEF PathOK
  <1>4. CASE Len(k.path) = Len(c.path)
    <2>1. k.path = c.path
      BY <1>2, <1>3, <1>4, SeqEqual
    <2>2. QED
      BY <1>1, <2>1 DEF FamilyInv, Siblings
  <1>5. CASE Len(k.path) # Len(c.path)
    <2>1. Above(k, c)
      BY <1>2, <1>3, <1>5 DEF Above
    <2>2. QED
      BY <1>1, <2>1, NobodyBelow
  <1>6. QED
    BY <1>4, <1>5

\* So what is open of a signal is no more than what one exit may open.
LEMMA FamilyIsSmall ==
  ASSUME WorkInv, FamilyInv
  PROVE  NeverMultiply
  <1>0. Entries \in Nat
    BY LaneAssumption DEF LaneAssumption
  <1>1. SUFFICES ASSUME NEW st \in Strategy, NEW s \in Signal
                 PROVE  Cardinality({k \in open : k.st = st /\ k.sig = s})
                          <= IF Entries > 1 THEN Entries ELSE 1
    BY DEF NeverMultiply
  <1> DEFINE O == {k \in open : k.st = st /\ k.sig = s}
             m == IF Entries > 1 THEN Entries ELSE 1
             f == [k \in O |-> Branch(k)]
  <1>2. \A k \in O : k \in KeySet /\ PathOK(k)
    BY DEF WorkInv, FamilyInv
  <1>3. ASSUME NEW k \in O PROVE Branch(k) \in 1 .. m
    <2>1. k.path \in Seq(Nat) /\ PathOK(k)
      BY <1>2 DEF KeySet
    <2>2. CASE k.path = <<>>
      BY <1>0, <2>2 DEF Branch
    <2>3. CASE k.path # <<>>
      <3>1. 1 \in 1 .. Len(k.path)
        BY <2>1, <2>3, EmptySeq
      <3>2. k.path[1] \in 1 .. Entries
        BY <2>1, <3>1 DEF PathOK
      <3>3. QED
        BY <1>0, <2>3, <3>2 DEF Branch
    <2>4. QED
      BY <2>2, <2>3
  <1>4. ASSUME NEW k \in O, NEW c \in O, f[k] = f[c] PROVE k = c
    <2>1. k \in open /\ c \in open /\ k.st = c.st /\ k.sig = c.sig
      OBVIOUS
    <2>2. Branch(k) = Branch(c)
      BY <1>4
    <2>3. Len(k.path) \in Nat /\ Len(c.path) \in Nat
      BY <1>2, LenProperties DEF KeySet
    <2>4. Len(k.path) <= Len(c.path) \/ Len(c.path) <= Len(k.path)
      BY <2>3
    <2>5. QED
      BY <2>1, <2>2, <2>4, PlacesDiffer
  <1>5. f \in Injection(O, 1 .. m)
    <2>1. f \in [O -> 1 .. m]
      BY <1>3
    <2>2. QED
      BY <1>4, <2>1, Fun_IsInj
  <1> HIDE DEF f, O
  <1>6. IsFiniteSet(1 .. m) /\ Cardinality(1 .. m) = m
    BY <1>0, FS_Interval
  <1>7. Cardinality(O) <= m
    BY <1>5, <1>6, FS_Injection
  <1>8. QED
    BY <1>7 DEF O
-----------------------------------------------------------------------------
\* A trade that follows another is one below it.
LEMMA FollowsIsBelow ==
  ASSUME NEW g \in KeySet, NEW c, NEW e \in Nat,
         c.st = g.st, c.sig = g.sig, c.path = Append(g.path, e)
  PROVE  /\ Above(g, c) /\ Len(c.path) = Len(g.path) + 1 /\ Len(g.path) \in Nat
         /\ c.path # <<>> /\ c.path[Len(g.path) + 1] = e
  <1>1. g.path \in Seq(Nat) /\ Len(g.path) \in Nat
    BY LenProperties DEF KeySet
  <1>2. /\ Len(c.path) = Len(g.path) + 1 /\ c.path # <<>>
        /\ \A i \in 1 .. Len(g.path) : c.path[i] = g.path[i]
        /\ c.path[Len(g.path) + 1] = e
    BY <1>1, AppendProperties
  <1>3. QED
    BY <1>1, <1>2 DEF Above

\* What a turn about an exit is about has closed.
LEMMA ExitIsGone ==
  ASSUME WorkInv, NEW t, InPlay(t), t.item.kind = "exit"
  PROVE  /\ t.item.of \in gone /\ t.item.of \in claims /\ t.item.of \in KeySet
         /\ EntriesOf(t.item) \in Nat
  <1>1. TurnOK(t)
    BY DEF WorkInv, TurnsInv
  <1>2. \A k, by : /\ ExitItem(k, by).of = k
                   /\ \A s : SignalItem(s).kind = "signal"
    BY DEF ExitItem, SignalItem
  <1>3. t.item.of \in gone
    BY <1>1, <1>2 DEF TurnOK, ItemOK
  <1>4. QED
    BY <1>1, <1>3, KeysAreKeys DEF WorkInv, TurnOK

\* A step that claims nothing and hands over at most a signal.
LEMMA FamilyStill ==
  ASSUME FamilyInv, claims' = claims, gone \subseteq gone', open' \cap gone' = {},
         \A t : InPlay(t)' => InPlay(t) \/ t.item.kind = "signal"
  PROVE  FamilyInv'
  <1>1. \A c \in claims' : PathOK(c)' /\ FollowsGone(c)'
    BY DEF FamilyInv, PathOK, FollowsGone
  <1>2. \A t, u : InPlay(t)' /\ InPlay(u)' /\ t.item.kind = "exit"
                    /\ u.item.kind = "exit" /\ t.item.of = u.item.of => t.item = u.item
    BY DEF FamilyInv
  <1>3. \A t, c : InPlay(t)' /\ c \in claims' /\ Follows(c, t) =>
                    c.side = Key(c.st, t.item, 1).side
    BY DEF FamilyInv, Follows
  <1>4. QED
    BY <1>1, <1>2, <1>3 DEF FamilyInv

\* A trade that closes was open, so nothing follows it yet and no turn is
\* about it.
LEMMA FamilyExit ==
  ASSUME WorkInv, FamilyInv, NEW k \in open, NEW t0, NEW by,
         t0.item = ExitItem(k, by), claims' = claims,
         open' = open \ {k}, gone' = gone \cup {k},
         \A t : InPlay(t)' => InPlay(t) \/ t = t0
  PROVE  FamilyInv'
  <1>0. /\ t0.item.of = k /\ t0.item.kind = "exit"
        /\ k \in KeySet /\ k \notin gone
    BY DEF ExitItem, WorkInv, FamilyInv
  <1>1. \A c \in claims' : PathOK(c)' /\ FollowsGone(c)'
    BY DEF FamilyInv, PathOK, FollowsGone
  <1>2. ASSUME NEW t, NEW u, InPlay(t)', InPlay(u)', t.item.kind = "exit",
               u.item.kind = "exit", t.item.of = u.item.of
        PROVE  t.item = u.item
    <2>1. \A v : InPlay(v) /\ v.item.kind = "exit" => v.item.of # k
      BY <1>0, ExitIsGone
    <2>2. CASE InPlay(t) /\ InPlay(u)
      BY <1>2, <2>2 DEF FamilyInv
    <2>3. QED
      BY <1>0, <1>2, <2>1, <2>2
  <1>3. ASSUME NEW t, NEW c \in claims, InPlay(t)', Follows(c, t)
        PROVE  c.side = Key(c.st, t.item, 1).side
    <2>1. CASE InPlay(t)
      BY <1>3, <2>1 DEF FamilyInv
    <2>2. CASE t = t0
      <3>1. /\ c.st = k.st /\ c.sig = k.sig
            /\ \E e \in 1 .. EntriesOf(t.item) : c.path = Append(k.path, e)
        BY <1>0, <1>3, <2>2 DEF Follows
      <3>2. EntriesOf(t.item) \in Nat
        BY <1>0, <2>2, LaneAssumption DEF LaneAssumption, EntriesOf
      <3>3. Above(k, c)
        <4>1. PICK e \in 1 .. EntriesOf(t.item) : c.path = Append(k.path, e)
          BY <3>1
        <4>2. e \in Nat
          BY <3>2
        <4>3. QED
          BY <1>0, <3>1, <4>1, <4>2, FollowsIsBelow
      <3>4. QED
        BY <3>3, NobodyBelow
    <2>3. QED
      BY <1>3, <2>1, <2>2
  <1>4. open' \cap gone' = {}
    BY DEF FamilyInv
  <1>5. QED
    BY <1>1, <1>2, <1>3, <1>4 DEF FamilyInv

\* What a turn claims is its signal's own trade, or follows what it is about.
LEMMA ClaimedKey ==
  ASSUME NEW t, NEW k \in KeysOf(t.item)
  PROVE  /\ t.item.kind = "signal" => k.path = <<>> /\ k.side = SideOf[k.sig]
         /\ t.item.kind # "signal" =>
              /\ \E e \in 1 .. EntriesOf(t.item) : k.path = Append(t.item.of.path, e)
              /\ k.st = t.item.of.st /\ k.sig = t.item.of.sig
              /\ k.side = Key(k.st, t.item, 1).side
  <1>1. PICK st \in Strategy, e \in 1 .. EntriesOf(t.item) :
          Mine(st, t.item) /\ k = Key(st, t.item, e)
    BY DEF KeysOf
  <1>2. CASE t.item.kind = "signal"
    BY <1>1, <1>2 DEF Key
  <1>3. CASE t.item.kind # "signal"
    BY <1>1, <1>3 DEF Key, Mine
  <1>4. QED
    BY <1>2, <1>3

\* A trade that follows one that has closed is in its place in the family.
LEMMA FollowerPlaced ==
  ASSUME WorkInv, FamilyInv, NEW g \in gone, NEW k, NEW t, t.item.of = g,
         t.item.kind = "exit", k.st = g.st, k.sig = g.sig,
         NEW e \in 1 .. EntriesOf(t.item), k.path = Append(g.path, e)
  PROVE  PathOK(k) /\ FollowsGone(k) /\ k.path # <<>>
  <1>0. g \in KeySet /\ g \in claims /\ Entries \in Nat
    BY LaneAssumption DEF LaneAssumption, WorkInv
  <1>1. EntriesOf(t.item) = IF Len(g.path) > 0 THEN 1 ELSE Entries
    BY DEF EntriesOf
  <1>2. e \in Nat
    BY <1>0, <1>1
  <1>3. /\ Above(g, k) /\ Len(k.path) = Len(g.path) + 1 /\ Len(g.path) \in Nat
        /\ k.path # <<>> /\ k.path[Len(g.path) + 1] = e
    BY <1>0, <1>2, FollowsIsBelow
  <1>4. PathOK(k)
    <2>1. SUFFICES ASSUME NEW i \in 1 .. Len(k.path)
                   PROVE  IF i = 1 THEN k.path[1] \in 1 .. Entries ELSE k.path[i] = 1
      BY DEF PathOK
    <2>2. CASE i <= Len(g.path)
      <3>1. i \in 1 .. Len(g.path) /\ g.path[i] = k.path[i]
        BY <1>3, <2>2 DEF Above
      <3>2. QED
        BY <1>0, <3>1 DEF FamilyInv, PathOK
    <2>3. CASE ~(i <= Len(g.path))
      <3>1. i = Len(g.path) + 1 /\ k.path[i] = e
        BY <1>3, <2>3
      <3>2. i = 1 => e \in 1 .. Entries
        BY <1>1, <1>3, <3>1
      <3>3. i # 1 => e = 1
        BY <1>1, <1>3, <3>1
      <3>4. QED
        BY <3>1, <3>2, <3>3
    <2>4. QED
      BY <2>2, <2>3
  <1>5. FollowsGone(k)
    <2>1. SUFFICES ASSUME NEW n \in 0 .. Len(k.path) - 1
                   PROVE  \E h \in gone : Above(h, k) /\ Len(h.path) = n
      BY DEF FollowsGone
    <2>2. CASE n = Len(g.path)
      BY <1>3, <2>2
    <2>3. CASE n # Len(g.path)
      <3>1. n \in 0 .. Len(g.path) - 1
        BY <1>3, <2>3
      <3>2. PICK h \in gone : Above(h, g) /\ Len(h.path) = n
        BY <1>0, <3>1 DEF FamilyInv, FollowsGone
      <3>3. Above(h, k)
        BY <1>3, <3>1, <3>2 DEF Above
      <3>4. QED
        BY <3>2, <3>3
    <2>4. QED
      BY <2>2, <2>3
  <1>6. QED
    BY <1>3, <1>4, <1>5

\* A key is claimed in its place in the family, and nobody has that place.
LEMMA FamilyClaim ==
  ASSUME WorkInv, FamilyInv, NEW t, InPlay(t), NEW k \in KeysOf(t.item),
         k \in KeySet, k \notin claims, claims' = claims \cup {k},
         UNCHANGED <<open, gone>>, \A u : InPlay(u)' => InPlay(u)
  PROVE  FamilyInv'
  <1>1. /\ t.item.kind = "signal" => k.path = <<>> /\ k.side = SideOf[k.sig]
        /\ t.item.kind # "signal" =>
             /\ \E e \in 1 .. EntriesOf(t.item) : k.path = Append(t.item.of.path, e)
             /\ k.st = t.item.of.st /\ k.sig = t.item.of.sig
             /\ k.side = Key(k.st, t.item, 1).side
    BY ClaimedKey
  <1>2. t.item.kind \in {"signal", "exit"}
    <2>1. TurnOK(t)
      BY DEF WorkInv, TurnsInv
    <2>2. \A s, q, by : /\ SignalItem(s).kind = "signal"
                        /\ ExitItem(q, by).kind = "exit"
      BY DEF SignalItem, ExitItem
    <2>3. QED
      BY <2>1, <2>2 DEF TurnOK, ItemOK
  <1>3. PathOK(k) /\ FollowsGone(k) /\ (k.path = <<>> => t.item.kind = "signal")
    <2>1. CASE t.item.kind = "signal"
      <3>1. Len(k.path) = 0
        BY <1>1, <2>1, EmptySeq
      <3>2. QED
        BY <2>1, <3>1 DEF PathOK, FollowsGone
    <2>2. CASE t.item.kind = "exit"
      BY <1>1, <2>2, ExitIsGone, FollowerPlaced
    <2>3. QED
      BY <1>2, <2>1, <2>2
  <1>4. ASSUME NEW d \in claims, Siblings(k, d) PROVE FALSE
    <2>1. d \in KeySet
      BY DEF WorkInv
    <2>2. d.side = k.side
      <3>1. CASE t.item.kind = "signal"
        BY <1>1, <1>4, <3>1 DEF FamilyInv, Siblings
      <3>2. CASE t.item.kind = "exit"
        <4>1. Follows(d, t)
          BY <1>1, <1>4, <3>2 DEF Follows, Siblings
        <4>2. d.side = Key(d.st, t.item, 1).side
          BY <4>1 DEF FamilyInv
        <4>3. QED
          BY <1>1, <1>4, <3>2, <4>2 DEF Siblings
      <3>3. QED
        BY <1>2, <3>1, <3>2
    <2>3. d = k
      BY <1>4, <2>1, <2>2 DEF Siblings, KeySet
    <2>4. QED
      BY <2>3
  <1>5. ASSUME NEW u, InPlay(u), Follows(k, u)
        PROVE  k.side = Key(k.st, u.item, 1).side
    <2>1. PICK e \in 1 .. EntriesOf(u.item) : k.path = Append(u.item.of.path, e)
      BY <1>5 DEF Follows
    <2>2. /\ u.item.kind = "exit" /\ u.item.of \in KeySet
          /\ u.item.of \in claims /\ EntriesOf(u.item) \in Nat
      BY <1>5, ExitIsGone DEF Follows
    <2>3. u.item.of.path \in Seq(Nat) /\ e \in Nat
      BY <2>2 DEF KeySet
    <2>4. t.item.kind = "exit"
      BY <1>1, <1>2, <2>1, <2>3, AppendProperties
    <2>5. PICK e2 \in 1 .. EntriesOf(t.item) : k.path = Append(t.item.of.path, e2)
      BY <1>1, <2>4
    <2>6. t.item.of \in KeySet /\ t.item.of \in claims /\ EntriesOf(t.item) \in Nat
      BY <2>4, ExitIsGone
    <2>7. t.item.of.path \in Seq(Nat) /\ e2 \in Nat
      BY <2>6 DEF KeySet
    <2>8. t.item.of.path = u.item.of.path
      <3>1. Append(t.item.of.path, e2) = Append(u.item.of.path, e)
        BY <2>1, <2>5
      <3>2. \A p, q \in Seq(Nat) : \A m, n \in Nat :
              Append(p, m) = Append(q, n) => p = q
        BY AppendInjective
      <3>3. QED
        BY <2>3, <2>7, <3>1, <3>2
    <2>9. Siblings(t.item.of, u.item.of)
      BY <1>1, <1>5, <2>4, <2>8 DEF Siblings, Follows
    <2>10. t.item.of = u.item.of
      BY <2>2, <2>6, <2>9 DEF FamilyInv
    <2>11. t.item = u.item
      BY <1>5, <2>2, <2>4, <2>10 DEF FamilyInv
    <2>12. QED
      BY <1>1, <2>4, <2>11
  <1>6. \A c \in claims' : PathOK(c)' /\ FollowsGone(c)'
    BY <1>3 DEF FamilyInv, PathOK, FollowsGone
  <1>7. \A c \in claims' : c.path = <<>> => c.side = SideOf[c.sig]
    BY <1>1, <1>3 DEF FamilyInv
  <1>8. \A c, d \in claims' : Siblings(c, d) => c = d
    <2>1. \A c, d : Siblings(c, d) => Siblings(d, c)
      BY DEF Siblings
    <2>2. QED
      BY <1>4, <2>1 DEF FamilyInv
  <1>9. \A u, c : InPlay(u)' /\ c \in claims' /\ Follows(c, u) =>
                    c.side = Key(c.st, u.item, 1).side
    BY <1>5 DEF FamilyInv
  <1>10. QED
    BY <1>6, <1>7, <1>8, <1>9 DEF FamilyInv
-----------------------------------------------------------------------------
LEMMA FamilyInit == Init => FamilyInv
  BY DEF Init, FamilyInv, InPlay

LEMMA FamilyStepKeeps ==
  ASSUME LaneInv, WorkInv, FamilyInv, [Next]_vars
  PROVE  FamilyInv'
  <1>0. open \cap gone = {}
    BY DEF FamilyInv
  <1>1. ASSUME UNCHANGED <<line, at, arriving, claims, open, gone>>
        PROVE  FamilyInv'
    BY <1>0, <1>1, FamilyStill DEF InPlay
  <1>2. CASE UNCHANGED vars
    BY <1>1, <1>2 DEF vars, runnerVars, journalVars
  <1>3. ASSUME NEW s \in Signal, Hand(s) PROVE FamilyInv'
    <2>1. arriving' \subseteq arriving \cup {[item |-> SignalItem(s), seq |-> seq]}
      BY <1>3 DEF Hand, Arrive
    <2>2. SignalItem(s).kind = "signal"
      BY DEF SignalItem
    <2>3. \A t : InPlay(t)' => InPlay(t) \/ t.item.kind = "signal"
      BY <1>3, <2>1, <2>2 DEF Hand, InPlay
    <2>4. QED
      BY <1>0, <1>3, <2>3, FamilyStill DEF Hand, journalVars
  <1>4. ASSUME NEW k \in open, Exit(k) PROVE FamilyInv'
    <2>1. /\ open' = open \ {k} /\ gone' = gone \cup {k}
          /\ UNCHANGED <<line, at, claims>>
      BY <1>4 DEF Exit
    <2>2. CASE UNCHANGED arriving
      <3>1. \A t : InPlay(t)' => InPlay(t)
        BY <2>1, <2>2 DEF InPlay
      <3>2. open' \cap gone' = {}
        BY <1>0, <2>1
      <3>3. QED
        BY <2>1, <3>1, <3>2, FamilyStill
    <2>3. ASSUME NEW by \in {"stop", "target"}, Arrive(ExitItem(k, by))
          PROVE  FamilyInv'
      <3>1. PICK t0 : t0 = [item |-> ExitItem(k, by), seq |-> seq]
        OBVIOUS
      <3>2. \A t : InPlay(t)' => InPlay(t) \/ t = t0
        BY <2>1, <2>3, <3>1 DEF Arrive, InPlay
      <3>3. t0.item = ExitItem(k, by)
        BY <3>1
      <3>4. QED
        BY <2>1, <3>2, <3>3, FamilyExit
    <2>4. QED
      BY <1>4, <2>2, <2>3 DEF Exit
  <1>5. ASSUME NEW a \in TicketUsed, Ticket(a) PROVE FamilyInv'
    BY <1>1, <1>5 DEF Ticket, runnerVars
  <1>6. CASE Switch
    BY <1>1, <1>6 DEF Switch, runnerVars, journalVars
  <1>7. CASE Crash
    <2>1. \A t : ~InPlay(t)'
      BY <1>7 DEF Crash, InPlay
    <2>2. QED
      BY <1>0, <1>7, <2>1, FamilyStill DEF Crash, journalVars
  <1>8. ASSUME NEW t \in arriving, Join(t) \/ JoinFails(t) PROVE FamilyInv'
    <2>1. LinesGo /\ arriving' \subseteq arriving /\ UNCHANGED journalVars
      BY <1>8, JoinsGo
    <2>2. \A u : InPlay(u)' => InPlay(u)
      BY <2>1, NoneHanded
    <2>3. QED
      BY <1>0, <2>1, <2>2, FamilyStill DEF journalVars
  <1>9. ASSUME NEW a \in Account, Trades(a) PROVE FamilyInv'
    <2>1. LinesGo /\ UNCHANGED <<arriving, gone>>
      BY <1>9, TradesGo
    <2>2. \A u : InPlay(u)' => InPlay(u)
      BY <2>1, NoneHanded
    <2>3. CASE UNCHANGED <<claims, open>>
      BY <1>0, <2>1, <2>2, <2>3, FamilyStill
    <2>4. CASE Place(a)
      <3>1. claims' = claims /\ open' \subseteq open \cup {Head(at[a].todo)}
            /\ Head(at[a].todo) \notin gone
        BY <2>4, PlaceKeeps DEF Place
      <3>2. open' \cap gone' = {}
        BY <1>0, <2>1, <3>1
      <3>3. QED
        BY <2>1, <2>2, <3>1, <3>2, FamilyStill
    <2>5. ASSUME NEW k, k = Head(at[a].todo), at[a] # Idle, at[a].step = "claim",
                 k \notin claims, claims' = claims \cup {k}, UNCHANGED open
          PROVE  FamilyInv'
      <3>1. k \in KeysOf(at[a].turn.item) /\ k \in KeySet
        BY <2>5, TodoLeft
      <3>2. InPlay(at[a].turn)
        BY <2>5 DEF InPlay
      <3>3. QED
        BY <2>1, <2>2, <2>5, <3>1, <3>2, FamilyClaim
    <2>6. CASE Claim(a)
      BY <2>3, <2>5, <2>6 DEF Claim
    <2>7. CASE TurnOff(a) \/ ReadStrategies(a) \/ Count(a)
      BY <2>3, <2>7 DEF TurnOff, ReadStrategies, Count, journalVars
    <2>8. QED
      BY <1>9, <2>4, <2>6, <2>7 DEF Trades
  <1>10. QED
    BY <1>2, <1>3, <1>4, <1>5, <1>6, <1>7, <1>8, <1>9 DEF Next, Environment

\* A signal's trades never multiply: however its trades close and are followed
\* (the exit of its own trade opens its entries, a re-entry's exit one), no
\* strategy has more of them open at once than one exit opens.
THEOREM TradesNeverMultiply == Spec => []NeverMultiply
  <1>1. Init => LaneInv /\ WorkInv /\ FamilyInv
    BY LaneInit, WorkInit, FamilyInit
  <1>2. LaneInv /\ WorkInv /\ FamilyInv /\ [Next]_vars
          => LaneInv' /\ WorkInv' /\ FamilyInv'
    BY LaneStep, WorkStepKeeps, FamilyStepKeeps
  <1>3. WorkInv /\ FamilyInv => NeverMultiply
    BY FamilyIsSmall
  <1>4. QED
    BY <1>1, <1>2, <1>3, PTL DEF Spec
=============================================================================
