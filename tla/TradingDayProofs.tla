-------------------------- MODULE TradingDayProofs --------------------------
(***************************************************************************)
(* Proofs about TradingDay, for any legs, sessions and times, any number   *)
(* of edits, failed calls and restarts: a leg of a day is sold once,       *)
(* nothing passes the gates of an account that was squared off that day,   *)
(* an order goes out over a position whose exit has come only in a pass    *)
(* whose close of it failed, a square-off that is over names what it left  *)
(* at the exchange of what it was to close, and the state is well formed.  *)
(***************************************************************************)
EXTENDS TradingDay, TLAPS

\* The phase of a trade that is on the record.
Phase == {"none", "new", "working", "held", "closing", "done"}

\* Whatever is on record is of a claimed day.
RunsInv ==
    /\ now \in Nat /\ entry \in Time
    /\ rec \in [Trade -> Phase]
    /\ \A t \in Trade : rec[t] # "none" => t[1] \in runs

ExitJob == [step : {"exit"}, entry : Time, due : SUBSET Trade, missed : SUBSET Trade]
ClaimJob == [step : {"claim"}, day : RunDays, missed : SUBSET Trade]
OpenJob == [step : {"open"}, day : RunDays, left : SUBSET Legs, missed : SUBSET Trade]
LegJob == [step : {"gate", "send"}, day : RunDays, left : SUBSET Legs,
           leg : Legs, missed : SUBSET Trade]

\* What a pass still has to sell is of a claimed day, and not on record.
ToSell(j) ==
    /\ j.day \in runs
    /\ \A t \in Trade : t[1] = j.day /\ t[2] \in j.left => rec[t] = "none"

\* What a pass has to close is on record.
JobInv ==
    job # None =>
      \/ job \in ExitJob /\ \A t \in job.due : rec[t] # "none"
      \/ job \in ClaimJob
      \/ job \in OpenJob /\ ToSell(job)
      \/ job \in LegJob /\ job.leg \notin job.left /\ ToSell(job)

ListSquare == [step : {"list"}, day : Nat, over : {FALSE}]
PullSquare == [step : {"pull"}, day : Nat, over : BOOLEAN, pull : SUBSET Trade,
               close : SUBSET Trade, failed : SUBSET Trade,
               loose : SUBSET (Nat \X Legs)]

\* What the square-off has to pull and to close is on record.
PullInv ==
    square # None =>
      \/ square \in ListSquare
      \/ /\ square \in PullSquare
         /\ \A t \in square.pull \cup square.close : rec[t] # "none"

OnceInv == RunsInv /\ JobInv /\ PullInv

-----------------------------------------------------------------------------
\* At first nothing is on record and no pass is under way.
LEMMA OnceInit == Init => OnceInv
  BY DayAssumption, SMT
     DEF Init, OnceInv, RunsInv, JobInv, PullInv, DayAssumption, Phase

\* A step that leaves the records, the claims and the pass as they are, and
\* gives the square-off nothing new to pull.
LEMMA OnceKept ==
  ASSUME OnceInv, UNCHANGED <<rec, runs, job>>, now' \in Nat, entry' \in Time,
         square' \in {square, None} \cup ListSquare
  PROVE  OnceInv'
  <1>1. RunsInv'
    BY DEF OnceInv, RunsInv
  <1>2. JobInv'
    BY DEF OnceInv, JobInv, ToSell
  <1>3. PullInv'
    BY DEF OnceInv, PullInv
  <1>4. QED
    BY <1>1, <1>2, <1>3 DEF OnceInv

\* A record that is on it already moves on, if it moves; the pass and the
\* square-off get nothing more to close.
LEMMA OnceMoved ==
  ASSUME OnceInv, NEW t, t \in Trade => rec[t] # "none",
         NEW p \in Phase \ {"none"},
         rec' \in {rec, [rec EXCEPT ![t] = p]}, UNCHANGED <<now, entry, runs>>,
         \/ job' = job
         \/ /\ job # None /\ job \in ExitJob /\ job' \in ExitJob
            /\ job'.due \subseteq job.due,
         \/ square' = square
         \/ /\ At("pull") /\ square \in PullSquare /\ square' \in PullSquare
            /\ square'.pull \subseteq square.pull /\ square'.close \subseteq square.close
  PROVE  OnceInv'
  <1>1. /\ rec' \in [Trade -> Phase]
        /\ \A u \in Trade : rec'[u] # "none" <=> rec[u] # "none"
    BY DEF OnceInv, RunsInv, Phase
  <1>2. RunsInv'
    BY <1>1 DEF OnceInv, RunsInv
  <1>3. JobInv'
    <2>1. CASE job' = job
      <3>1. job \in ExitJob => \A u \in job.due : u \in Trade
        BY DEF ExitJob
      <3>2. QED
        BY <1>1, <2>1, <3>1 DEF OnceInv, JobInv, ToSell
    <2>2. CASE /\ job # None /\ job \in ExitJob /\ job' \in ExitJob
               /\ job'.due \subseteq job.due
      <3>1. \A u \in job'.due : u \in Trade /\ u \in job.due
        BY <2>2 DEF ExitJob
      <3>2. \A u \in job.due : rec[u] # "none"
        BY <2>2 DEF OnceInv, JobInv, ExitJob, ClaimJob, OpenJob, LegJob
      <3>3. QED
        BY <1>1, <2>2, <3>1, <3>2 DEF JobInv
    <2>3. QED
      BY <2>1, <2>2
  <1>4. PullInv'
    <2>1. CASE square' = square
      <3>1. square \in PullSquare => \A u \in square.pull \cup square.close : u \in Trade
        BY DEF PullSquare
      <3>2. QED
        BY <1>1, <2>1, <3>1 DEF OnceInv, PullInv
    <2>2. CASE /\ At("pull") /\ square \in PullSquare /\ square' \in PullSquare
               /\ square'.pull \subseteq square.pull /\ square'.close \subseteq square.close
      <3>1. \A u \in square'.pull \cup square'.close :
              u \in Trade /\ u \in square.pull \cup square.close
        BY <2>2 DEF PullSquare
      <3>2. \A u \in square.pull \cup square.close : rec[u] # "none"
        BY <2>2 DEF At, OnceInv, PullInv, ListSquare, PullSquare
      <3>3. QED
        BY <1>1, <2>2, <3>1, <3>2 DEF PullInv
    <2>3. QED
      BY <2>1, <2>2
  <1>5. QED
    BY <1>2, <1>3, <1>4 DEF OnceInv

\* What a close makes of the record, and of what is sold.
LEMMA CloseMoves ==
  ASSUME rec \in [Trade -> Phase], NEW t, BuysBack(t) \/ FailedClose(t)
  PROVE  /\ short' \subseteq short
         /\ \E p \in {"done", "closing"} : rec' \in {rec, [rec EXCEPT ![t] = p]}
         /\ \A u \in Trade : \/ rec'[u] = rec[u]
                             \/ rec'[u] = "done"
                             \/ u \in Held /\ rec'[u] = "closing"
  BY DEF BuysBack, FailedClose

\* Positions are on as they were, or opened just now.
NoneOlder ==
    \A t \in Held' : \/ t \in Held /\ opened'[t] = opened[t]
                    \/ opened'[t] = now

\* What a poll makes of the record: it reads what is sent and not yet over.
LEMMA PollMoves ==
  ASSUME rec \in [Trade -> Phase], NEW t, Poll(t)
  PROVE  /\ t \in Trade => rec[t] \notin {"none", "new"}
         /\ resting' \subseteq resting /\ short' \subseteq short
         /\ \E p \in {"held", "done"} : rec' \in {rec, [rec EXCEPT ![t] = p]}
         /\ \A u \in Trade : \/ rec'[u] \in {rec[u], "done"}
                             \/ rec'[u] = "held" /\ u \in short'
         /\ now \in Nat /\ opened \in [Trade -> Nat] =>
              opened' \in [Trade -> Nat] /\ NoneOlder
  <1> USE DEF Held, InPhase, NoneOlder
  <1>1. CASE FindsFill(t)
    BY <1>1 DEF FindsFill, marketVars
  <1>2. CASE FindsClosed(t)
    BY <1>2 DEF FindsClosed, marketVars
  <1>3. CASE EntryEnds(t)
    BY <1>3 DEF EntryEnds
  <1>4. CASE FollowUp(t)
    BY <1>4 DEF FollowUp, BuysBack
  <1>5. QED
    BY <1>1, <1>2, <1>3, <1>4 DEF Poll

\* What becomes of an entry the square-off pulls.
LEMMA PullMoves ==
  ASSUME rec \in [Trade -> Phase], NEW t \in Trade, PullEntry(t)
  PROVE  /\ resting' \subseteq resting
         /\ short \subseteq short' /\ short' \subseteq short \cup resting
         /\ \E p \in {"held", "done"} : rec' \in {rec, [rec EXCEPT ![t] = p]}
         /\ \A u \in Trade : \/ rec'[u] \in {rec[u], "done"}
                             \/ rec'[u] = "held" /\ u \in short'
         /\ now \in Nat /\ opened \in [Trade -> Nat] =>
              opened' \in [Trade -> Nat] /\ NoneOlder
  <1> USE DEF Held, InPhase, NoneOlder
  <1>1. CASE UNCHANGED tradeVars
    BY <1>1 DEF tradeVars, marketVars
  <1>2. CASE t \notin Held /\ TakesOff(t)
    <2>1. /\ resting' \subseteq resting
          /\ short \subseteq short' /\ short' \subseteq short \cup resting
          /\ opened' = [opened EXCEPT ![t] = IF rec'[t] = "held" THEN now ELSE @]
          /\ \/ rec' = [rec EXCEPT ![t] = "done"]
             \/ rec' = [rec EXCEPT ![t] = "held"] /\ t \in short'
      BY <1>2 DEF TakesOff, marketVars
    <2>2. CASE rec' = [rec EXCEPT ![t] = "done"]
      BY <1>2, <2>1, <2>2
    <2>3. CASE rec' = [rec EXCEPT ![t] = "held"] /\ t \in short'
      BY <1>2, <2>1, <2>3
    <2>4. QED
      BY <2>1, <2>2, <2>3
  <1>3. QED
    BY <1>1, <1>2 DEF PullEntry

\* A record of a claimed day may be written.
LEMMA RecordOfClaimed ==
  ASSUME RunsInv, NEW d \in runs, NEW l, NEW p \in Phase,
         rec' = [rec EXCEPT ![<<d, l>>] = p], UNCHANGED <<now, entry, runs>>
  PROVE  RunsInv'
  <1>1. rec' \in [Trade -> Phase]
    BY DEF RunsInv, Phase
  <1>2. ASSUME NEW t \in Trade, rec'[t] # "none" PROVE t[1] \in runs
    <2>1. CASE t = <<d, l>>
      BY <2>1
    <2>2. CASE t # <<d, l>>
      BY <1>2, <2>2 DEF RunsInv
    <2>3. QED
      BY <2>1, <2>2
  <1>3. QED
    BY <1>1, <1>2 DEF RunsInv

\* The runner's pass.
LEMMA OnceRunner == OnceInv /\ Runner => OnceInv'
  <1> SUFFICES ASSUME OnceInv, Runner PROVE OnceInv'
    OBVIOUS
  <1> USE DEF OnceInv
  <1>1. ASSUME PassBegins PROVE OnceInv'
    <2>1. job' \in ExitJob /\ \A t \in job'.due : rec[t] # "none"
      BY <1>1 DEF PassBegins, RunsInv, ExitJob, Due, Held, InPhase
    <2>2. QED
      BY <1>1, <2>1 DEF PassBegins, RunsInv, JobInv, PullInv, tradeVars
  <1>2. ASSUME NEW t \in Trade, ExitDue(t) PROVE OnceInv'
    <2>1. job # None /\ job \in ExitJob /\ t \in job.due /\ rec[t] # "none"
      BY <1>2 DEF ExitDue, JobInv, ExitJob, ClaimJob, OpenJob, LegJob
    <2>2. job' \in ExitJob /\ job'.due \subseteq job.due
      BY <1>2, <2>1 DEF ExitDue, ExitJob
    <2>3. PICK p \in {"done", "closing"} : rec' \in {rec, [rec EXCEPT ![t] = p]}
      BY <1>2, CloseMoves DEF ExitDue, RunsInv
    <2>4. p \in Phase \ {"none"}
      BY DEF Phase
    <2>5. QED
      BY <1>2, <2>1, <2>2, <2>3, <2>4, OnceMoved DEF ExitDue
  <1>3. ASSUME ConsiderEntry PROVE OnceInv'
    <2>1. job' = None \/ job' \in ClaimJob
      BY <1>3 DEF ConsiderEntry, JobInv, ExitJob, ClaimJob, OpenJob, LegJob, EntryDue
    <2>2. QED
      BY <1>3, <2>1 DEF ConsiderEntry, RunsInv, JobInv, PullInv, tradeVars
  <1>4. ASSUME Claim PROVE OnceInv'
    <2>1. job \in ClaimJob
      BY <1>4 DEF Claim, JobInv, ExitJob, ClaimJob, OpenJob, LegJob
    <2>2. ASSUME job' # None PROVE job' \in OpenJob /\ ToSell(job)'
      <3>1. /\ job.day \notin runs /\ job.day \in runs'
            /\ job' = [step |-> "open", day |-> job.day, left |-> Legs, missed |-> job.missed]
        BY <1>4, <2>2 DEF Claim, Selling
      <3>2. job' \in OpenJob
        BY <2>1, <3>1 DEF ClaimJob, OpenJob
      <3>3. \A t \in Trade : t[1] = job.day => rec'[t] = "none"
        BY <1>4, <3>1 DEF Claim, RunsInv, tradeVars
      <3>4. QED
        BY <3>1, <3>2, <3>3 DEF ToSell
    <2>3. QED
      BY <1>4, <2>2 DEF Claim, RunsInv, JobInv, PullInv, tradeVars
  <1>5. ASSUME NEW l \in Legs, Opens(l) PROVE OnceInv'
    <2>1. job \in OpenJob /\ ToSell(job)
      BY <1>5 DEF Opens, JobInv, ExitJob, ClaimJob, OpenJob, LegJob
    <2>2. job' \in LegJob /\ job'.leg \notin job'.left /\ ToSell(job)'
      BY <1>5, <2>1 DEF Opens, OpenJob, LegJob, ToSell, RunsInv
    <2>3. RunsInv'
      BY <1>5, <2>1, RecordOfClaimed DEF Opens, ToSell, Phase
    <2>4. PullInv'
      BY <1>5 DEF Opens, PullInv, RunsInv
    <2>5. QED
      BY <2>2, <2>3, <2>4 DEF JobInv
  <1>6. ASSUME job # None, job.step \in {"gate", "send"},
               NEW p \in Phase \ {"none"},
               rec' = [rec EXCEPT ![Selected] = p],
               job' = Selling(job.day, job.left, job),
               UNCHANGED <<now, entry, runs, square>>
        PROVE  OnceInv'
    <2>1. job \in LegJob /\ job.leg \notin job.left /\ ToSell(job)
      BY <1>6 DEF JobInv, ExitJob, ClaimJob, OpenJob, LegJob
    <2>2. job' # None => job' \in OpenJob /\ ToSell(job)'
      BY <1>6, <2>1 DEF Selling, Selected, OpenJob, LegJob, ToSell, RunsInv
    <2>3. RunsInv'
      BY <1>6, <2>1, RecordOfClaimed DEF Selected, ToSell
    <2>4. PullInv'
      BY <1>6 DEF PullInv, RunsInv
    <2>5. QED
      BY <2>2, <2>3, <2>4 DEF JobInv
  <1>7. ASSUME Gate PROVE OnceInv'
    <2>1. CASE Blocked
      BY <1>6, <1>7, <2>1 DEF Gate, Phase
    <2>2. CASE ~Blocked
      <3>1. job \in LegJob /\ job.leg \notin job.left /\ ToSell(job)
        BY <1>7 DEF Gate, JobInv, ExitJob, ClaimJob, OpenJob, LegJob
      <3>2. job' \in LegJob /\ job'.leg \notin job'.left /\ ToSell(job)'
        BY <1>7, <2>2, <3>1 DEF Gate, LegJob, ToSell
      <3>3. QED
        BY <1>7, <2>2, <3>2 DEF Gate, RunsInv, JobInv, PullInv
    <2>3. QED
      BY <2>1, <2>2
  <1>8. ASSUME Send PROVE OnceInv'
    BY <1>6, <1>8 DEF Send, Phase
  <1>9. QED
    BY <1>1, <1>2, <1>3, <1>4, <1>5, <1>7, <1>8 DEF Runner

\* Today is a day.
LEMMA TodayIsDay == now \in Nat => Today \in Nat
  BY ScheduleAssumption DEF ScheduleAssumption, Today, DayOf

\* The session guard.
LEMMA OnceGuard == OnceInv /\ Guard => OnceInv'
  <1> SUFFICES ASSUME OnceInv, Guard PROVE OnceInv'
    OBVIOUS
  <1>0. now \in Nat /\ entry \in Time /\ Today \in Nat
    BY TodayIsDay DEF OnceInv, RunsInv
  <1>1. ASSUME Look PROVE OnceInv'
    <2>1. square' = square \/ square' = [step |-> "list", day |-> Today, over |-> FALSE]
      BY <1>1, Zenon DEF Look
    <2>2. square' \in {square, None} \cup ListSquare
      <3>1. [step |-> "list", day |-> Today, over |-> FALSE] \in ListSquare
        BY <1>0 DEF ListSquare
      <3>2. QED
        BY <2>1, <3>1
    <2>3. QED
      BY <1>0, <1>1, <2>2, OnceKept DEF Look, tradeVars
  <1>2. ASSUME ListOpen PROVE OnceInv'
    <2>1. /\ square' \in PullSquare
          /\ \A t \in square'.pull \cup square'.close : rec[t] # "none"
      <3>1. square \in ListSquare
        BY <1>2 DEF ListOpen, At, OnceInv, PullInv, ListSquare, PullSquare
      <3>2. Trade \subseteq Nat \X Legs
        BY DEF Trade
      <3>3. OnItsWay \subseteq Nat \X Legs
        <4>1. job # None /\ job.step = "send" => job.day \in RunDays /\ job.leg \in Legs
          BY DEF OnceInv, JobInv, ExitJob, ClaimJob, OpenJob, LegJob
        <4>2. RunDays \subseteq Nat
          BY ScheduleAssumption DEF ScheduleAssumption
        <4>3. job # None /\ job.step = "send" => Selected \in Nat \X Legs
          BY <4>1, <4>2 DEF Selected
        <4>4. QED
          BY <4>3 DEF OnItsWay
      <3>4. square.day \in Nat
        BY <3>1 DEF ListSquare
      <3>5. ASSUME NEW pull \in SUBSET Trade, NEW close \in SUBSET Trade,
                   NEW failed \in SUBSET Trade, NEW loose \in SUBSET (Nat \X Legs),
                   square' = [step |-> "pull", day |-> square.day, over |-> FALSE,
                              pull |-> pull, close |-> close, failed |-> failed,
                              loose |-> loose],
                   \A t \in pull \cup close : rec[t] # "none"
            PROVE  /\ square' \in PullSquare
                   /\ \A t \in square'.pull \cup square'.close : rec[t] # "none"
        BY <3>4, <3>5 DEF PullSquare
      <3>6. /\ InPhase("new") \cup InPhase("working") \subseteq Trade /\ Held \subseteq Trade
            /\ \A t \in InPhase("new") \cup InPhase("working") \cup Held : rec[t] # "none"
            /\ InPhase("done") \subseteq Trade
        BY DEF InPhase, Held
      <3> DEFINE flat == InPhase("new") \cup InPhase("working")
                 past == InPhase("done") \cap (short \cup resting)
                 Listed(pull, close, failed, loose) ==
                   [step |-> "pull", day |-> square.day, over |-> FALSE, pull |-> pull,
                    close |-> close, failed |-> failed, loose |-> loose]
      <3>7. \/ square' = Listed(flat, Held, {}, flat \cup OnItsWay \cup past)
            \/ square' = Listed({}, {}, Trade, {})
        BY <1>2 DEF ListOpen
      <3>8. CASE square' = Listed(flat, Held, {}, flat \cup OnItsWay \cup past)
        <4>1. flat \cup OnItsWay \cup past \subseteq Nat \X Legs
          BY <3>2, <3>3, <3>6
        <4> HIDE DEF flat, past
        <4>2. QED
          BY <3>5, <3>6, <3>8, <4>1 DEF flat
      <3>9. CASE square' = Listed({}, {}, Trade, {})
        <4>1. /\ square'.pull = {} /\ square'.close = {}
              /\ square' = [step |-> "pull", day |-> square.day, over |-> FALSE,
                            pull |-> {}, close |-> {}, failed |-> Trade, loose |-> {}]
          BY <3>9
        <4>2. QED
          BY <3>4, <4>1 DEF PullSquare
      <3>10. QED
        BY <3>7, <3>8, <3>9
    <2>2. RunsInv' /\ JobInv'
      BY <1>2 DEF ListOpen, OnceInv, RunsInv, JobInv, ToSell, tradeVars
    <2>3. QED
      BY <1>2, <2>1, <2>2 DEF ListOpen, OnceInv, PullInv, tradeVars
  <1>3. ASSUME At("pull") PROVE square \in PullSquare
    BY <1>3 DEF At, OnceInv, PullInv, ListSquare, PullSquare
  <1>4. ASSUME WriteHit PROVE OnceInv'
    <2>1. square' \in PullSquare /\ square'.pull = square.pull
      BY <1>3, <1>4 DEF WriteHit, PullSquare
    <2>2. RunsInv' /\ JobInv'
      BY <1>4 DEF WriteHit, OnceInv, RunsInv, JobInv, ToSell, tradeVars
    <2>3. PullInv'
      BY <1>3, <1>4, <2>1
         DEF WriteHit, At, OnceInv, PullInv, ListSquare, PullSquare, tradeVars
    <2>4. QED
      BY <2>2, <2>3 DEF OnceInv
  <1>5. ASSUME NEW t \in Trade, PullEntry(t) PROVE OnceInv'
    <2>1. rec[t] # "none"
      BY <1>5 DEF PullEntry, At, OnceInv, PullInv, ListSquare, PullSquare
    <2>2. PICK p \in {"held", "done"} : rec' \in {rec, [rec EXCEPT ![t] = p]}
      BY <1>5, PullMoves DEF OnceInv, RunsInv
    <2>3. p \in Phase \ {"none"}
      BY DEF Phase
    <2>4. /\ At("pull") /\ square \in PullSquare /\ square' \in PullSquare
          /\ square'.pull \subseteq square.pull /\ square'.close \subseteq square.close
      <3>1. square \in PullSquare /\ At("pull")
        BY <1>3, <1>5 DEF PullEntry
      <3>2. CASE square' = [square EXCEPT !.pull = @ \ {t}]
        BY <3>1, <3>2 DEF PullSquare
      <3>3. CASE square' = [square EXCEPT !.pull = @ \ {t}, !.failed = @ \cup {t}]
        BY <3>1, <3>3 DEF PullSquare
      <3>4. QED
        BY <1>5, <3>2, <3>3 DEF PullEntry
    <2>5. UNCHANGED <<now, entry, runs, job>>
      BY <1>5 DEF PullEntry
    <2>6. QED
      BY <2>1, <2>2, <2>3, <2>4, <2>5, OnceMoved
  <1>6. ASSUME NEW t \in Trade, CloseListed(t) PROVE OnceInv'
    <2>1. square \in PullSquare /\ At("pull") /\ rec[t] # "none"
      BY <1>3, <1>6 DEF CloseListed, At, OnceInv, PullInv, ListSquare, PullSquare
    <2>2. /\ square' \in PullSquare
          /\ square'.pull \subseteq square.pull /\ square'.close \subseteq square.close
      <3>1. CASE square' = [square EXCEPT !.close = @ \ {t}, !.loose = @ \cup Loose(t)]
        <4>1. Loose(t) \subseteq Nat \X Legs
          BY DEF Loose, Trade
        <4>2. QED
          BY <2>1, <3>1, <4>1 DEF PullSquare
      <3>2. CASE square' = [square EXCEPT !.close = @ \ {t}, !.failed = @ \cup {t}]
        BY <2>1, <3>2 DEF PullSquare
      <3>3. QED
        BY <1>6, <3>1, <3>2 DEF CloseListed
    <2>3. PICK p \in {"done", "closing"} : rec' \in {rec, [rec EXCEPT ![t] = p]}
      BY <1>6, CloseMoves DEF CloseListed, OnceInv, RunsInv
    <2>4. p \in Phase \ {"none"}
      BY DEF Phase
    <2>5. UNCHANGED <<now, entry, runs, job>>
      BY <1>6 DEF CloseListed
    <2>6. QED
      BY <2>1, <2>2, <2>3, <2>4, <2>5, OnceMoved
  <1>7. QED
    BY <1>1, <1>2, <1>4, <1>5, <1>6 DEF Guard

\* Every step keeps the records to what is claimed.
LEMMA OnceNext == OnceInv /\ [Next]_vars => OnceInv'
  <1> SUFFICES ASSUME OnceInv, [Next]_vars PROVE OnceInv'
    OBVIOUS
  <1>0. now \in Nat /\ entry \in Time
    BY DEF OnceInv, RunsInv
  <1>1. CASE Advance
    BY <1>0, <1>1, OnceKept DEF Advance, tradeVars
  <1>2. CASE EditEntry
    <2>1. entry' \in Time
      BY <1>2, DayAssumption DEF EditEntry, DayAssumption
    <2>2. QED
      BY <1>0, <1>2, <2>1, OnceKept DEF EditEntry, tradeVars
  <1>3. CASE Crash
    <2>1. RunsInv'
      BY <1>3 DEF Crash, OnceInv, RunsInv, tradeVars
    <2>2. QED
      BY <1>3, <2>1 DEF Crash, OnceInv, JobInv, PullInv
  <1>4. CASE Restore
    BY <1>0, <1>4, OnceKept DEF Restore, tradeVars
  <1>5. ASSUME NEW t \in Trade, EntryFills(t) PROVE OnceInv'
    BY <1>0, <1>5, OnceKept DEF EntryFills
  <1>6. ASSUME NEW t \in Trade, Poll(t) PROVE OnceInv'
    <2>1. /\ rec[t] # "none"
          /\ \E p \in {"held", "done"} : rec' \in {rec, [rec EXCEPT ![t] = p]}
      BY <1>6, PollMoves DEF OnceInv, RunsInv
    <2>2. PICK p \in Phase \ {"none"} : rec' \in {rec, [rec EXCEPT ![t] = p]}
      BY <2>1 DEF Phase
    <2>3. QED
      BY <1>6, <2>1, <2>2, OnceMoved DEF Poll
  <1>7. CASE UNCHANGED vars
    BY <1>0, <1>7, OnceKept DEF vars, tradeVars
  <1>8. QED
    BY <1>1, <1>2, <1>3, <1>4, <1>5, <1>6, <1>7, OnceRunner, OnceGuard DEF Next

\* Whatever crashes, and however the entry time is edited: a leg is sold on a
\* day only if it is not on record for that day.
THEOREM SoldOncePerDay == Spec => SentOnce
  <1>1. OnceInv /\ [Next]_vars =>
          [\A t \in Trade :
             /\ job # None /\ job.step = "open"
             /\ job' # None /\ job'.step = "gate" /\ t = <<job'.day, job'.leg>>
             => rec[t] = "none"]_vars
    <2> SUFFICES ASSUME OnceInv, Next, job # None, job.step = "open",
                        job' # None, job'.step = "gate", NEW t \in Trade,
                        t = <<job'.day, job'.leg>>
                 PROVE  rec[t] = "none"
      OBVIOUS
    <2>1. PICK l \in Legs : Opens(l)
      <3>1. job' # job
        OBVIOUS
      <3>2. Runner
        BY <3>1
           DEF Next, Advance, EditEntry, Crash, Restore, EntryFills, Poll, Guard,
               Look, ListOpen, WriteHit, PullEntry, CloseListed
      <3>3. QED
        BY <3>2
           DEF Runner, PassBegins, ConsiderEntry, Claim, Gate, Send, ExitDue
    <2>2. job \in OpenJob /\ ToSell(job)
      BY DEF OnceInv, JobInv, ExitJob, ClaimJob, OpenJob, LegJob
    <2>3. job'.day = job.day /\ job'.leg = l /\ l \in job.left
      BY <2>1 DEF Opens
    <2>4. QED
      BY <2>2, <2>3 DEF ToSell
  <1>2. QED
    BY <1>1, OnceInit, OnceNext, PTL DEF Spec, SentOnce

-----------------------------------------------------------------------------
\* The guard's memory, in shape.
GuardType ==
    guard \in [breach : Nat, base : {None} \cup (Nat \X Time),
               lock : {None} \cup Nat, blind : BOOLEAN]

\* The account is locked for the day its square-off is of, and for the day it
\* was up to read a hit of; no hit is of a day to come.
LockInv ==
    /\ now \in Nat /\ GuardType
    /\ \A d \in hits : d \in Nat /\ d <= Today
    /\ square # None =>
         /\ life # "starting"
         /\ square.day \in Nat /\ square.day <= Today
         /\ square.day = Today => guard.lock = Today
    /\ life # "starting" /\ ~guard.blind /\ Today \in hits => guard.lock = Today

\* The day only moves on.
LEMMA DayMovesOn ==
  ASSUME now \in Nat, now' = now + 1
  PROVE  Today \in Nat /\ Today' \in Nat /\ Today <= Today'
  BY ScheduleAssumption DEF ScheduleAssumption, Today, DayOf

LEMMA LockInit == Init => LockInv
  <1> SUFFICES ASSUME Init PROVE LockInv
    OBVIOUS
  <1>1. now \in Nat
    BY DayAssumption DEF Init, DayAssumption
  <1>2. GuardType
    BY DEF Init, GuardType, Fresh
  <1>3. QED
    BY <1>1, <1>2 DEF Init, LockInv

\* A step of the day, the guard and the hits staying as they are.
LEMMA LockKept ==
  ASSUME LockInv, UNCHANGED <<now, hits, life, guard>>,
         \/ square' = square
         \/ square # None /\ square'.day = square.day
  PROVE  LockInv'
  BY DEF LockInv, GuardType, Today, DayOf

\* A look: the account is locked by the step that orders the square-off.
LEMMA LockLook == LockInv /\ Look => LockInv'
  <1> SUFFICES ASSUME LockInv, Look PROVE LockInv'
    OBVIOUS
  <1>1. now \in Nat /\ Today \in Nat /\ Today' = Today /\ GuardType
    BY TodayIsDay DEF LockInv, Look, Today
  <1>2. UNCHANGED <<now, hits, life>> /\ life = "up"
    BY DEF Look
  <1>3. /\ GuardType' /\ guard'.blind = guard.blind
        /\ \/ UNCHANGED square /\ guard'.lock = guard.lock
           \/ square'.day = Today /\ guard'.lock = Today
    <2> DEFINE Based(s) == [guard EXCEPT !.base = <<Today, s.from>>]
               Seen(s) == IF guard.base # <<Today, s.from>> THEN 0 ELSE guard.breach
    <2>1. CASE guard' = [guard EXCEPT !.breach = 0] /\ UNCHANGED square
      BY <1>1, <2>1 DEF GuardType
    <2>2. CASE ~(guard' = [guard EXCEPT !.breach = 0] /\ UNCHANGED square)
      <3>1. PICK s \in Sessions :
              \/ guard' = [Based(s) EXCEPT !.breach = 0] /\ UNCHANGED square
              \/ guard' = [Based(s) EXCEPT !.breach = Seen(s) + 1] /\ UNCHANGED square
              \/ /\ guard' = [Based(s) EXCEPT !.breach = 0, !.lock = Today]
                 /\ square' = [step |-> "list", day |-> Today, over |-> FALSE]
        BY <2>2, Zenon DEF Look
      <3>2. /\ Based(s) \in [breach : Nat, base : {None} \cup (Nat \X Time),
                          lock : {None} \cup Nat, blind : BOOLEAN]
            /\ Based(s).lock = guard.lock /\ Based(s).blind = guard.blind
            /\ Seen(s) \in Nat
        BY <1>1, DayAssumption DEF GuardType, DayAssumption
      <3>3. CASE \E n \in Nat :
                   guard' = [Based(s) EXCEPT !.breach = n] /\ UNCHANGED square
        <4> HIDE DEF Based
        <4>1. QED
          BY <3>2, <3>3 DEF GuardType
      <3>4. CASE /\ guard' = [Based(s) EXCEPT !.breach = 0, !.lock = Today]
                 /\ square' = [step |-> "list", day |-> Today, over |-> FALSE]
        <4> HIDE DEF Based
        <4>1. QED
          BY <1>1, <3>2, <3>4 DEF GuardType
      <3>5. Seen(s) + 1 \in Nat
        BY <3>2
      <3> HIDE DEF Based, Seen
      <3>6. QED
        BY <3>1, <3>3, <3>4, <3>5
    <2>3. QED
      BY <2>1, <2>2
  <1>4. QED
    BY <1>1, <1>2, <1>3 DEF LockInv

\* Every step keeps the lock.  OnceInv gives the square-off its shape.
LEMMA LockNext == LockInv /\ OnceInv /\ [Next]_vars => LockInv'
  <1> SUFFICES ASSUME LockInv, OnceInv, [Next]_vars PROVE LockInv'
    OBVIOUS
  <1>0. now \in Nat /\ Today \in Nat /\ GuardType
    BY TodayIsDay DEF LockInv
  <1>1. CASE Advance
    <2>1. Today' \in Nat /\ Today <= Today'
      BY <1>0, <1>1, DayMovesOn DEF Advance
    <2>2. GuardType' /\ guard'.lock = guard.lock /\ guard'.blind = guard.blind
      <3>1. Looks \in Nat
        BY DayAssumption DEF DayAssumption
      <3>2. QED
        BY <1>0, <1>1, <3>1 DEF Advance, GuardType
    <2>3. UNCHANGED <<hits, life, square>> /\ now' \in Nat
      BY <1>0, <1>1 DEF Advance
    <2>4. \A d \in Nat : d <= Today => d <= Today' /\ (d = Today' => d = Today)
      BY <1>0, <2>1
    <2>5. QED
      BY <1>0, <2>1, <2>2, <2>3, <2>4 DEF LockInv
  <1>2. CASE EditEntry
    BY <1>2, LockKept DEF EditEntry
  <1>3. CASE Crash
    <2>1. GuardType'
      BY <1>3 DEF Crash, GuardType, Fresh
    <2>2. QED
      BY <1>0, <1>3, <2>1 DEF Crash, LockInv, Today
  <1>4. CASE Restore
    <2>1. square = None /\ UNCHANGED <<now, hits, square>> /\ life' = "up" /\ Today' = Today
      BY <1>4 DEF Restore, LockInv, Today
    <2>2. CASE guard' = [guard EXCEPT !.lock = IF Today \in hits THEN Today ELSE None]
      <3>1. GuardType' /\ (Today \in hits => guard'.lock = Today)
        BY <1>0, <2>2 DEF GuardType
      <3>2. QED
        BY <1>0, <2>1, <3>1 DEF LockInv
    <2>3. CASE guard' = [guard EXCEPT !.blind = TRUE]
      <3>1. GuardType' /\ guard'.blind
        BY <1>0, <2>3 DEF GuardType
      <3>2. QED
        BY <1>0, <2>1, <3>1 DEF LockInv
    <2>4. QED
      BY <1>4, <2>2, <2>3 DEF Restore
  <1>5. ASSUME NEW t \in Trade, EntryFills(t) \/ Poll(t) PROVE LockInv'
    BY <1>5, LockKept DEF EntryFills, Poll
  <1>6. CASE Runner
    BY <1>6, LockKept
       DEF Runner, PassBegins, ExitDue, ConsiderEntry, Claim, Opens, Gate, Send
  <1>7. ASSUME square # None
        PROVE  square \in ListSquare \/ square \in PullSquare
    BY <1>7 DEF OnceInv, PullInv
  <1>8. CASE ListOpen
    <2>1. square # None /\ square'.day = square.day
      BY <1>8 DEF ListOpen, At
    <2>2. QED
      BY <1>8, <2>1, LockKept DEF ListOpen
  <1>9. ASSUME NEW t \in Trade, PullEntry(t) PROVE LockInv'
    <2>1. square # None /\ square'.day = square.day
      BY <1>7, <1>9 DEF PullEntry, At, ListSquare, PullSquare
    <2>2. QED
      BY <1>9, <2>1, LockKept DEF PullEntry
  <1>10. ASSUME NEW t \in Trade, CloseListed(t) PROVE LockInv'
    <2>1. square # None /\ square'.day = square.day
      <3>1. square # None /\ (square \in ListSquare \/ square \in PullSquare)
        BY <1>7, <1>10 DEF CloseListed, At
      <3>2. CASE square' = [square EXCEPT !.close = @ \ {t}, !.loose = @ \cup Loose(t)]
        BY <3>1, <3>2 DEF ListSquare, PullSquare
      <3>3. CASE square' = [square EXCEPT !.close = @ \ {t}, !.failed = @ \cup {t}]
        BY <3>1, <3>3 DEF ListSquare, PullSquare
      <3>4. QED
        BY <1>10, <3>1, <3>2, <3>3 DEF CloseListed
    <2>2. QED
      BY <1>10, <2>1, LockKept DEF CloseListed
  <1>11. CASE WriteHit
    <2>1. square # None /\ square' = [square EXCEPT !.over = TRUE]
      BY <1>11 DEF WriteHit, At
    <2>2. square'.day = square.day
      BY <1>7, <2>1 DEF ListSquare, PullSquare
    <2>3. /\ UNCHANGED <<now, life, guard>> /\ Today' = Today
          /\ hits' \subseteq hits \cup {square.day}
      BY <1>11 DEF WriteHit, Today
    <2>4. QED
      BY <1>0, <2>1, <2>2, <2>3 DEF LockInv, GuardType
  <1>12. CASE UNCHANGED vars
    BY <1>12, LockKept DEF vars
  <1>13. QED
    BY <1>1, <1>2, <1>3, <1>4, <1>5, <1>6, <1>8, <1>9, <1>10, <1>11, <1>12, LockLook
       DEF Next, Guard

\* The lock that is set before anything is squared off holds to the end of the
\* day, and over every restart that can read the hit back.
THEOREM NothingPassesAfterStop == Spec => StopHolds
  <1>1. LockInv /\ [Next]_vars =>
          [Passes =>
             /\ square = None \/ square.day # Today
             /\ life = "starting" \/ guard.blind \/ Today \notin hits]_vars
    <2> SUFFICES ASSUME LockInv, Next, Passes
                 PROVE  /\ square = None \/ square.day # Today
                        /\ life = "starting" \/ guard.blind \/ Today \notin hits
      OBVIOUS
    <2>1. Gate
      <3>1. job # None /\ job.step = "gate" /\ job' # job
        BY DEF Passes
      <3>2. Runner
        BY <3>1
           DEF Next, Advance, EditEntry, Crash, Restore, EntryFills, Poll, Guard,
               Look, ListOpen, WriteHit, PullEntry, CloseListed, Passes
      <3>3. QED
        BY <3>1, <3>2
           DEF Runner, PassBegins, ConsiderEntry, Claim, Opens, Send, ExitDue
    <2>2. ~Blocked
      BY <2>1 DEF Gate, Passes, Selling
    <2>3. QED
      BY <2>2 DEF Blocked, LockInv
  <1>2. QED
    BY <1>1, OnceInit, OnceNext, LockInit, LockNext, PTL DEF Spec, StopHolds

-----------------------------------------------------------------------------
\* A moment as its day and its time of day.
LEMMA MomentParts ==
  ASSUME NEW m \in Nat
  PROVE  DayOf(m) \in Nat /\ TimeOf(m) \in Time /\ m = (Day * DayOf(m)) + TimeOf(m)
  BY ScheduleAssumption DEF ScheduleAssumption, DayOf, TimeOf, Time

\* There is one such.
LEMMA OnePart ==
  ASSUME NEW d \in Nat, NEW r \in Time
  PROVE  TimeOf(Day * d + r) = r
  BY ScheduleAssumption DEF ScheduleAssumption, TimeOf, Time

\* exitMomentFor() is the first exit time after the position opened: never the
\* moment it opened at, never more than a day on, and no exit time is skipped.
THEOREM FirstExitAfterOpening ==
  ASSUME NEW o \in Nat
  PROVE  /\ ExitMomentFor(o) \in (o + 1) .. (o + Day)
         /\ TimeOf(ExitMomentFor(o)) = Exit
         /\ \A m \in (o + 1) .. (ExitMomentFor(o) - 1) : TimeOf(m) # Exit
  <1> DEFINE d == DayOf(o)
             r == TimeOf(o)
             e == ExitMomentFor(o)
  <1>0. Day \in Nat \ {0} /\ Exit \in Time
    BY ScheduleAssumption DEF ScheduleAssumption, Time
  <1>1. d \in Nat /\ r \in Time /\ o = (Day * d) + r
    BY MomentParts
  <1>2. CASE r < Exit
    <2>1. e = (Day * d) + Exit
      <3>1. (Exit - r) % Day = Exit - r
        BY <1>0, <1>1, <1>2 DEF Time
      <3>2. e = o + (Exit - r)
        BY <1>0, <1>1, <1>2, <3>1 DEF ExitMomentFor, Ahead, Forward, Time
      <3>3. QED
        BY <1>0, <1>1, <3>2 DEF Time
    <2>2. ASSUME NEW m \in (o + 1) .. (e - 1) PROVE TimeOf(m) # Exit
      <3>1. m = (Day * d) + (m - (Day * d)) /\ m - (Day * d) \in Time
        BY <1>0, <1>1, <2>1 DEF Time
      <3>2. TimeOf(m) = m - (Day * d)
        BY <1>1, <3>1, OnePart
      <3>3. QED
        BY <1>0, <1>1, <2>1, <3>2 DEF Time
    <2>3. TimeOf(e) = Exit
      BY <1>0, <1>1, <2>1, OnePart
    <2>4. e \in (o + 1) .. (o + Day)
      BY <1>0, <1>1, <1>2, <2>1 DEF Time
    <2>5. QED
      BY <2>2, <2>3, <2>4
  <1>3. CASE ~(r < Exit)
    <2>1. e = (Day * (d + 1)) + Exit
      <3>1. CASE r = Exit
        <4>1. (Exit - r) % Day = 0
          BY <1>0, <1>1, <3>1 DEF Time
        <4>2. e = o + Day
          BY <4>1 DEF ExitMomentFor, Ahead, Forward
        <4>3. QED
          BY <1>0, <1>1, <3>1, <4>2 DEF Time
      <3>2. CASE r > Exit
        <4>1. (Exit - r) % Day = (Exit - r) + Day
          BY <1>0, <1>1, <3>2 DEF Time
        <4>2. e = o + ((Exit - r) + Day)
          BY <1>0, <1>1, <3>2, <4>1 DEF ExitMomentFor, Ahead, Forward, Time
        <4>3. QED
          BY <1>0, <1>1, <4>2 DEF Time
      <3>3. QED
        BY <1>0, <1>1, <1>3, <3>1, <3>2 DEF Time
    <2>2. ASSUME NEW m \in (o + 1) .. (e - 1) PROVE TimeOf(m) # Exit
      <3>1. m \in Nat /\ d + 1 \in Nat /\ Day * (d + 1) = (Day * d) + Day
        BY <1>0, <1>1, <2>1 DEF Time
      <3>2. CASE m < Day * (d + 1)
        <4>1. m = (Day * d) + (m - (Day * d)) /\ m - (Day * d) \in Time
          BY <1>0, <1>1, <3>1, <3>2 DEF Time
        <4>2. TimeOf(m) = m - (Day * d)
          BY <1>1, <4>1, OnePart
        <4>3. QED
          BY <1>0, <1>1, <1>3, <4>2 DEF Time
      <3>3. CASE m >= Day * (d + 1)
        <4>1. /\ m = (Day * (d + 1)) + (m - (Day * (d + 1)))
              /\ m - (Day * (d + 1)) \in Time
          BY <1>0, <2>1, <3>1, <3>3 DEF Time
        <4>2. TimeOf(m) = m - (Day * (d + 1))
          BY <3>1, <4>1, OnePart
        <4>3. QED
          BY <1>0, <2>1, <3>1, <4>2 DEF Time
      <3>4. QED
        BY <1>0, <3>1, <3>2, <3>3 DEF Time
    <2>3. TimeOf(e) = Exit
      <3>1. d + 1 \in Nat
        BY <1>1
      <3>2. QED
        BY <1>0, <2>1, <3>1, OnePart
    <2>4. e \in (o + 1) .. (o + Day)
      BY <1>0, <1>1, <1>3, <2>1 DEF Time
    <2>5. QED
      BY <2>2, <2>3, <2>4
  <1>4. QED
    BY <1>2, <1>3

-----------------------------------------------------------------------------
(* Orders of exits and entries, what a square-off leaves, and the types.  *)

\* What a pass has still to close.
Pending(j) == IF j.step = "exit" THEN j.due ELSE {}

\* Every exit that is due the pass has still to make, or has missed.
DueInv ==
    /\ opened \in [Trade -> Nat]
    /\ job # None => Due \subseteq Pending(job) \cup job.missed

LEMMA DueInit == Init => DueInv
  BY DEF Init, DueInv

\* A position just opened is not due, the others are as due as they were.
LEMMA NothingNewDue ==
  ASSUME UNCHANGED now, now \in Nat, NoneOlder
  PROVE  Due' \subseteq Due
  <1> SUFFICES ASSUME NEW t \in Due' PROVE t \in Due
    OBVIOUS
  <1>1. t \in Held' /\ now >= ExitMomentFor(opened'[t])
    BY DEF Due, ExitMomentFor, Ahead, Forward, TimeOf
  <1>2. opened'[t] # now
    <2>1. ExitMomentFor(now) \in (now + 1) .. (now + Day)
      BY FirstExitAfterOpening
    <2>2. ExitMomentFor(now) > now
      BY <2>1, ScheduleAssumption DEF ScheduleAssumption
    <2>3. QED
      BY <1>1, <2>1, <2>2, ScheduleAssumption DEF ScheduleAssumption
  <1>3. QED
    BY <1>1, <1>2 DEF Due, NoneOlder

\* A step that leaves the pass as it is.
LEMMA DueKept ==
  ASSUME DueInv, OnceInv, UNCHANGED <<now, job>>, opened' \in [Trade -> Nat], NoneOlder
  PROVE  DueInv'
  <1>1. Due' \subseteq Due
    BY NothingNewDue DEF OnceInv, RunsInv
  <1>2. QED
    BY <1>1 DEF DueInv, Pending

\* The runner: exits are considered first, and what is due then is closed, or
\* missed.
LEMMA DueRunner == DueInv /\ OnceInv /\ Runner => DueInv'
  <1> SUFFICES ASSUME DueInv, OnceInv, Runner PROVE DueInv'
    OBVIOUS
  <1>0. now \in Nat /\ rec \in [Trade -> Phase] /\ opened \in [Trade -> Nat]
    BY DEF OnceInv, RunsInv, DueInv
  <1>1. CASE PassBegins
    <2>1. Due' \subseteq Due
      BY <1>0, <1>1, NothingNewDue DEF PassBegins, tradeVars, NoneOlder, Held, InPhase
    <2>2. QED
      BY <1>0, <1>1, <2>1 DEF PassBegins, DueInv, Pending, tradeVars
  <1>2. ASSUME NEW t \in Trade, ExitDue(t) PROVE DueInv'
    <2>1. job \in ExitJob /\ job # None
      BY <1>2 DEF ExitDue, OnceInv, JobInv, ExitJob, ClaimJob, OpenJob, LegJob
    <2>2. Due' \subseteq Due
      <3>1. Held' \subseteq Held /\ UNCHANGED <<now, opened>>
        <4>1. CASE BuysBack(t) \/ FailedClose(t)
          <5>1. \A u \in Trade : \/ rec'[u] = rec[u]
                                 \/ rec'[u] = "done"
                                 \/ u \in Held /\ rec'[u] = "closing"
            BY <1>0, <4>1, CloseMoves
          <5>2. QED
            BY <1>2, <5>1 DEF ExitDue, Held, InPhase
        <4>2. CASE UNCHANGED rec
          BY <1>2, <4>2 DEF ExitDue, Held, InPhase
        <4>3. QED
          BY <1>2, <4>1, <4>2 DEF ExitDue
      <3>2. QED
        BY <1>0, <3>1, NothingNewDue DEF NoneOlder
    <2>3. CASE BuysBack(t) /\ job' = [job EXCEPT !.due = @ \ {t}]
      <3>1. t \notin Due'
        BY <1>0, <2>3 DEF BuysBack, Due, Held, InPhase
      <3>2. job'.due = job.due \ {t} /\ job'.missed = job.missed /\ job'.step = "exit"
        BY <2>1, <2>3 DEF ExitJob
      <3>3. QED
        BY <1>0, <1>2, <2>1, <2>2, <3>1, <3>2 DEF ExitDue, DueInv, Pending, ExitJob
    <2>4. CASE job' = [job EXCEPT !.due = @ \ {t}, !.missed = @ \cup {t}]
      <3>1. /\ job'.due = job.due \ {t} /\ job'.missed = job.missed \cup {t}
            /\ job'.step = "exit"
        BY <2>1, <2>4 DEF ExitJob
      <3>2. QED
        BY <1>0, <1>2, <2>1, <2>2, <3>1 DEF ExitDue, DueInv, Pending, ExitJob
    <2>5. CASE job' = [job EXCEPT !.due = {}, !.missed = @ \cup job.due]
      <3>1. /\ job'.due = {} /\ job'.missed = job.missed \cup job.due
            /\ job'.step = "exit"
        BY <2>1, <2>5 DEF ExitJob
      <3>2. QED
        BY <1>0, <1>2, <2>1, <2>2, <3>1 DEF ExitDue, DueInv, Pending, ExitJob
    <2>6. QED
      BY <1>2, <2>3, <2>4, <2>5 DEF ExitDue
  <1>3. ASSUME UNCHANGED <<now, opened>>, job # None, Pending(job) = {},
               job' # None => Pending(job') = {} /\ job'.missed = job.missed,
               \A t \in Trade : rec'[t] \in {"held", "closing"} => rec'[t] = rec[t]
        PROVE  DueInv'
    <2>1. Due' \subseteq Due
      BY <1>0, <1>3, NothingNewDue DEF NoneOlder, Held, InPhase
    <2>2. QED
      BY <1>0, <1>3, <2>1 DEF DueInv
  <1>4. CASE ConsiderEntry
    <2>1. job' # None => Pending(job') = {} /\ job'.missed = job.missed
      BY <1>4 DEF ConsiderEntry, Pending
    <2>2. Pending(job) = {}
      BY <1>4 DEF ConsiderEntry, Pending
    <2>3. QED
      BY <1>3, <1>4, <2>1, <2>2 DEF ConsiderEntry, tradeVars
  <1>5. CASE Claim
    BY <1>3, <1>5 DEF Claim, Selling, Pending, tradeVars
  <1>6. ASSUME NEW l \in Legs, Opens(l) PROVE DueInv'
    <2>1. \A t \in Trade : rec'[t] \in {"held", "closing"} => rec'[t] = rec[t]
      BY <1>0, <1>6 DEF Opens
    <2>2. QED
      BY <1>3, <1>6, <2>1 DEF Opens, Pending
  <1>7. CASE Gate
    <2>1. \A t \in Trade : rec'[t] \in {"held", "closing"} => rec'[t] = rec[t]
      BY <1>0, <1>7 DEF Gate
    <2>2. job # None /\ Pending(job) = {}
      BY <1>7 DEF Gate, Pending
    <2>3. job' # None => Pending(job') = {} /\ job'.missed = job.missed
      <3>1. job \in LegJob
        BY <1>7 DEF Gate, OnceInv, JobInv, ExitJob, ClaimJob, OpenJob, LegJob
      <3>2. QED
        BY <1>7, <3>1 DEF Gate, Selling, Pending, LegJob
    <2>4. QED
      BY <1>3, <1>7, <2>1, <2>2, <2>3 DEF Gate
  <1>8. CASE Send
    <2>1. \A t \in Trade : rec'[t] \in {"held", "closing"} => rec'[t] = rec[t]
      BY <1>0, <1>8 DEF Send
    <2>2. QED
      BY <1>3, <1>8, <2>1 DEF Send, Selling, Pending
  <1>9. QED
    BY <1>1, <1>2, <1>4, <1>5, <1>6, <1>7, <1>8 DEF Runner

\* The guard closes, or finds an entry filled as it pulls it.
LEMMA DueGuard == DueInv /\ OnceInv /\ Guard => DueInv'
  <1> SUFFICES ASSUME DueInv, OnceInv, Guard PROVE DueInv'
    OBVIOUS
  <1>0. now \in Nat /\ rec \in [Trade -> Phase] /\ opened \in [Trade -> Nat]
    BY DEF OnceInv, RunsInv, DueInv
  <1>1. UNCHANGED <<now, job>>
    BY DEF Guard, Look, ListOpen, WriteHit, PullEntry, CloseListed
  <1>2. CASE Look \/ ListOpen \/ WriteHit
    BY <1>0, <1>1, <1>2, DueKept
       DEF Look, ListOpen, WriteHit, tradeVars, NoneOlder, Held, InPhase
  <1>3. ASSUME NEW t \in Trade, PullEntry(t) PROVE DueInv'
    <2>1. opened' \in [Trade -> Nat] /\ NoneOlder
      BY <1>0, <1>3, PullMoves
    <2>2. QED
      BY <1>1, <2>1, DueKept
  <1>4. ASSUME NEW t \in Trade, CloseListed(t) PROVE DueInv'
    <2>1. UNCHANGED opened /\ (BuysBack(t) \/ FailedClose(t))
      BY <1>4 DEF CloseListed
    <2>2. \A u \in Trade : \/ rec'[u] = rec[u]
                           \/ rec'[u] = "done"
                           \/ u \in Held /\ rec'[u] = "closing"
      BY <1>0, <2>1, CloseMoves
    <2>3. NoneOlder
      BY <2>1, <2>2 DEF NoneOlder, Held, InPhase
    <2>4. QED
      BY <1>0, <1>1, <2>1, <2>3, DueKept
  <1>5. QED
    BY <1>2, <1>3, <1>4 DEF Guard

LEMMA DueNext == DueInv /\ OnceInv /\ [Next]_vars => DueInv'
  <1> SUFFICES ASSUME DueInv, OnceInv, [Next]_vars PROVE DueInv'
    OBVIOUS
  <1>0. now \in Nat /\ rec \in [Trade -> Phase] /\ opened \in [Trade -> Nat]
    BY DEF OnceInv, RunsInv, DueInv
  <1>1. CASE Advance
    BY <1>0, <1>1 DEF Advance, DueInv, tradeVars
  <1>2. CASE EditEntry \/ Restore \/ UNCHANGED vars
    BY <1>0, <1>2, DueKept
       DEF EditEntry, Restore, vars, tradeVars, NoneOlder, Held, InPhase
  <1>3. CASE Crash
    BY <1>0, <1>3 DEF Crash, DueInv, tradeVars
  <1>4. ASSUME NEW t \in Trade, EntryFills(t) PROVE DueInv'
    BY <1>0, <1>4, DueKept DEF EntryFills, NoneOlder, Held, InPhase
  <1>5. ASSUME NEW t \in Trade, Poll(t) PROVE DueInv'
    <2>1. opened' \in [Trade -> Nat] /\ NoneOlder
      BY <1>0, <1>5, PollMoves
    <2>2. QED
      BY <1>5, <2>1, DueKept DEF Poll
  <1>6. QED
    BY <1>1, <1>2, <1>3, <1>4, <1>5, DueRunner, DueGuard DEF Next

\* Exits before entries, for any edit of the times and any interleaving: over a
\* position past its exit an order goes out only in a pass that missed that exit:
\* its close came back with the position on, or a call of the pass threw.
THEOREM ExitsBeforeEntries == Spec => NewDayAfterOld
  <1>1. DueInv /\ OnceInv /\ [Next]_vars =>
          [resting' \subseteq resting
           \/ \A t \in Held : ExitMomentFor(opened[t]) > now \/ t \in job.missed]_vars
    <2> SUFFICES ASSUME DueInv, OnceInv, Next, ~(resting' \subseteq resting),
                        NEW t \in Held, t \notin job.missed
                 PROVE  ExitMomentFor(opened[t]) > now
      OBVIOUS
    <2>0. rec \in [Trade -> Phase]
      BY DEF OnceInv, RunsInv
    <2>1. Send
      <3>1. ASSUME NEW u \in Trade, Poll(u) \/ PullEntry(u) PROVE FALSE
        BY <2>0, <3>1, PollMoves, PullMoves
      <3>2. QED
        BY <3>1
           DEF Next, Advance, EditEntry, Crash, Restore, EntryFills, Guard, Runner,
               Look, ListOpen, WriteHit, CloseListed, tradeVars, marketVars,
               PassBegins, ExitDue, ConsiderEntry, Claim, Opens, Gate
    <2>2. t \notin Due
      BY <2>1 DEF Send, DueInv, Pending
    <2>3. t \in Trade /\ opened[t] \in Nat /\ now \in Nat
      BY DEF Held, InPhase, DueInv, OnceInv, RunsInv
    <2>4. ~(now >= ExitMomentFor(opened[t]))
      BY <2>2 DEF Due
    <2>5. ExitMomentFor(opened[t]) \in Int
      BY <2>3, FirstExitAfterOpening, ScheduleAssumption DEF ScheduleAssumption
    <2>6. QED
      BY <2>3, <2>4, <2>5
  <1>2. QED
    BY <1>1, OnceInit, OnceNext, DueInit, DueNext, PTL DEF Spec, NewDayAfterOld

-----------------------------------------------------------------------------
\* The clock, and the days a pass is of: every one of them has come.
ClockInv ==
    /\ now \in 0 .. MaxNow /\ runs \subseteq Nat
    /\ opened \in [Trade -> 0 .. now]
    /\ guard.breach \in 0 .. Looks /\ life \in {"starting", "up"}
    /\ job # None /\ job.step # "exit" => job.day \in 0 .. DayOf(MaxNow)

\* An earlier moment is of no later day.
LEMMA DayMonotone ==
  ASSUME NEW m \in Int, NEW M \in Nat, m <= M
  PROVE  DayOf(m) <= DayOf(M)
  <1>1. Day \in Nat \ {0}
    BY ScheduleAssumption DEF ScheduleAssumption
  <1> DEFINE q == DayOf(m)
             Q == DayOf(M)
  <1>2. /\ q \in Int /\ Q \in Int
        /\ Day * q <= m /\ m < (Day * q) + Day
        /\ Day * Q <= M /\ M < (Day * Q) + Day
    BY <1>1 DEF DayOf
  <1>3. ASSUME q >= Q + 1 PROVE FALSE
    <2>1. Day * q >= Day * (Q + 1)
      BY <1>1, <1>2, <1>3
    <2>2. Day * (Q + 1) = (Day * Q) + Day
      BY <1>1, <1>2
    <2>3. Day * q \in Int /\ Day * Q \in Int
      BY <1>1, <1>2
    <2>4. QED
      BY <1>1, <1>2, <2>1, <2>2, <2>3
  <1>4. QED
    BY <1>2, <1>3

LEMMA ClockInit == Init => ClockInv
  <1> SUFFICES ASSUME Init PROVE ClockInv
    OBVIOUS
  <1>1. Start \in 0 .. MaxNow /\ MaxNow \in Nat /\ 0 \in 0 .. Looks
    BY DayAssumption DEF DayAssumption
  <1>2. QED
    BY <1>1 DEF Init, ClockInv, Fresh

\* The clock stands still but in Advance, and an earlier opening is one still.
LEMMA ClockNext == ClockInv /\ OnceInv /\ LockInv /\ [Next]_vars => ClockInv'
  <1> SUFFICES ASSUME ClockInv, OnceInv, LockInv, [Next]_vars PROVE ClockInv'
    OBVIOUS
  <1>0. MaxNow \in Nat /\ Looks \in Nat \ {0} /\ now \in Nat
    BY DayAssumption DEF DayAssumption, ClockInv
  <1> DEFINE DayCame(j) == j # None /\ j.step # "exit" => j.day \in 0 .. DayOf(MaxNow)
  <1>1. CASE Advance
    <2>1. now' \in 0 .. MaxNow /\ opened' \in [Trade -> 0 .. now']
      BY <1>0, <1>1 DEF Advance, ClockInv, tradeVars
    <2>2. guard'.breach \in 0 .. Looks
      BY <1>0, <1>1 DEF Advance, LockInv, GuardType, ClockInv
    <2>3. QED
      BY <1>1, <2>1, <2>2 DEF Advance, ClockInv
  <1>2. CASE EditEntry \/ Crash \/ Restore
    <2>1. guard'.breach \in 0 .. Looks /\ life' \in {"starting", "up"}
      BY <1>0, <1>2 DEF EditEntry, Crash, Restore, Fresh, LockInv, GuardType, ClockInv
    <2>2. QED
      BY <1>2, <2>1 DEF EditEntry, Crash, Restore, ClockInv, tradeVars
  <1>3. ASSUME NEW t \in Trade, EntryFills(t) \/ Poll(t) PROVE ClockInv'
    <2>1. opened' \in [Trade -> 0 .. now]
      BY <1>0, <1>3 DEF EntryFills, Poll, FindsFill, FindsClosed, EntryEnds, FollowUp, ClockInv
    <2>2. QED
      BY <1>3, <2>1 DEF EntryFills, Poll, ClockInv
  <1>4. ASSUME Runner PROVE ClockInv'
    <2>1. UNCHANGED <<now, opened, guard, life>>
      BY <1>4 DEF Runner, PassBegins, ExitDue, ConsiderEntry, Claim, Opens, Gate, Send,
                  tradeVars
    <2>2. runs' \subseteq Nat
      <3>1. Claim => job.day \in Nat
        BY ScheduleAssumption
           DEF Claim, OnceInv, JobInv, ExitJob, ClaimJob, OpenJob, LegJob, ScheduleAssumption
      <3>2. QED
        BY <1>4, <3>1 DEF Runner, PassBegins, ExitDue, ConsiderEntry, Claim, Opens, Gate,
                          Send, ClockInv
    <2>3. DayCame(job')
      <3>1. CASE PassBegins
        BY <3>1 DEF PassBegins
      <3>2. ASSUME NEW t \in Trade, ExitDue(t) PROVE DayCame(job')
        BY <3>2 DEF ExitDue, OnceInv, JobInv, ExitJob, ClaimJob, OpenJob, LegJob
      <3>3. ASSUME ConsiderEntry, job' # None PROVE DayCame(job')
        <4>1. /\ job'.day = SlotDay(job.entry, now) /\ job'.day \in RunDays
              /\ job.entry \in Time
          BY <3>3 DEF ConsiderEntry, EntryDue, OnceInv, JobInv, ExitJob, ClaimJob,
                      OpenJob, LegJob
        <4>2. job'.day \in Nat
          BY <4>1, ScheduleAssumption DEF ScheduleAssumption
        <4>3. SlotAt(job.entry, now) \in Int /\ SlotAt(job.entry, now) <= MaxNow
          BY <1>0, <4>1, ScheduleAssumption
             DEF ScheduleAssumption, SlotAt, Since, Forward, TimeOf, Time, ClockInv
        <4>4. job'.day <= DayOf(MaxNow)
          BY <1>0, <4>1, <4>3, DayMonotone DEF SlotDay
        <4>5. DayOf(MaxNow) \in Nat
          BY <1>0, MomentParts
        <4>6. QED
          BY <4>2, <4>4, <4>5
      <3>4. ASSUME Claim PROVE DayCame(job')
        BY <3>4 DEF Claim, Selling, ClockInv
      <3>5. ASSUME NEW l \in Legs, Opens(l) PROVE DayCame(job')
        BY <3>5 DEF Opens, ClockInv
      <3>6. ASSUME Gate \/ Send PROVE DayCame(job')
        <4>1. job \in LegJob
          BY <3>6 DEF Gate, Send, OnceInv, JobInv, ExitJob, ClaimJob, OpenJob, LegJob
        <4>2. QED
          BY <3>6, <4>1 DEF Gate, Send, Selling, ClockInv, LegJob
      <3>7. CASE job' = None
        BY <3>7
      <3>8. QED
        BY <1>4, <3>1, <3>2, <3>3, <3>4, <3>5, <3>6, <3>7 DEF Runner
    <2>4. QED
      BY <2>1, <2>2, <2>3 DEF ClockInv
  <1>5. ASSUME Guard PROVE ClockInv'
    <2>1. UNCHANGED <<now, runs, life, job>> /\ opened' \in [Trade -> 0 .. now]
      <3>1. UNCHANGED <<now, runs, life, job>>
        BY <1>5 DEF Guard, Look, ListOpen, WriteHit, PullEntry, CloseListed
      <3>2. ASSUME NEW t \in Trade, PullEntry(t) PROVE opened' \in [Trade -> 0 .. now]
        <4>1. UNCHANGED opened \/ opened' = [opened EXCEPT ![t] = now]
          BY <3>2 DEF PullEntry, TakesOff, tradeVars, ClockInv
        <4>2. QED
          BY <1>0, <4>1 DEF ClockInv
      <3>3. CASE UNCHANGED opened
        BY <3>1, <3>3 DEF ClockInv
      <3>4. QED
        BY <1>5, <3>1, <3>2, <3>3
           DEF Guard, Look, ListOpen, WriteHit, CloseListed, tradeVars
    <2>2. guard'.breach \in 0 .. Looks
      <3>1. CASE UNCHANGED guard
        BY <3>1 DEF ClockInv
      <3>2. CASE Look
        <4>1. GuardType
          BY DEF LockInv
        <4>2. CASE guard' = [guard EXCEPT !.breach = 0]
          BY <1>0, <4>1, <4>2 DEF GuardType
        <4>3. CASE ~(guard' = [guard EXCEPT !.breach = 0])
          <5> DEFINE Seen(s) == IF guard.base # <<Today, s.from>> THEN 0 ELSE guard.breach
                     Based(s) == [guard EXCEPT !.base = <<Today, s.from>>]
          <5>1. PICK s \in Sessions :
                  \/ guard' = [Based(s) EXCEPT !.breach = 0]
                  \/ Seen(s) < Looks /\ guard' = [Based(s) EXCEPT !.breach = Seen(s) + 1]
                  \/ guard' = [Based(s) EXCEPT !.breach = 0, !.lock = Today]
            BY <3>2, <4>3, Zenon DEF Look
          <5>2. Seen(s) \in 0 .. Looks
            BY <1>0 DEF ClockInv
          <5>3. "breach" \in DOMAIN Based(s)
            BY <4>1 DEF GuardType
          <5> HIDE DEF Seen, Based
          <5>4. guard'.breach = 0 \/ (Seen(s) < Looks /\ guard'.breach = Seen(s) + 1)
            BY <5>1, <5>3
          <5>5. QED
            BY <1>0, <5>2, <5>4
        <4>4. QED
          BY <4>2, <4>3
      <3>3. QED
        BY <1>5, <3>1, <3>2 DEF Guard, ListOpen, WriteHit, PullEntry, CloseListed
    <2>3. QED
      BY <2>1, <2>2 DEF ClockInv
  <1>6. CASE UNCHANGED vars
    BY <1>6 DEF vars, tradeVars, ClockInv
  <1>7. QED
    BY <1>1, <1>2, <1>3, <1>4, <1>5, <1>6 DEF Next

-----------------------------------------------------------------------------
\* The trade a pass has on hand: its record is written, its order is not out.
OnHand == IF job # None /\ job.step \in {"gate", "send"} THEN {Selected} ELSE {}

\* The exchange and the record: what is held is sold, and what is on the book or
\* sold has been sent.
BookInv ==
    /\ resting \cup short \subseteq Trade
    /\ InPhase("held") \subseteq short
    /\ \A t \in resting \cup short : rec[t] \notin {"none", "new"} /\ t \notin OnHand

LEMMA BookInit == Init => BookInv
  BY DEF Init, BookInv, InPhase

\* A step that sends nothing: what leaves the book leaves it, what is filled was
\* on it, what is no longer sold is over.
LEMMA BookKept ==
  ASSUME BookInv,
         resting' \subseteq resting, short' \subseteq short \cup resting,
         OnHand' \subseteq OnHand,
         \A t \in Trade :
           /\ rec'[t] = "held" => t \in short'
           /\ rec'[t] \in {"none", "new"} => rec[t] \in {"none", "new"}
  PROVE  BookInv'
  <1>1. resting' \cup short' \subseteq Trade /\ InPhase("held")' \subseteq short'
    BY DEF BookInv, InPhase
  <1>2. ASSUME NEW t \in resting' \cup short'
        PROVE  rec'[t] \notin {"none", "new"} /\ t \notin OnHand'
    BY <1>1, <1>2 DEF BookInv
  <1>3. QED
    BY <1>1, <1>2 DEF BookInv

\* A close leaves what is held on sold.
LEMMA CloseOfHeld ==
  ASSUME rec \in [Trade -> Phase], \A t \in Trade : rec[t] = "held" => t \in short,
         NEW t, BuysBack(t) \/ FailedClose(t)
  PROVE  /\ short' \subseteq short
         /\ \A u \in Trade :
              /\ rec'[u] = "held" => u \in short'
              /\ rec'[u] \in {"none", "new"} => rec[u] \in {"none", "new"}
  BY DEF BuysBack, FailedClose

\* The runner sends only what it has on hand.
LEMMA BookRunner == BookInv /\ OnceInv /\ ClockInv /\ Runner => BookInv'
  <1> SUFFICES ASSUME BookInv, OnceInv, ClockInv, Runner PROVE BookInv'
    OBVIOUS
  <1>0. /\ rec \in [Trade -> Phase]
        /\ \A t \in Trade : rec[t] = "held" => t \in short
    BY DEF OnceInv, RunsInv, BookInv, InPhase
  <1>1. CASE PassBegins \/ ConsiderEntry \/ Claim
    <2>1. UNCHANGED <<rec, resting, short>>
      BY <1>1 DEF PassBegins, ConsiderEntry, Claim, tradeVars, marketVars
    <2>2. OnHand' = {}
      BY <1>1 DEF PassBegins, ConsiderEntry, Claim, Selling, OnHand
    <2>3. QED
      BY <1>0, <2>1, <2>2, BookKept DEF BookInv
  <1>2. ASSUME NEW t \in Trade, ExitDue(t) PROVE BookInv'
    <2>1. OnHand' = {}
      <3>1. job \in ExitJob
        BY <1>2 DEF ExitDue, OnceInv, JobInv, ExitJob, ClaimJob, OpenJob, LegJob
      <3>2. QED
        BY <1>2, <3>1 DEF ExitDue, OnHand, ExitJob
    <2>2. /\ UNCHANGED resting /\ short' \subseteq short
          /\ \A u \in Trade :
               /\ rec'[u] = "held" => u \in short'
               /\ rec'[u] \in {"none", "new"} => rec[u] \in {"none", "new"}
      <3>1. CASE BuysBack(t) \/ FailedClose(t)
        BY <1>0, <1>2, <3>1, CloseOfHeld DEF ExitDue
      <3>2. CASE UNCHANGED <<rec, short>>
        BY <1>0, <1>2, <3>2 DEF ExitDue
      <3>3. QED
        BY <1>2, <3>1, <3>2 DEF ExitDue
    <2>3. QED
      BY <2>1, <2>2, BookKept DEF BookInv
  <1>3. ASSUME NEW l \in Legs, Opens(l) PROVE BookInv'
    <2>1. job \in OpenJob /\ ToSell(job)
      BY <1>3 DEF Opens, OnceInv, JobInv, ExitJob, ClaimJob, OpenJob, LegJob
    <2>2. /\ UNCHANGED <<resting, short>> /\ OnHand' \subseteq {<<job.day, l>>}
          /\ \A t \in Trade \ {<<job.day, l>>} : rec'[t] = rec[t]
          /\ <<job.day, l>> \in Trade => rec'[<<job.day, l>>] = "new"
      BY <1>0, <1>3 DEF Opens, OnHand, Selected, marketVars
    <2>3. <<job.day, l>> \in Trade => rec[<<job.day, l>>] = "none"
      BY <1>3, <2>1 DEF Opens, ToSell
    <2>4. QED
      BY <2>2, <2>3 DEF BookInv, InPhase
  <1>4. CASE Gate
    <2>1. UNCHANGED <<resting, short>> /\ OnHand' \subseteq OnHand
      BY <1>4 DEF Gate, Selling, OnHand, Selected, marketVars, OnceInv, JobInv,
                  ExitJob, ClaimJob, OpenJob, LegJob
    <2>2. \A u \in Trade : rec'[u] = rec[u] \/ rec'[u] = "done"
      BY <1>0, <1>4 DEF Gate
    <2>3. QED
      BY <1>0, <2>1, <2>2, BookKept DEF BookInv
  <1>5. CASE Send
    <2>1. job \in LegJob /\ OnHand = {Selected} /\ OnHand' = {} /\ UNCHANGED short
      BY <1>5 DEF Send, Selling, OnHand, OnceInv, JobInv, ExitJob, ClaimJob, OpenJob, LegJob
    <2>2. /\ \A u \in Trade \ {Selected} : rec'[u] = rec[u]
          /\ Selected \in Trade => rec'[Selected] \in {"working", "done"}
          /\ resting' \subseteq resting \cup {Selected}
      BY <1>0, <1>5 DEF Send
    <2>3. Selected \notin short /\ Selected \notin resting
      BY <2>1 DEF BookInv
    <2>4. Selected \in Trade
      BY <2>1 DEF LegJob, ClockInv, Selected, Trade, OnHand
    <2>5. QED
      BY <1>0, <2>1, <2>2, <2>3, <2>4 DEF BookInv, InPhase
  <1>6. QED
    BY <1>1, <1>2, <1>3, <1>4, <1>5 DEF Runner

LEMMA BookGuard == BookInv /\ OnceInv /\ Guard => BookInv'
  <1> SUFFICES ASSUME BookInv, OnceInv, Guard PROVE BookInv'
    OBVIOUS
  <1>0. /\ rec \in [Trade -> Phase] /\ OnHand' = OnHand
        /\ \A t \in Trade : rec[t] = "held" => t \in short
    BY DEF OnceInv, RunsInv, BookInv, InPhase, OnHand, Selected,
           Guard, Look, ListOpen, WriteHit, PullEntry, CloseListed
  <1>1. CASE Look \/ ListOpen \/ WriteHit
    <2>1. UNCHANGED <<rec, resting, short>>
      BY <1>1 DEF Look, ListOpen, WriteHit, tradeVars, marketVars
    <2>2. QED
      BY <1>0, <2>1, BookKept DEF BookInv
  <1>2. ASSUME NEW t \in Trade, PullEntry(t) PROVE BookInv'
    <2>1. /\ resting' \subseteq resting /\ short' \subseteq short \cup resting
          /\ short \subseteq short'
      BY <1>0, <1>2, PullMoves
    <2>2. \A u \in Trade : \/ rec'[u] = rec[u]
                           \/ rec'[u] = "done"
                           \/ rec'[u] = "held" /\ u \in short'
      BY <1>0, <1>2, PullMoves
    <2>3. QED
      BY <1>0, <2>1, <2>2, BookKept
  <1>3. ASSUME NEW t \in Trade, CloseListed(t) PROVE BookInv'
    <2>1. UNCHANGED resting /\ (BuysBack(t) \/ FailedClose(t))
      BY <1>3 DEF CloseListed
    <2>2. /\ short' \subseteq short
          /\ \A u \in Trade :
               /\ rec'[u] = "held" => u \in short'
               /\ rec'[u] \in {"none", "new"} => rec[u] \in {"none", "new"}
      BY <1>0, <2>1, CloseOfHeld
    <2>3. QED
      BY <1>0, <2>1, <2>2, BookKept
  <1>4. QED
    BY <1>1, <1>2, <1>3 DEF Guard

LEMMA BookNext == BookInv /\ OnceInv /\ ClockInv /\ [Next]_vars => BookInv'
  <1> SUFFICES ASSUME BookInv, OnceInv, ClockInv, [Next]_vars PROVE BookInv'
    OBVIOUS
  <1>0. /\ rec \in [Trade -> Phase]
        /\ \A t \in Trade : rec[t] = "held" => t \in short
    BY DEF OnceInv, RunsInv, BookInv, InPhase
  <1>1. CASE Advance \/ EditEntry \/ Crash \/ Restore \/ UNCHANGED vars
    <2>1. UNCHANGED <<rec, resting, short>> /\ OnHand' \subseteq OnHand
      BY <1>1 DEF Advance, EditEntry, Crash, Restore, vars, tradeVars, marketVars,
                  OnHand, Selected
    <2>2. QED
      BY <1>0, <2>1, BookKept DEF BookInv
  <1>2. ASSUME NEW t \in Trade, EntryFills(t) PROVE BookInv'
    <2>1. /\ resting' \subseteq resting /\ short \subseteq short'
          /\ short' \subseteq short \cup resting
          /\ OnHand' = OnHand /\ UNCHANGED rec
      BY <1>2 DEF EntryFills, BookInv, OnHand, Selected
    <2>2. QED
      BY <1>0, <2>1, BookKept
  <1>3. ASSUME NEW t \in Trade, Poll(t) PROVE BookInv'
    <2>1. /\ resting' \subseteq resting /\ OnHand' = OnHand
          /\ short' \subseteq short /\ short \ {t} \subseteq short'
          /\ t \notin short' => t \notin short \/ rec'[t] = "done"
      BY <1>0, <1>3
         DEF Poll, FindsFill, FindsClosed, EntryEnds, FollowUp, BuysBack, OnHand, Selected,
             marketVars
    <2>2. \A u \in Trade : \/ rec'[u] = rec[u]
                           \/ rec'[u] = "done"
                           \/ rec'[u] = "held" /\ u \in short'
      BY <1>0, <1>3, PollMoves
    <2>3. \A u \in Trade : rec'[u] = "held" => u \in short'
      BY <1>0, <2>1, <2>2
    <2>4. QED
      BY <2>1, <2>2, <2>3, BookKept
  <1>4. QED
    BY <1>1, <1>2, <1>3, BookRunner, BookGuard DEF Next

-----------------------------------------------------------------------------
\* The square-off of the day, from its listing on: what is at the exchange was
\* not to be closed, has failed, or is still to be closed; what may yet come to
\* the exchange was on its way.
LeftInv ==
    At("pull") /\ square.day = Today =>
      /\ short \cup resting \subseteq square.loose \cup square.failed \cup square.close
      /\ OnItsWay \subseteq square.loose \cup square.failed
      /\ square.over => square.close = {}

\* A step that leaves the square-off as it is, and brings nothing to the exchange
\* but what was on its way.
LEMMA LeftKept ==
  ASSUME LeftInv, UNCHANGED <<now, square>>,
         At("pull") /\ square.day = Today =>
           /\ short' \cup resting' \subseteq short \cup resting \cup OnItsWay
           /\ OnItsWay' \subseteq OnItsWay
  PROVE  LeftInv'
  <1> SUFFICES ASSUME At("pull"), square.day = Today
               PROVE  LeftInv'
    BY DEF LeftInv, At, Today
  <1>1. /\ short' \cup resting' \subseteq square.loose \cup square.failed \cup square.close
        /\ OnItsWay' \subseteq square.loose \cup square.failed
        /\ square.over => square.close = {}
    BY DEF LeftInv
  <1>2. QED
    BY <1>1 DEF LeftInv

\* The pass under way: past the gates of a stopped account goes only what was
\* on its way when the square-off listed the trades.
LEMMA LeftRunner == LeftInv /\ OnceInv /\ LockInv /\ Runner => LeftInv'
  <1> SUFFICES ASSUME LeftInv, OnceInv, LockInv, Runner PROVE LeftInv'
    OBVIOUS
  <1>0. rec \in [Trade -> Phase] /\ UNCHANGED <<now, square>>
    BY DEF OnceInv, RunsInv, Runner, PassBegins, ExitDue, ConsiderEntry, Claim, Opens,
           Gate, Send
  <1>1. CASE PassBegins \/ ConsiderEntry \/ Claim \/ \E l \in Legs : Opens(l)
    <2>1. UNCHANGED <<short, resting>>
      BY <1>1 DEF PassBegins, ConsiderEntry, Claim, Opens, tradeVars, marketVars
    <2>2. OnItsWay' = {}
      <3>1. CASE PassBegins
        BY <3>1 DEF PassBegins, OnItsWay
      <3>2. CASE ConsiderEntry \/ Claim
        BY <3>2 DEF ConsiderEntry, Claim, Selling, OnItsWay
      <3>3. CASE \E l \in Legs : Opens(l)
        BY <3>3 DEF Opens, OnItsWay
      <3>4. QED
        BY <1>1, <3>1, <3>2, <3>3
    <2>3. QED
      BY <1>0, <2>1, <2>2, LeftKept
  <1>2. ASSUME NEW t \in Trade, ExitDue(t) PROVE LeftInv'
    <2>1. short' \subseteq short /\ UNCHANGED resting
      BY <1>0, <1>2, CloseMoves DEF ExitDue
    <2>2. OnItsWay' = {}
      <3>1. job \in ExitJob
        BY <1>2 DEF ExitDue, OnceInv, JobInv, ExitJob, ClaimJob, OpenJob, LegJob
      <3>2. QED
        BY <1>2, <3>1 DEF ExitDue, OnItsWay, ExitJob
    <2>3. QED
      BY <1>0, <2>1, <2>2, LeftKept
  <1>3. CASE Gate
    <2>1. UNCHANGED <<short, resting>>
      BY <1>3 DEF Gate, marketVars
    <2>2. ASSUME At("pull"), square.day = Today PROVE OnItsWay' = {}
      <3>1. Blocked
        BY <2>2 DEF At, LockInv, Blocked
      <3>2. QED
        BY <1>3, <3>1 DEF Gate, Selling, OnItsWay
    <2>3. QED
      BY <1>0, <2>1, <2>2, LeftKept
  <1>4. CASE Send
    <2>1. UNCHANGED short /\ resting' \subseteq resting \cup {Selected}
      BY <1>4 DEF Send
    <2>2. OnItsWay = {Selected} /\ OnItsWay' = {}
      BY <1>4 DEF Send, Selling, OnItsWay
    <2>3. QED
      BY <1>0, <2>1, <2>2, LeftKept
  <1>5. QED
    BY <1>1, <1>2, <1>3, <1>4 DEF Runner

\* The square-off itself: what it lists, what it closes, what it ends on.
LEMMA LeftGuard == LeftInv /\ OnceInv /\ ClockInv /\ BookInv /\ Guard => LeftInv'
  <1> SUFFICES ASSUME LeftInv, OnceInv, ClockInv, BookInv, Guard PROVE LeftInv'
    OBVIOUS
  <1>0. /\ rec \in [Trade -> Phase] /\ UNCHANGED <<now, job>>
        /\ Today' = Today /\ OnItsWay' = OnItsWay
        /\ At("pull") => square \in PullSquare
    BY DEF OnceInv, RunsInv, PullInv, At, ListSquare, PullSquare, Today, OnItsWay, Selected,
           Guard, Look, ListOpen, WriteHit, PullEntry, CloseListed
  <1>1. CASE Look
    <2>1. UNCHANGED <<short, resting>>
      BY <1>1 DEF Look, tradeVars, marketVars
    <2>2. \/ UNCHANGED square
          \/ square' = [step |-> "list", day |-> Today, over |-> FALSE]
      BY <1>1, Zenon DEF Look
    <2>3. QED
      BY <1>0, <2>1, <2>2 DEF LeftInv, At
  <1>2. CASE ListOpen
    <2>1. UNCHANGED <<short, resting>>
      BY <1>2 DEF ListOpen, tradeVars, marketVars
    <2>2. /\ square'.over = FALSE
          /\ \/ /\ square'.loose = (InPhase("new") \cup InPhase("working")) \cup OnItsWay
                                  \cup (InPhase("done") \cap (short \cup resting))
                /\ square'.close = Held
             \/ square'.failed = Trade
      BY <1>2 DEF ListOpen
    <2>3. CASE /\ square'.loose = (InPhase("new") \cup InPhase("working")) \cup OnItsWay
                                \cup (InPhase("done") \cap (short \cup resting))
               /\ square'.close = Held
      <3>1. ASSUME NEW t \in short \cup resting
            PROVE  t \in square'.loose \cup square'.close
        <4>1. t \in Trade /\ rec[t] \in Phase /\ rec[t] # "none"
          BY <1>0 DEF BookInv
        <4>2. QED
          BY <2>3, <4>1 DEF Phase, Held, InPhase
      <3>2. QED
        BY <1>0, <2>1, <2>2, <2>3, <3>1 DEF LeftInv
    <2>4. CASE square'.failed = Trade
      <3>1. OnItsWay \subseteq Trade
        <4>1. job # None /\ job.step = "send" =>
                job.day \in 0 .. DayOf(MaxNow) /\ job.leg \in Legs
          BY DEF ClockInv, OnceInv, JobInv, ExitJob, ClaimJob, OpenJob, LegJob
        <4>2. QED
          BY <4>1 DEF OnItsWay, Selected, Trade
      <3>2. QED
        BY <1>0, <2>1, <2>2, <2>4, <3>1 DEF LeftInv, BookInv
    <2>5. QED
      BY <2>2, <2>3, <2>4
  <1>3. CASE WriteHit
    <2>1. /\ square \in PullSquare /\ square.close = {}
          /\ square' = [square EXCEPT !.over = TRUE]
      BY <1>0, <1>3 DEF WriteHit
    <2>2. /\ square'.day = square.day /\ square'.close = {}
          /\ square'.loose = square.loose /\ square'.failed = square.failed
      BY <2>1 DEF PullSquare
    <2>3. UNCHANGED <<short, resting>> /\ At("pull")
      BY <1>3 DEF WriteHit, tradeVars, marketVars
    <2>4. QED
      BY <1>0, <2>1, <2>2, <2>3 DEF LeftInv
  <1>4. ASSUME NEW t \in Trade, PullEntry(t) PROVE LeftInv'
    <2>1. At("pull") /\ square \in PullSquare
      BY <1>0, <1>4 DEF PullEntry
    <2>2. /\ square'.day = square.day /\ square'.close = square.close
          /\ square'.loose = square.loose /\ square.failed \subseteq square'.failed
          /\ square'.over = square.over
      BY <1>4, <2>1 DEF PullEntry, PullSquare
    <2>3. short' \cup resting' \subseteq short \cup resting
      BY <1>0, <1>4, PullMoves
    <2>4. QED
      BY <1>0, <2>1, <2>2, <2>3 DEF LeftInv
  <1>5. ASSUME NEW t \in Trade, CloseListed(t) PROVE LeftInv'
    <2>1. At("pull") /\ square \in PullSquare /\ t \in square.close /\ UNCHANGED resting
      BY <1>0, <1>5 DEF CloseListed
    <2>2. CASE /\ FailedClose(t)
               /\ square' = [square EXCEPT !.close = @ \ {t}, !.failed = @ \cup {t}]
      <3>1. /\ square'.day = square.day /\ square'.over = square.over
            /\ square'.close = square.close \ {t}
            /\ square'.loose = square.loose /\ square'.failed = square.failed \cup {t}
        BY <2>1, <2>2 DEF PullSquare
      <3>2. short' \subseteq short
        BY <1>0, <2>2, CloseMoves
      <3>3. QED
        BY <1>0, <2>1, <3>1, <3>2 DEF LeftInv
    <2>3. CASE /\ BuysBack(t)
               /\ square' = [square EXCEPT !.close = @ \ {t}, !.loose = @ \cup Loose(t)]
      <3>1. /\ square'.day = square.day /\ square'.over = square.over
            /\ square'.close = square.close \ {t}
            /\ square'.loose = square.loose \cup Loose(t) /\ square'.failed = square.failed
        BY <2>1, <2>3 DEF PullSquare
      <3>2. short' = short \ {t} /\ (t \in resting => t \in Loose(t))
        BY <2>3 DEF BuysBack, Loose
      <3>3. QED
        BY <1>0, <2>1, <3>1, <3>2 DEF LeftInv
    <2>4. QED
      BY <1>5, <2>2, <2>3 DEF CloseListed
  <1>6. QED
    BY <1>1, <1>2, <1>3, <1>4, <1>5 DEF Guard

LEMMA LeftNext ==
    LeftInv /\ OnceInv /\ LockInv /\ ClockInv /\ BookInv /\ [Next]_vars => LeftInv'
  <1> SUFFICES ASSUME LeftInv, OnceInv, LockInv, ClockInv, BookInv, [Next]_vars
               PROVE  LeftInv'
    OBVIOUS
  <1>1. CASE Advance
    <2>1. /\ UNCHANGED <<square, short, resting, job>>
          /\ At("pull") => square.day <= Today /\ square.day \in Nat
          /\ Today \in Nat /\ Today' \in Nat /\ Today <= Today'
      BY <1>1, DayMovesOn DEF Advance, tradeVars, marketVars, LockInv, At
    <2>2. At("pull") /\ square.day = Today' => square.day = Today
      BY <2>1
    <2>3. QED
      BY <2>1, <2>2 DEF LeftInv, At, OnItsWay, Selected
  <1>2. CASE EditEntry \/ Restore \/ UNCHANGED vars
    BY <1>2, LeftKept
       DEF EditEntry, Restore, vars, tradeVars, marketVars, OnItsWay, Selected
  <1>3. CASE Crash
    BY <1>3 DEF Crash, LeftInv, At
  <1>4. ASSUME NEW t \in Trade, EntryFills(t) \/ Poll(t) PROVE LeftInv'
    <2>1. short' \cup resting' \subseteq short \cup resting
      BY <1>4, PollMoves DEF EntryFills, OnceInv, RunsInv
    <2>2. UNCHANGED <<now, square, job>>
      BY <1>4 DEF EntryFills, Poll
    <2>3. QED
      BY <2>1, <2>2, LeftKept DEF OnItsWay, Selected
  <1>5. QED
    BY <1>1, <1>2, <1>3, <1>4, LeftRunner, LeftGuard DEF Next

\* For any legs and any interleaving of the square-off with the runner, the fills
\* and the loop: once it is over, what is at the exchange that day was none of
\* what it was to close -- flat or over on the record when it came to it, or the
\* rest of an entry filled in part -- or is named as failed.
THEOREM SquareOffNamesTheRest == Spec => []StopLeavesNothing
  <1>1. Init => LeftInv
    BY DEF Init, LeftInv, At
  <1>2. LeftInv /\ OnceInv => StopLeavesNothing
    BY DEF LeftInv, OnceInv, PullInv, ListSquare, PullSquare, At, StopLeavesNothing
  <1>3. QED
    BY <1>1, <1>2, OnceInit, OnceNext, LockInit, LockNext, ClockInit, ClockNext,
       BookInit, BookNext, LeftNext, PTL DEF Spec

-----------------------------------------------------------------------------
\* The day's state is well formed, for any legs, times and sessions: what is held
\* is sold, and opened no later than now.
THEOREM DayIsWellFormed == Spec => []TypeOK
  <1>1. OnceInv /\ LockInv /\ ClockInv /\ BookInv => TypeOK
    <2> SUFFICES ASSUME OnceInv, LockInv, ClockInv, BookInv PROVE TypeOK
      OBVIOUS
    <2>1. /\ now \in Nat /\ entry \in Time /\ runs \subseteq Nat /\ hits \subseteq Nat
          /\ guard.breach \in 0 .. Looks /\ life \in {"starting", "up"}
      BY DEF OnceInv, RunsInv, LockInv, ClockInv
    <2>2. \A t \in Trade :
            /\ rec[t] \in {"none", "new", "working", "held", "closing", "done"}
            /\ opened[t] \in 0 .. now
            /\ rec[t] = "held" => t \in short
      BY DEF OnceInv, RunsInv, Phase, ClockInv, BookInv, InPhase
    <2>3. job # None => /\ job.step \in {"exit", "claim", "open", "gate", "send"}
                        /\ job.missed \subseteq Trade
      BY DEF OnceInv, JobInv, ExitJob, ClaimJob, OpenJob, LegJob
    <2>4. square # None => square.step \in {"list", "pull"} /\ square.day <= Today
      BY DEF OnceInv, PullInv, ListSquare, PullSquare, LockInv
    <2>5. QED
      BY <2>1, <2>2, <2>3, <2>4 DEF TypeOK, BookInv
  <1>2. QED
    BY <1>1, OnceInit, OnceNext, LockInit, LockNext, ClockInit, ClockNext, BookInit, BookNext,
       PTL DEF Spec

=============================================================================
