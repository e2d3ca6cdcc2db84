-------------------------- MODULE BoardFeedProofs --------------------------
(***************************************************************************)
(* BoardFeed for every board and every set of times: its types, that a     *)
(* settled contract leaves the board, and that off the socket the poll     *)
(* keeps the board young.                                                  *)
(***************************************************************************)
EXTENDS BoardFeed, TLAPS

USE FeedAssumption

-----------------------------------------------------------------------------
(* Ages *)

\* An age is counted by one, as far as what compares it.
LEMMA OlderIsAge ==
    ASSUME NEW cap \in Nat, NEW age \in Ages(cap)
    PROVE  /\ Older(age, cap) \in Ages(cap)
           /\ Older(age, cap) = None <=> age = None
           /\ age # None => /\ age \in Nat /\ Older(age, cap) \in 0 .. cap
                            /\ Older(age, cap) = age \/ Older(age, cap) = age + 1
                            /\ age < cap => Older(age, cap) = age + 1
                            /\ age >= cap => Older(age, cap) = cap
    BY DEF Older, Ages

\* What is pruned away are the old ages.
LEMMA PrunedKeeps ==
    ASSUME NEW ages \in [Contract -> Ages(Prune + 1)]
    PROVE  /\ Pruned(ages) \in [Contract -> Ages(Prune + 1)]
           /\ Holding(Pruned(ages)) \subseteq Contract
           /\ \A c \in Contract : c \in Holding(Pruned(ages))
                <=> ages[c] # None /\ ages[c] <= Prune
    BY DEF Pruned, Holding, Ages

\* The code's times, one by one.
LEMMA Times ==
    /\ Stale \in Nat \ {0} /\ PollEvery \in Nat \ {0} /\ Ttl \in Nat \ {0}
    /\ Prune \in Nat \ {0} /\ BackoffMax \in Nat \ {0}
    /\ Gap \in Nat /\ Oldest \in Nat \ {0} /\ Lingers \in Nat /\ LongDark \in Nat
    BY DEF Gap, Oldest, Lingers, LongDark

\* scheduleReconnect() keeps the timer and the wait within RECONNECT_MAX_MS.
LEMMA ReconnectIsTimed ==
    ASSUME backoff \in 1 .. BackoffMax, NEW w \in Ages(BackoffMax), ScheduleReconnect(w)
    PROVE  wait' \in Ages(BackoffMax) /\ backoff' \in 1 .. BackoffMax
    BY Times DEF ScheduleReconnect, Ages

-----------------------------------------------------------------------------
(* Types *)

\* Every reachable state has the types TypeOK names: no age runs past what
\* compares it, and the board is never an empty one.
THEOREM FeedTypeOK == Spec => []TypeOK
<1>1. Init => TypeOK
  <2> SUFFICES ASSUME Init PROVE TypeOK
    OBVIOUS
  <2>1. request \in [age : 0 .. Reply, data : (SUBSET Contract) \ {{}}]
    BY DEF Init
  <2>2. /\ gone \in [Contract -> Ages(Lingers + 1)] /\ held \in [Contract -> Ages(Prune + 1)]
        /\ \A c \in Contract \ Mortal : gone[c] = None
    BY DEF Init, Ages
  <2>3. /\ asked \in 0 .. Stale /\ heard \in 0 .. Stale /\ backoff \in 1 .. BackoffMax
        /\ polled \in 0 .. PollEvery /\ dark \in 0 .. LongDark
        /\ quiet \in 0 .. MaxQuiet /\ faults \in 0 .. MaxFaults
    BY Times DEF Init
  <2> QED
    BY <2>1, <2>2, <2>3 DEF Init, TypeOK, Ages
<1>2. TypeOK /\ [Next]_vars => TypeOK'
  <2> SUFFICES ASSUME TypeOK, [Next]_vars PROVE TypeOK'
    OBVIOUS
  <2> USE Times
  <2>1. CASE Second
    <3>1. /\ OlderAll(held, Prune + 1) \in [Contract -> Ages(Prune + 1)]
          /\ gone' \in [Contract -> Ages(Lingers + 1)]
      BY <2>1, OlderIsAge DEF TypeOK, Second, OlderAll
    <3>2. held' \in [Contract -> Ages(Prune + 1)]
      BY <2>1, <3>1, PrunedKeeps DEF Second
    <3>3. /\ asked' \in 0 .. Stale /\ heard' \in 0 .. Stale
          /\ dark' \in 0 .. LongDark /\ quiet' \in 0 .. MaxQuiet
      BY <2>1 DEF TypeOK, Second, Older
    <3>4. (IF wait = None THEN None ELSE wait - 1) \in Ages(BackoffMax)
      BY <2>1 DEF TypeOK, Second, Ages
    <3>5. /\ link' \in {"none", "asked", "hung", "open"}
          /\ wait' \in Ages(BackoffMax) /\ backoff' \in 1 .. BackoffMax
      <4>1. CASE Silent(asked', heard')
        BY <2>1, <3>4, <4>1, ReconnectIsTimed DEF TypeOK, Second
      <4>2. CASE ~Silent(asked', heard')
        BY <2>1, <3>4, <4>2 DEF TypeOK, Second
      <4> QED
        BY <4>1, <4>2
    <3>6. request' \in {None} \cup [age : 0 .. Reply, data : (SUBSET Contract) \ {{}}]
      BY <2>1 DEF TypeOK, Second
    <3>7. board' \in {None} \cup [at : 0 .. Oldest, data : (SUBSET Contract) \ {{}}]
      <4>1. CASE dirty /\ Holding(Pruned(OlderAll(held, Prune + 1))) # {}
        BY <2>1, <3>1, <4>1, PrunedKeeps DEF Second
      <4>2. CASE ~(dirty /\ Holding(Pruned(OlderAll(held, Prune + 1))) # {})
        BY <2>1, <4>2 DEF TypeOK, Second, Older
      <4> QED
        BY <4>1, <4>2
    <3>8. \A c \in Contract \ Mortal : gone'[c] = None
      BY <2>1 DEF TypeOK, Second, OlderAll, Older
    <3>9. /\ polled' \in 0 .. PollEvery
          /\ faults' \in 0 .. MaxFaults
          /\ dirty' \in BOOLEAN
      <4>1. polled' = polled + 1 /\ polled < PollEvery /\ faults' = faults
        BY <2>1 DEF Second
      <4>2. polled' \in 0 .. PollEvery
        BY <4>1 DEF TypeOK
      <4>3. faults' \in 0 .. MaxFaults
        BY <4>1 DEF TypeOK
      <4>4. dirty' \in BOOLEAN
        BY <2>1 DEF Second
      <4> QED
        BY <4>2, <4>3, <4>4
    <3> QED
      BY <3>1, <3>2, <3>3, <3>5, <3>6, <3>7, <3>8, <3>9 DEF TypeOK
  <2>2. CASE Reopen
    <3>1. wait' \in Ages(BackoffMax) /\ backoff' \in 1 .. BackoffMax
      BY <2>2, ReconnectIsTimed DEF TypeOK, Reopen, Ages
    <3> QED
      BY <2>2, <3>1 DEF TypeOK, Reopen, Fault, batch, rest
  <2>3. CASE Opens
    BY <2>3 DEF TypeOK, Opens, batch, rest
  <2>4. CASE Hangs
    BY <2>4 DEF TypeOK, Hangs, Fault, batch, rest, history
  <2>5. CASE Closes
    <3>1. wait' \in Ages(BackoffMax) /\ backoff' \in 1 .. BackoffMax
      BY <2>5, ReconnectIsTimed DEF TypeOK, Closes
    <3> QED
      BY <2>5, <3>1 DEF TypeOK, Closes, Fault, batch, rest, history
  <2>6. CASE Receive
    <3>1. held' \in [Contract -> Ages(Prune + 1)] /\ dirty' \in BOOLEAN
      <4>1. 0 \in Ages(Prune + 1)
        BY DEF Ages
      <4> QED
        BY <2>6, <4>1 DEF TypeOK, Receive, batch, Listed
    <3> QED
      BY <2>6, <3>1 DEF TypeOK, Receive, rest
  <2>7. Listed \in (SUBSET Contract) \ {{}}
    BY DEF TypeOK, Listed
  <2>8. CASE Poll
    BY <2>7, <2>8 DEF TypeOK, Poll, Fetch, socket, batch, history
  <2>9. CASE Read
    BY <2>7, <2>9 DEF TypeOK, Read, Fetch, socket, batch, history
  <2>10. CASE Answer
    BY <2>7, <2>10 DEF TypeOK, Answer, socket, history, Ages, Oldest, Gap
  <2>11. CASE Fails
    BY <2>11 DEF TypeOK, Fails, Fault, socket, batch
  <2>12. CASE Settles
    BY <2>12 DEF TypeOK, Settles, socket, batch, rest, history, Listed, Ages
  <2>13. CASE UNCHANGED vars
    BY <2>13 DEF TypeOK, vars, socket, batch, rest, history
  <2> QED
    BY <2>1, <2>2, <2>3, <2>4, <2>5, <2>6, <2>8, <2>9, <2>10, <2>11, <2>12, <2>13
    DEF Next
<1> QED
  BY <1>1, <1>2, PTL DEF Spec

-----------------------------------------------------------------------------
(* What settled leaves the board *)

\* What is held of a settled contract, and a list on its way that names it, are
\* at most a call older than the settlement.
SettledBefore ==
    \A c \in Contract :
      gone[c] # None =>
        /\ held[c] # None => gone[c] <= held[c] + Reply
        /\ request # None /\ c \in request.data => gone[c] <= request.age

\* A batch is handed on only with something that was just heard.
DirtyIsNew == dirty => \E c \in Contract : held[c] = 0

FeedInv == SettledBefore /\ DirtyIsNew

\* A second: every age of a contract is counted, and what is left of the batch
\* and of the call is no older beside its settlement than it was.
LEMMA SecondKeeps ==
    ASSUME TypeOK, FeedInv, Second
    PROVE  /\ FeedInv'
           /\ dirty => \A c \in board'.data : gone'[c] = None \/ gone'[c] <= Lingers
<1> USE Times
<1> DEFINE ages == OlderAll(held, Prune + 1)
<1>1. ages \in [Contract -> Ages(Prune + 1)]
  BY OlderIsAge DEF TypeOK, OlderAll
<1>2. ASSUME NEW c \in Contract, gone'[c] # None
      PROVE  /\ gone[c] # None /\ gone'[c] \in Nat /\ gone'[c] <= gone[c] + 1
             /\ ages[c] # None => gone'[c] <= ages[c] + Reply
  <2>1. /\ gone[c] \in Ages(Lingers + 1) /\ held[c] \in Ages(Prune + 1)
        /\ gone'[c] = Older(gone[c], Lingers + 1) /\ ages[c] = Older(held[c], Prune + 1)
    BY DEF TypeOK, Second, OlderAll
  <2>2. /\ gone[c] # None /\ gone[c] \in Nat /\ gone'[c] \in 0 .. Lingers + 1
        /\ gone'[c] <= gone[c] + 1
    BY <1>2, <2>1, OlderIsAge
  <2>3. ASSUME ages[c] # None PROVE gone'[c] <= ages[c] + Reply
    <3>1. held[c] # None /\ held[c] \in Nat /\ gone[c] <= held[c] + Reply
      BY <2>1, <2>2, <2>3, OlderIsAge DEF FeedInv, SettledBefore
    <3>2. CASE held[c] < Prune + 1
      <4>1. ages[c] = held[c] + 1
        BY <2>1, <3>1, <3>2, OlderIsAge
      <4> QED
        BY <2>2, <3>1, <4>1
    <3>3. CASE held[c] >= Prune + 1
      <4>1. ages[c] = Prune + 1
        BY <2>1, <3>1, <3>3, OlderIsAge
      <4> QED
        BY <2>2, <4>1 DEF Lingers
    <3> QED
      BY <3>1, <3>2, <3>3
  <2> QED
    BY <2>2, <2>3
<1>3. held' = IF dirty THEN Pruned(ages) ELSE ages
  BY DEF Second
<1>4. \A c \in Contract : held'[c] # None => held'[c] = ages[c]
  BY <1>3 DEF Pruned
<1>5. ASSUME NEW c \in Contract, request' # None, c \in request'.data, gone'[c] # None
      PROVE  gone'[c] <= request'.age
  <2>1. /\ request # None /\ request.age \in Nat
        /\ request'.age = request.age + 1 /\ request'.data = request.data
    BY <1>5 DEF TypeOK, Second
  <2>2. gone[c] <= request.age
    BY <1>2, <1>5, <2>1 DEF FeedInv, SettledBefore
  <2>3. gone[c] \in Nat
    BY <1>2, <1>5 DEF TypeOK, Ages
  <2> QED
    BY <1>2, <1>5, <2>1, <2>2, <2>3
<1>6. FeedInv'
  <2>1. SettledBefore'
    BY <1>2, <1>4, <1>5 DEF SettledBefore
  <2>2. ~dirty'
    BY DEF Second
  <2> QED
    BY <2>1, <2>2 DEF FeedInv, DirtyIsNew
<1>7. ASSUME dirty, NEW c \in board'.data PROVE gone'[c] = None \/ gone'[c] <= Lingers
  <2>1. PICK d \in Contract : held[d] = 0
    BY <1>7 DEF FeedInv, DirtyIsNew
  <2>2. ages[d] = 1 /\ ages[d] # None
    BY <2>1, OlderIsAge DEF OlderAll, Ages
  <2>3. d \in Holding(Pruned(ages))
    BY <1>1, <2>2, PrunedKeeps
  <2>4. board'.data = Holding(Pruned(ages))
    BY <1>7, <2>3 DEF Second
  <2>5. c \in Contract /\ ages[c] # None /\ ages[c] <= Prune
    BY <1>1, <1>7, <2>4, PrunedKeeps
  <2>6. ages[c] \in Nat
    BY <1>1, <2>5 DEF Ages
  <2> QED
    BY <1>2, <2>5, <2>6 DEF Lingers
<1> QED
  BY <1>6, <1>7

\* delta-socket.ts:40-41, 168-172: a batch the socket hands on shows no contract
\* past PRUNE_MS of the last list that could name it, whatever the times are.
THEOREM SettledLeave == Spec => DelistedGoes
<1>1. Init => FeedInv
  BY DEF Init, FeedInv, SettledBefore, DirtyIsNew
<1>2. TypeOK /\ FeedInv /\ [Next]_vars =>
        /\ FeedInv'
        /\ [dirty /\ ~dirty' =>
             \A c \in board'.data : gone'[c] = None \/ gone'[c] <= Lingers]_vars
  <2> SUFFICES ASSUME TypeOK, FeedInv, [Next]_vars
               PROVE  /\ FeedInv'
                      /\ dirty /\ ~dirty' =>
                           \A c \in board'.data : gone'[c] = None \/ gone'[c] <= Lingers
    OBVIOUS
  <2> USE Times
  <2>1. CASE Second
    BY <2>1, SecondKeeps
  <2>2. CASE Reopen \/ Opens \/ Hangs \/ Closes \/ UNCHANGED vars
    BY <2>2 DEF FeedInv, SettledBefore, DirtyIsNew, Reopen, Opens, Hangs, Closes,
      vars, batch, rest
  <2>3. CASE Receive
    <3>1. CASE UNCHANGED batch
      BY <2>3, <3>1 DEF FeedInv, SettledBefore, DirtyIsNew, Receive, batch, rest
    <3>2. ASSUME NEW c \in Listed, held' = [held EXCEPT ![c] = 0], dirty' = TRUE
          PROVE  FeedInv' /\ dirty'
      <4>1. held'[c] = 0 /\ c \in Contract /\ gone[c] = None
        BY <3>2 DEF TypeOK, Listed
      <4> QED
        BY <2>3, <3>2, <4>1 DEF FeedInv, SettledBefore, DirtyIsNew, Receive, rest
    <3> QED
      BY <2>3, <3>1, <3>2 DEF Receive, batch
  <2>4. CASE Poll
    BY <2>4 DEF FeedInv, SettledBefore, DirtyIsNew, Poll, Fetch, Listed, batch
  <2>5. CASE Read
    BY <2>5 DEF FeedInv, SettledBefore, DirtyIsNew, Read, Fetch, Listed, batch
  <2>6. CASE Answer
    <3>1. PICK b \in {[at |-> request.age, data |-> request.data], [at |-> 0, data |-> Listed]} :
            held' = [c \in Contract |-> IF c \in b.data THEN 0 ELSE None]
      BY <2>6 DEF Answer
    <3>2. \A c \in b.data : c \in Contract /\ (gone[c] # None => gone[c] <= Reply)
      BY <2>6, <3>1 DEF TypeOK, FeedInv, SettledBefore, Answer, Listed, Ages
    <3>3. b.data # {}
      <4>1. Listed # {}
        BY DEF TypeOK, Listed
      <4>2. request.data # {}
        BY <2>6 DEF TypeOK, Answer
      <4> QED
        BY <3>1, <4>1, <4>2
    <3> QED
      BY <2>6, <3>1, <3>2, <3>3 DEF FeedInv, SettledBefore, DirtyIsNew, Answer
  <2>7. CASE Fails
    BY <2>7 DEF FeedInv, SettledBefore, DirtyIsNew, Fails, batch
  <2>8. CASE Settles
    <3>1. PICK c \in Mortal \cap Listed : gone' = [gone EXCEPT ![c] = 0]
      BY <2>8 DEF Settles
    <3>2. \A x \in Contract : (held[x] # None => 0 <= held[x] + Reply)
                             /\ (request # None => 0 <= request.age)
      BY DEF TypeOK, Ages
    <3> QED
      BY <2>8, <3>1, <3>2 DEF TypeOK, FeedInv, SettledBefore, DirtyIsNew, Settles, batch, rest
  <2> QED
    BY <2>1, <2>2, <2>3, <2>4, <2>5, <2>6, <2>7, <2>8 DEF Next
<1> QED
  BY <1>1, <1>2, FeedTypeOK, PTL DEF Spec, DelistedGoes

-----------------------------------------------------------------------------
(* The poll is the feed once the socket is not *)

\* A fresh socket and a failed call begin the count anew.
DarkIsDark == Fresh => dark = 0

\* A turn of the poll in the dark has a call on its way, whoever asked; once
\* that is answered the board is no older than the turn and the call.
TurnAnswered ==
    dark > polled => \/ request # None
                     \/ board # None /\ board.at <= polled + Reply

\* A call that went out long enough into the dark found the board of the turn
\* before it.
CallOverBoard ==
    request # None /\ dark - request.age > PollEvery =>
        board # None /\ board.at <= request.age + PollEvery + Reply

GapInv == DarkIsDark /\ TurnAnswered /\ CallOverBoard

LEMMA GapInit == Init => GapInv
BY DEF Init, GapInv, DarkIsDark, TurnAnswered, CallOverBoard, Fresh

\* A second: the board and the call on its way grow older together, the turn
\* too.
LEMMA SecondKeepsGap ==
    ASSUME TypeOK, GapInv, Second
    PROVE  GapInv'
<1> USE Times
<1>1. DarkIsDark'
  <2>1. dark' = IF Fresh' THEN 0 ELSE Older(dark, LongDark)
    BY DEF Second
  <2> QED
    BY <2>1 DEF DarkIsDark
<1>2. /\ dark \in Nat /\ polled \in Nat /\ polled' = polled + 1
      /\ dark' = 0 \/ dark' = dark + 1 \/ (dark' = dark /\ dark = LongDark)
  <2>1. dark' = IF Fresh' THEN 0 ELSE Older(dark, LongDark)
    BY DEF Second
  <2>2. dark' = 0 \/ dark' = Older(dark, LongDark)
    BY <2>1
  <2>3. dark \in Nat /\ polled \in Nat /\ polled' = polled + 1
    BY DEF TypeOK, Second
  <2>4. Older(dark, LongDark) = dark + 1 \/ (Older(dark, LongDark) = dark /\ dark = LongDark)
    BY <2>3 DEF Older
  <2> QED
    BY <2>2, <2>3, <2>4
<1>3. /\ request' = None <=> request = None
      /\ request # None => /\ request.age \in Nat
                           /\ request'.age = request.age + 1 /\ request'.age <= Reply
  <2>1. CASE request = None
    BY <2>1 DEF Second
  <2>2. CASE request # None
    <3>1. request \in [age : 0 .. Reply, data : (SUBSET Contract) \ {{}}]
      BY <2>2 DEF TypeOK
    <3>2. request' = [request EXCEPT !.age = @ + 1] /\ request.age < Reply
      BY <2>2 DEF Second
    <3>3. request' \in [age : Nat, data : SUBSET Contract]
          /\ request'.age = request.age + 1 /\ request'.age <= Reply
      BY <3>1, <3>2
    <3> QED
      BY <2>2, <3>1, <3>3, NoneAssumption
  <2> QED
    BY <2>1, <2>2
<1>4. board # None => /\ board' # None /\ board.at \in Nat /\ board'.at \in Nat
                      /\ board'.at <= board.at + 1
  <2> SUFFICES ASSUME board # None
               PROVE  /\ board' # None /\ board.at \in Nat /\ board'.at \in Nat
                      /\ board'.at <= board.at + 1
    OBVIOUS
  <2> DEFINE shown == Holding(Pruned(OlderAll(held, Prune + 1)))
  <2>1. board \in [at : 0 .. Oldest, data : (SUBSET Contract) \ {{}}]
    BY DEF TypeOK
  <2>2. board' = [at |-> 0, data |-> shown]
        \/ board' = [board EXCEPT !.at = Older(@, Oldest)]
    BY DEF Second
  <2>3. shown \subseteq Contract
    BY DEF Holding
  <2>4. board'.at \in Nat /\ board'.at <= board.at + 1
    BY <2>1, <2>2 DEF Older
  <2>5. board' \in [at : Nat, data : SUBSET Contract]
    BY <2>1, <2>2, <2>3 DEF Older
  <2> QED
    BY <2>1, <2>4, <2>5, NoneAssumption
<1>5. TurnAnswered'
  <2> SUFFICES ASSUME dark' > polled', request' = None
               PROVE  board' # None /\ board'.at <= polled' + Reply
    BY DEF TurnAnswered
  <2>1. dark > polled
    <3>1. polled < PollEvery
      BY DEF Second
    <3> QED
      BY <1>2, <3>1 DEF LongDark
  <2>2. board # None /\ board.at <= polled + Reply
    BY <1>3, <2>1 DEF GapInv, TurnAnswered
  <2> QED
    BY <1>2, <1>4, <2>2
<1>6. CallOverBoard'
  <2> SUFFICES ASSUME request' # None, dark' - request'.age > PollEvery
               PROVE  board' # None /\ board'.at <= request'.age + PollEvery + Reply
    BY DEF CallOverBoard
  <2>1. request # None /\ dark - request.age > PollEvery
    BY <1>2, <1>3
  <2>2. board # None /\ board.at <= request.age + PollEvery + Reply
    BY <2>1 DEF GapInv, CallOverBoard
  <2> QED
    BY <1>3, <1>4, <2>1, <2>2
<1> QED
  BY <1>1, <1>5, <1>6 DEF GapInv

\* delta.ts:137-142: a socket that is not fresh, for however long and after
\* whatever failures, leaves no gap longer than the poll's interval and two
\* calls, whatever the times are.
THEOREM PollFillsTheGap == Spec => []NoLongGap
<1> USE Times
<1>1. TypeOK /\ GapInv /\ [Next]_vars => GapInv'
  <2> SUFFICES ASSUME TypeOK, GapInv, [Next]_vars PROVE GapInv'
    OBVIOUS
  <2>0. dark \in Nat /\ polled \in 0 .. PollEvery
    BY DEF TypeOK
  <2>1. CASE Second
    BY <2>1, SecondKeepsGap
  <2>2. CASE Reopen
    BY <2>2, <2>0 DEF GapInv, DarkIsDark, TurnAnswered, CallOverBoard, TypeOK, Reopen, Fresh,
      batch, rest
  <2>3. CASE Opens
    BY <2>3, <2>0 DEF GapInv, DarkIsDark, TurnAnswered, CallOverBoard, TypeOK, Opens, Fresh,
      batch, rest
  <2>4. CASE Hangs
    BY <2>4 DEF GapInv, DarkIsDark, TurnAnswered, CallOverBoard, Hangs, Fresh,
      batch, rest, history
  <2>5. CASE Closes
    BY <2>5 DEF GapInv, DarkIsDark, TurnAnswered, CallOverBoard, Closes, Fresh,
      batch, rest, history
  <2>6. CASE Receive
    BY <2>6, <2>0 DEF GapInv, DarkIsDark, TurnAnswered, CallOverBoard, TypeOK, Receive, rest
  <2>7. CASE Poll
    <3>1. CASE Fresh
      BY <2>7, <2>0, <3>1 DEF GapInv, DarkIsDark, TurnAnswered, CallOverBoard, TypeOK, Poll,
        Fresh, socket, history
    <3>2. CASE ~Fresh
      <4>1. /\ polled = PollEvery /\ polled' = 0 /\ Fresh' = Fresh
            /\ dark' = dark /\ board' = board
        BY <2>7 DEF Poll, Fresh, socket, history
      <4>2. request' # None
        <5>1. \/ request' = request /\ request # None
              \/ request' = [age |-> 0, data |-> Listed]
          BY <2>7, <3>2 DEF Poll, Fetch
        <5>2. [age |-> 0, data |-> Listed] \in [age : Nat, data : SUBSET Contract]
          BY DEF Listed
        <5> QED
          BY <5>1, <5>2, NoneAssumption
      <4>3. DarkIsDark'
        BY <3>2, <4>1 DEF DarkIsDark
      <4>4. TurnAnswered'
        BY <4>2 DEF TurnAnswered
      <4>5. CallOverBoard'
        <5>1. CASE request # None
          <6>1. request' = request
            BY <2>7, <3>2, <5>1 DEF Poll, Fetch
          <6> QED
            BY <4>1, <6>1 DEF GapInv, CallOverBoard
        <5>2. CASE request = None
          <6>1. request'.age = 0
            BY <2>7, <3>2, <5>2 DEF Poll, Fetch
          <6>2. dark > PollEvery => board # None /\ board.at <= PollEvery + Reply
            BY <4>1, <5>2 DEF GapInv, TurnAnswered
          <6> QED
            BY <2>0, <4>1, <6>1, <6>2 DEF CallOverBoard
        <5> QED
          BY <5>1, <5>2
      <4> QED
        BY <4>3, <4>4, <4>5 DEF GapInv
    <3> QED
      BY <3>1, <3>2
  <2>8. CASE Read
    BY <2>8, <2>0 DEF GapInv, DarkIsDark, TurnAnswered, CallOverBoard, TypeOK, Read, Fetch,
      Fresh, socket, history
  <2>9. CASE Answer
    <3>1. /\ request # None /\ request' = None /\ board'.at \in {request.age, 0}
          /\ polled' = polled /\ Fresh' = Fresh /\ dark' = dark
      BY <2>9 DEF Answer, Fresh, socket, history
    <3>2. board' # None
      <4>1. request \in [age : 0 .. Reply, data : (SUBSET Contract) \ {{}}]
        BY <3>1 DEF TypeOK
      <4>2. board' \in [at : Nat, data : SUBSET Contract]
        BY <2>9, <4>1 DEF Answer, Listed
      <4> QED
        BY <4>2, NoneAssumption
    <3>3. request.age \in 0 .. Reply
      BY <3>1 DEF TypeOK
    <3>4. DarkIsDark'
      BY <3>1 DEF GapInv, DarkIsDark
    <3>5. TurnAnswered'
      BY <2>0, <3>1, <3>2, <3>3 DEF TurnAnswered
    <3>6. CallOverBoard'
      BY <3>1 DEF CallOverBoard
    <3> QED
      BY <3>4, <3>5, <3>6 DEF GapInv
  <2>10. CASE Fails
    BY <2>10, <2>0 DEF GapInv, DarkIsDark, TurnAnswered, CallOverBoard, TypeOK, Fails
  <2>11. CASE Settles \/ UNCHANGED vars
    BY <2>11 DEF GapInv, DarkIsDark, TurnAnswered, CallOverBoard, Settles, Fresh,
      vars, socket, batch, rest, history
  <2> QED
    BY <2>1, <2>2, <2>3, <2>4, <2>5, <2>6, <2>7, <2>8, <2>9, <2>10, <2>11 DEF Next
<1>2. TypeOK /\ GapInv => NoLongGap
  <2> SUFFICES ASSUME TypeOK, GapInv, dark = LongDark PROVE board # None /\ board.at <= Gap
    BY DEF NoLongGap
  <2>1. polled \in 0 .. PollEvery /\ (board # None => board.at \in Nat)
    BY DEF TypeOK
  <2>2. CASE request = None
    BY <2>1, <2>2 DEF GapInv, TurnAnswered, Gap, LongDark
  <2>3. CASE request # None
    <3>1. request.age \in 0 .. Reply
      BY <2>3 DEF TypeOK
    <3> QED
      BY <2>1, <2>3, <3>1 DEF GapInv, CallOverBoard, Gap, LongDark
  <2> QED
    BY <2>2, <2>3
<1> QED
  BY <1>1, <1>2, GapInit, FeedTypeOK, PTL DEF Spec
=============================================================================
