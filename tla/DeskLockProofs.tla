--------------------------- MODULE DeskLockProofs ---------------------------
(***************************************************************************)
(* Proofs about DeskLock, for every set of runs and every value of the     *)
(* four intervals: its type invariant, that one desk trades at a time when *)
(* an answer is read soon enough after it was written, and that the lock   *)
(* then implements the one seat of DeskSeat.                               *)
(***************************************************************************)
EXTENDS DeskTerms, TLAPS

\* What the server knows of the runs it serves: the lock's owner has a live
\* session, and a run that believes the lock is its own has it while its
\* session lives.
SessionInv ==
    /\ owner # NoProc => live[owner]
    /\ \A p \in Proc :
         /\ live[p] => pc[p] # "new"
         /\ beat[p] # "none" => pc[p] = "held"
         /\ pc[p] \in {"granted", "won", "held"} /\ live[p] => owner = p

\* A run still fresh owns the lock, and its session has been silent, or cut
\* off, for no longer than its answers can be late.
FreshInv ==
    \A p \in Proc : Ok(p) =>
        /\ owner = p
        /\ idle <= age[p] + ReplyDelay
        /\ cut[p] => cutAge[p] <= age[p] + ReplyDelay

\* An answer that can still be read came from the owner's session, which has
\* said nothing since.
AnswerInv ==
    \A p \in Proc :
        /\ pc[p] = "won" \/ beat[p] = "answered"
        /\ rAge[p] <= ReplyDelay
        => /\ owner = p
           /\ idle <= rAge[p]
           /\ cut[p] => cutAge[p] <= rAge[p]

\* A session about to be ended is still silent, or is gone already.
VictimInv ==
    \A p \in Proc : victim[p] # NoProc =>
        \/ owner = victim[p] /\ idle > Stale
        \/ ~live[victim[p]] /\ pc[victim[p]] # "new"

LockInv == TypeOK /\ SessionInv /\ FreshInv /\ AnswerInv /\ VictimInv

-----------------------------------------------------------------------------
\* Every step keeps the variables in their types.
LEMMA TypeStep == TypeOK /\ [Next]_vars => TypeOK'
  <1> SUFFICES ASSUME TypeOK, [Next]_vars PROVE TypeOK'
    OBVIOUS
  <1> USE ProcAssumption, TimeAssumption
  <1>1. CASE Tick
    <2>1. \A p \in Proc : Older(age[p], Fresh + 1) \in 0 .. Fresh + 1
      BY  DEF Older, TypeOK
    <2>2. \A p \in Proc : Older(rAge[p], ReplyDelay + 1) \in 0 .. ReplyDelay + 1
      BY  DEF Older, TypeOK
    <2>3. \A p \in Proc : Older(cutAge[p], Keep) \in 0 .. Keep
      BY  DEF Older, TypeOK
    <2>4. Older(idle, Stale + 1) \in 0 .. Stale + 1
      BY  DEF Older, TypeOK
    <2>5. QED
      BY <1>1, <2>1, <2>2, <2>3, <2>4 DEF Tick, TypeOK
  <1>2. ASSUME NEW p \in Proc, Takes(p) PROVE TypeOK'
    <2>1. CASE Boot(p)
      BY <2>1 DEF Boot, Goto, TypeOK, Phase, linkVars
    <2>2. CASE TryLock(p)
      BY <2>2 DEF TryLock, Goto, GiveLock, TypeOK, Phase, linkVars
    <2>3. CASE LookAtHolder(p)
      BY <2>3 DEF LookAtHolder, Goto, TypeOK, Phase, linkVars, serverVars
    <2>4. CASE Terminate(p)
      <3> DEFINE v == victim[p]
      <3> HIDE DEF v
      <3>1. EndSession(v)
        BY <2>4 DEF Terminate, v
      <3>4. live' \in [Proc -> BOOLEAN]
        BY <3>1 DEF EndSession, TypeOK
      <3>5. owner' \in Proc \cup {NoProc} /\ idle' \in 0 .. Stale + 1
        BY <3>1 DEF EndSession, TypeOK
      <3>2. /\ pc' \in [Proc -> Phase]
            /\ victim' \in [Proc -> Proc \cup {NoProc}]
        BY <2>4 DEF Terminate, Goto, Phase, TypeOK
      <3>3. QED
        BY <2>4, <3>2, <3>4, <3>5 DEF Terminate, linkVars, TypeOK
    <2>5. CASE ResetTimeout(p)
      BY <2>5 DEF ResetTimeout, Goto, TypeOK, Phase, linkVars
    <2>6. CASE QueueTimeout(p)
      BY <2>6 DEF QueueTimeout, Goto, TypeOK, Phase, linkVars, serverVars
    <2>7. CASE TakeHeld(p)
      BY <2>7 DEF TakeHeld, Goto, TypeOK, Phase, linkVars, serverVars
    <2>8. QED
      BY <1>2, <2>1, <2>2, <2>3, <2>4, <2>5, <2>6, <2>7 DEF Takes
  <1>3. ASSUME NEW p \in Proc, Keeps(p) PROVE TypeOK'
    <2>1. CASE SendBeat(p)
      BY <2>1 DEF SendBeat, TypeOK, linkVars, serverVars
    <2>2. CASE ReadBeat(p)
      BY <2>2 DEF ReadBeat, TypeOK, linkVars, serverVars
    <2>3. CASE NoticeEnd(p)
      BY <2>3 DEF NoticeEnd, Goto, TypeOK, Phase, linkVars, serverVars
    <2>4. QED
      BY <1>3, <2>1, <2>2, <2>3 DEF Keeps
  <1>4. ASSUME NEW p \in Proc, Server(p) PROVE TypeOK'
    <2>1. CASE Grant(p)
      BY <2>1 DEF Grant, Goto, GiveLock, TypeOK, Phase, linkVars
    <2>2. CASE AnswerBeat(p)
      BY <2>2 DEF AnswerBeat, TypeOK, linkVars
    <2>3. CASE SocketClosed(p)
      BY <2>3 DEF SocketClosed, EndSession, TypeOK, procVars, linkVars
    <2>4. CASE KeepaliveReap(p)
      BY <2>4 DEF KeepaliveReap, EndSession, TypeOK, procVars, linkVars
    <2>5. QED
      BY <1>4, <2>1, <2>2, <2>3, <2>4 DEF Server
  <1>5. ASSUME NEW p \in Proc, Fault(p) PROVE TypeOK'
    <2>1. CASE Exit(p)
      BY <2>1 DEF Exit, Goto, TypeOK, Phase, linkVars, serverVars
    <2>2. CASE CutOff(p)
      BY <2>2 DEF CutOff, TypeOK, procVars, serverVars
    <2>3. CASE Heal(p)
      BY <2>3 DEF Heal, TypeOK, procVars, serverVars
    <2>4. QED
      BY <1>5, <2>1, <2>2, <2>3 DEF Fault
  <1>6. CASE UNCHANGED vars
    BY <1>6 DEF vars, procVars, linkVars, serverVars, TypeOK
  <1>7. QED
    BY <1>1, <1>2, <1>3, <1>4, <1>5, <1>6 DEF Next

\* The variables keep their types in every run of the lock.
THEOREM DeskLockTypeCorrect == Spec => []TypeOK
  <1>1. Init => TypeOK
    BY ProcAssumption, TimeAssumption DEF Init, TypeOK, Phase
  <1>2. QED
    BY <1>1, TypeStep, PTL DEF Spec
-----------------------------------------------------------------------------
\* Every step keeps what the server and the runs know of each other.
LEMMA LockStep ==
  ASSUME SafeTiming, LockInv, [Next]_vars
  PROVE  SessionInv' /\ FreshInv' /\ AnswerInv' /\ VictimInv'
  <1> USE ProcAssumption, TimeAssumption
  <1>1. CASE Tick
    <2>1. SessionInv'
      BY <1>1 DEF Tick, LockInv, SessionInv
    <2>2. FreshInv'
      BY <1>1 DEF Tick, Older, LockInv, TypeOK, Ok, FreshInv
    <2>3. AnswerInv'
      BY <1>1 DEF Tick, Older, LockInv, TypeOK, AnswerInv
    <2>4. VictimInv'
      BY <1>1 DEF Tick, Older, LockInv, TypeOK, VictimInv
    <2>5. QED
      BY <2>1, <2>2, <2>3, <2>4
  <1>2. ASSUME NEW p \in Proc, Takes(p)
        PROVE  SessionInv' /\ FreshInv' /\ AnswerInv' /\ VictimInv'
    <2>1. CASE Boot(p)
      <3>1. SessionInv'
        BY <2>1 DEF Boot, Goto, LockInv, TypeOK, SessionInv
      <3>2. FreshInv'
        BY <2>1 DEF Boot, Goto, LockInv, Ok, FreshInv, linkVars
      <3>3. AnswerInv'
        BY <2>1 DEF Boot, Goto, LockInv, AnswerInv, linkVars
      <3>4. VictimInv'
        BY <2>1 DEF Boot, Goto, LockInv, VictimInv
      <3>5. QED
        BY <3>1, <3>2, <3>3, <3>4
    <2>2. CASE TryLock(p)
      <3>1. SessionInv'
        <4>1. CASE owner # NoProc
          BY <2>2, <4>1 DEF TryLock, Goto, GiveLock, LockInv, TypeOK,
             SessionInv
        <4>2. CASE owner = NoProc
          BY <2>2, <4>2 DEF TryLock, Goto, GiveLock, LockInv, TypeOK,
             Connected, SessionInv
        <4>3. QED
          BY <4>1, <4>2
      <3>2. FreshInv'
        BY <2>2 DEF TryLock, Goto, GiveLock, LockInv, TypeOK, Ok, FreshInv,
           linkVars
      <3>3. AnswerInv'
        <4> SUFFICES ASSUME NEW q \in Proc PROVE AnswerInv!(q)'
          BY  DEF AnswerInv
        <4>1. CASE q = p
          BY <2>2, <4>1 DEF TryLock, Goto, GiveLock, LockInv, TypeOK,
             Connected, SessionInv, linkVars
        <4>2. CASE q # p
          BY <2>2, <4>2 DEF TryLock, Goto, GiveLock, LockInv, TypeOK,
             AnswerInv, linkVars
        <4>3. QED
          BY <4>1, <4>2
      <3>4. VictimInv'
        BY <2>2 DEF TryLock, Goto, GiveLock, LockInv, TypeOK, VictimInv
      <3>5. QED
        BY <3>1, <3>2, <3>3, <3>4
    <2>3. CASE LookAtHolder(p)
      <3>1. SessionInv'
        BY <2>3 DEF LookAtHolder, Goto, LockInv, TypeOK, SessionInv, serverVars
      <3>2. FreshInv'
        BY <2>3 DEF LookAtHolder, Goto, LockInv, TypeOK, Ok, FreshInv,
           linkVars, serverVars
      <3>3. AnswerInv'
        BY <2>3 DEF LookAtHolder, Goto, LockInv, TypeOK, AnswerInv, linkVars,
           serverVars
      <3>4. VictimInv'
        BY <2>3 DEF LookAtHolder, Goto, LockInv, TypeOK, VictimInv, serverVars
      <3>5. QED
        BY <3>1, <3>2, <3>3, <3>4
    <2>4. CASE Terminate(p)
      <3>1. SessionInv'
        BY <2>4 DEF Terminate, Goto, EndSession, LockInv, TypeOK, SessionInv
      <3>2. FreshInv'
        BY <2>4 DEF Terminate, Goto, EndSession, LockInv, SafeTiming, TypeOK,
           Ok, SessionInv, FreshInv, VictimInv, linkVars
      <3>3. AnswerInv'
        BY <2>4 DEF Terminate, Goto, EndSession, LockInv, SafeTiming, TypeOK,
           SessionInv, AnswerInv, VictimInv, linkVars
      <3>4. VictimInv'
        BY <2>4 DEF Terminate, Goto, EndSession, LockInv, TypeOK, SessionInv,
           VictimInv
      <3>5. QED
        BY <3>1, <3>2, <3>3, <3>4
    <2>5. CASE ResetTimeout(p)
      <3>1. SessionInv'
        BY <2>5 DEF ResetTimeout, Goto, LockInv, SessionInv
      <3>2. FreshInv'
        BY <2>5 DEF ResetTimeout, Goto, LockInv, Ok, FreshInv, linkVars
      <3>3. AnswerInv'
        <4> SUFFICES ASSUME NEW q \in Proc PROVE AnswerInv!(q)'
          BY  DEF AnswerInv
        <4>1. CASE q = p
          BY <2>5, <4>1 DEF ResetTimeout, LockInv, TypeOK, Connected,
             SessionInv, linkVars
        <4>2. CASE q # p
          BY <2>5, <4>2 DEF ResetTimeout, Goto, LockInv, AnswerInv, linkVars
        <4>3. QED
          BY <4>1, <4>2
      <3>4. VictimInv'
        BY <2>5 DEF ResetTimeout, Goto, LockInv, SafeTiming, MayComeBack,
           VictimInv
      <3>5. QED
        BY <3>1, <3>2, <3>3, <3>4
    <2>6. CASE QueueTimeout(p)
      <3>1. SessionInv'
        BY <2>6 DEF QueueTimeout, Goto, LockInv, SessionInv, serverVars
      <3>2. FreshInv'
        BY <2>6 DEF QueueTimeout, Goto, LockInv, Ok, FreshInv, linkVars,
           serverVars
      <3>3. AnswerInv'
        BY <2>6 DEF QueueTimeout, Goto, LockInv, AnswerInv, linkVars,
           serverVars
      <3>4. VictimInv'
        BY <2>6 DEF QueueTimeout, Goto, LockInv, VictimInv, serverVars
      <3>5. QED
        BY <3>1, <3>2, <3>3, <3>4
    <2>7. CASE TakeHeld(p)
      <3>1. SessionInv'
        BY <2>7 DEF TakeHeld, Goto, LockInv, SessionInv, serverVars
      <3>2. FreshInv'
        BY <2>7 DEF TakeHeld, Goto, LockInv, TypeOK, Ok, FreshInv, AnswerInv,
           linkVars, serverVars
      <3>3. AnswerInv'
        BY <2>7 DEF TakeHeld, Goto, LockInv, TypeOK, SessionInv, AnswerInv
      <3>4. VictimInv'
        BY <2>7 DEF TakeHeld, Goto, LockInv, VictimInv, serverVars
      <3>5. QED
        BY <3>1, <3>2, <3>3, <3>4
    <2>8. QED
      BY <1>2, <2>1, <2>2, <2>3, <2>4, <2>5, <2>6, <2>7 DEF Takes
  <1>3. ASSUME NEW p \in Proc, Keeps(p)
        PROVE  SessionInv' /\ FreshInv' /\ AnswerInv' /\ VictimInv'
    <2>1. CASE SendBeat(p)
      <3>1. SessionInv'
        BY <2>1 DEF SendBeat, LockInv, SessionInv, serverVars
      <3>2. FreshInv'
        BY <2>1 DEF SendBeat, LockInv, Ok, FreshInv, linkVars, serverVars
      <3>3. AnswerInv'
        BY <2>1 DEF SendBeat, LockInv, AnswerInv, linkVars, serverVars
      <3>4. VictimInv'
        BY <2>1 DEF SendBeat, LockInv, VictimInv, serverVars
      <3>5. QED
        BY <3>1, <3>2, <3>3, <3>4
    <2>2. CASE ReadBeat(p)
      <3>1. SessionInv'
        BY <2>2 DEF ReadBeat, LockInv, SessionInv, serverVars
      <3>2. FreshInv'
        BY <2>2 DEF ReadBeat, LockInv, TypeOK, Ok, FreshInv, AnswerInv,
           linkVars, serverVars
      <3>3. AnswerInv'
        BY <2>2 DEF ReadBeat, LockInv, TypeOK, AnswerInv
      <3>4. VictimInv'
        BY <2>2 DEF ReadBeat, LockInv, VictimInv, serverVars
      <3>5. QED
        BY <3>1, <3>2, <3>3, <3>4
    <2>3. CASE NoticeEnd(p)
      <3>1. SessionInv'
        BY <2>3 DEF NoticeEnd, Goto, LockInv, TypeOK, SessionInv, serverVars
      <3>2. FreshInv'
        BY <2>3 DEF NoticeEnd, Goto, LockInv, TypeOK, Ok, FreshInv, linkVars,
           serverVars
      <3>3. AnswerInv'
        BY <2>3 DEF NoticeEnd, Goto, LockInv, TypeOK, AnswerInv, linkVars,
           serverVars
      <3>4. VictimInv'
        BY <2>3 DEF NoticeEnd, Goto, LockInv, VictimInv, serverVars
      <3>5. QED
        BY <3>1, <3>2, <3>3, <3>4
    <2>4. QED
      BY <1>3, <2>1, <2>2, <2>3 DEF Keeps
  <1>4. ASSUME NEW p \in Proc, Server(p)
        PROVE  SessionInv' /\ FreshInv' /\ AnswerInv' /\ VictimInv'
    <2>1. CASE Grant(p)
      <3>1. SessionInv'
        BY <2>1 DEF Grant, Goto, GiveLock, LockInv, SessionInv
      <3>2. FreshInv'
        BY <2>1 DEF Grant, Goto, GiveLock, LockInv, Ok, FreshInv
      <3>3. AnswerInv'
        BY <2>1 DEF Grant, Goto, GiveLock, LockInv, AnswerInv
      <3>4. VictimInv'
        BY <2>1 DEF Grant, Goto, GiveLock, LockInv, VictimInv
      <3>5. QED
        BY <3>1, <3>2, <3>3, <3>4
    <2>2. CASE AnswerBeat(p)
      <3>1. SessionInv'
        BY <2>2 DEF AnswerBeat, LockInv, SessionInv
      <3>2. FreshInv'
        BY <2>2 DEF AnswerBeat, LockInv, TypeOK, Ok, FreshInv, linkVars
      <3>3. AnswerInv'
        <4> SUFFICES ASSUME NEW q \in Proc PROVE AnswerInv!(q)'
          BY  DEF AnswerInv
        <4>1. CASE q = p
          BY <2>2, <4>1 DEF AnswerBeat, LockInv, TypeOK, Connected, SessionInv,
             linkVars
        <4>2. CASE q # p
          BY <2>2, <4>2 DEF AnswerBeat, LockInv, AnswerInv, linkVars
        <4>3. QED
          BY <4>1, <4>2
      <3>4. VictimInv'
        BY <2>2 DEF AnswerBeat, LockInv, SafeTiming, MayComeBack, VictimInv
      <3>5. QED
        BY <3>1, <3>2, <3>3, <3>4
    <2>3. CASE SocketClosed(p)
      <3>1. SessionInv'
        BY <2>3 DEF SocketClosed, EndSession, LockInv, SessionInv, procVars
      <3>2. FreshInv'
        BY <2>3 DEF SocketClosed, EndSession, LockInv, Ok, FreshInv, procVars,
           linkVars
      <3>3. AnswerInv'
        BY <2>3 DEF SocketClosed, EndSession, LockInv, SessionInv, AnswerInv,
           procVars, linkVars
      <3>4. VictimInv'
        BY <2>3 DEF SocketClosed, EndSession, LockInv, TypeOK, VictimInv,
           procVars
      <3>5. QED
        BY <3>1, <3>2, <3>3, <3>4
    <2>4. CASE KeepaliveReap(p)
      <3>1. SessionInv'
        BY <2>4 DEF KeepaliveReap, EndSession, LockInv, TypeOK, SessionInv,
           procVars
      <3>2. FreshInv'
        BY <2>4 DEF KeepaliveReap, EndSession, LockInv, SafeTiming, TypeOK, Ok,
           FreshInv, procVars, linkVars
      <3>3. AnswerInv'
        BY <2>4 DEF KeepaliveReap, EndSession, LockInv, SafeTiming, TypeOK,
           AnswerInv, procVars, linkVars
      <3>4. VictimInv'
        BY <2>4 DEF KeepaliveReap, EndSession, LockInv, TypeOK, SessionInv,
           VictimInv, procVars
      <3>5. QED
        BY <3>1, <3>2, <3>3, <3>4
    <2>5. QED
      BY <1>4, <2>1, <2>2, <2>3, <2>4 DEF Server
  <1>5. ASSUME NEW p \in Proc, Fault(p)
        PROVE  SessionInv' /\ FreshInv' /\ AnswerInv' /\ VictimInv'
    <2>1. CASE Exit(p)
      <3>1. SessionInv'
        BY <2>1 DEF Exit, Goto, LockInv, TypeOK, SessionInv, serverVars
      <3>2. FreshInv'
        BY <2>1 DEF Exit, Goto, LockInv, TypeOK, Ok, FreshInv, linkVars,
           serverVars
      <3>3. AnswerInv'
        BY <2>1 DEF Exit, Goto, LockInv, TypeOK, AnswerInv, linkVars,
           serverVars
      <3>4. VictimInv'
        BY <2>1 DEF Exit, Goto, LockInv, VictimInv, serverVars
      <3>5. QED
        BY <3>1, <3>2, <3>3, <3>4
    <2>2. CASE CutOff(p)
      <3>1. SessionInv'
        BY <2>2 DEF CutOff, LockInv, SessionInv, procVars, serverVars
      <3>2. FreshInv'
        BY <2>2 DEF CutOff, LockInv, TypeOK, Ok, FreshInv, procVars, serverVars
      <3>3. AnswerInv'
        BY <2>2 DEF CutOff, LockInv, TypeOK, AnswerInv, procVars, serverVars
      <3>4. VictimInv'
        BY <2>2 DEF CutOff, LockInv, VictimInv, procVars, serverVars
      <3>5. QED
        BY <3>1, <3>2, <3>3, <3>4
    <2>3. CASE Heal(p)
      <3>1. SessionInv'
        BY <2>3 DEF Heal, LockInv, SessionInv, procVars, serverVars
      <3>2. FreshInv'
        BY <2>3 DEF Heal, LockInv, TypeOK, Ok, FreshInv, procVars, serverVars
      <3>3. AnswerInv'
        BY <2>3 DEF Heal, LockInv, TypeOK, AnswerInv, procVars, serverVars
      <3>4. VictimInv'
        BY <2>3 DEF Heal, LockInv, VictimInv, procVars, serverVars
      <3>5. QED
        BY <3>1, <3>2, <3>3, <3>4
    <2>4. QED
      BY <1>5, <2>1, <2>2, <2>3 DEF Fault
  <1>6. CASE UNCHANGED vars
    BY <1>6 DEF vars, procVars, linkVars, serverVars, LockInv, Ok, SessionInv,
       FreshInv, AnswerInv, VictimInv
  <1>7. QED
    BY <1>1, <1>2, <1>3, <1>4, <1>5, <1>6 DEF Next

\* The inductive invariant holds throughout every run of the lock.
THEOREM LockInvariant == ASSUME SafeTiming PROVE Spec => []LockInv
  <1>1. Init => LockInv
    BY ProcAssumption, TimeAssumption DEF Init, LockInv, TypeOK, Phase, Ok,
       SessionInv, FreshInv, AnswerInv, VictimInv
  <1>2. LockInv /\ [Next]_vars => LockInv'
    BY LockStep, TypeStep DEF LockInv
  <1>3. QED
    BY <1>1, <1>2, PTL DEF Spec

\* desk-lock.ts:5: two runs never both pass the check that every write to
\* Delta asks for, when answers are read in time and a holder found silent
\* stays so until its session is ended.
THEOREM OneDeskTrades == ASSUME SafeTiming PROVE Spec => []OneDesk
  <1>1. LockInv => OneDesk
    BY  DEF LockInv, FreshInv, OneDesk
  <1>2. QED
    BY <1>1, LockInvariant, PTL
-----------------------------------------------------------------------------
(* A steady run is not deposed *)

\* A steady run never loses its session, nobody is about to end it, and while
\* it has the lock the server has heard from it not long ago.
SteadyAt(p) ==
    /\ ~cut[p] /\ pc[p] \notin {"lost", "dead"}
    /\ pc[p] # "new" => live[p]
    /\ owner = p <=> pc[p] \in {"granted", "won", "held"}
    /\ \A q \in Proc : victim[q] # p
    /\ pc[p] # "held" => beat[p] = "none"
    /\ pc[p] = "granted" => idle = 0
    /\ pc[p] = "won" => idle <= rAge[p] /\ rAge[p] <= ReplyDelay
    /\ pc[p] = "held" /\ beat[p] # "answered" => idle <= age[p] + ReplyDelay /\ age[p] <= Heartbeat
    /\ pc[p] = "held" /\ beat[p] = "answered" => idle <= rAge[p] /\ rAge[p] <= ReplyDelay

SteadyInv == \A p \in Steady : SteadyAt(p)

\* So whoever looks at it as the holder does not find it silent.
LEMMA NotSilent ==
  ASSUME BeatsInTime, TypeOK, NEW p \in Steady, SteadyAt(p), owner = p
  PROVE  idle <= Stale
  <1> USE ProcAssumption, TimeAssumption
  <1>1. /\ idle \in Nat /\ age[p] \in Nat /\ rAge[p] \in Nat /\ pc[p] \in {"granted", "won", "held"}
        /\ beat[p] = "answered" \/ beat[p] # "answered"
    BY DEF TypeOK, SteadyAt
  <1>2. QED
    BY <1>1 DEF SteadyAt, BeatsInTime

\* The steps of the others leave it alone, and so do its own.
LEMMA SteadyStep ==
  ASSUME BeatsInTime, TypeOK, TypeOK', SteadyInv, [Next]_vars, NEW p \in Steady
  PROVE  SteadyAt(p)'
  <1> USE ProcAssumption, TimeAssumption
  <1>0. SteadyAt(p) /\ p \in Proc /\ p # NoProc
    BY DEF SteadyInv
  <1>1. CASE Tick
    <2>1. OnTime(p) /\ UNCHANGED <<pc, beat, cut, live, owner, victim>>
      BY <1>1 DEF Tick
    <2>2. /\ age'[p] = IF pc[p] = "held" THEN Older(age[p], Fresh + 1) ELSE age[p]
          /\ rAge'[p] = IF pc[p] = "won" \/ beat[p] = "answered"
                          THEN Older(rAge[p], ReplyDelay + 1) ELSE rAge[p]
          /\ idle' = IF owner # NoProc THEN Older(idle, Stale + 1) ELSE idle
      BY <1>0, <1>1 DEF Tick
    <2>3. age[p] \in Nat /\ rAge[p] \in Nat /\ idle \in Nat /\ idle' <= idle + 1 /\ idle' \in Nat
      BY <1>0, <2>2 DEF TypeOK, Older
    <2>4. pc[p] # "granted"
      BY <1>0, <2>1 DEF OnTime, SteadyAt
    <2>5. pc[p] = "won" => idle' <= rAge'[p] /\ rAge'[p] <= ReplyDelay
      <3>1. pc[p] = "won" => rAge[p] < ReplyDelay /\ idle <= rAge[p]
        BY <1>0, <2>1 DEF OnTime, SteadyAt
      <3>2. pc[p] = "won" => rAge'[p] = rAge[p] + 1
        BY <2>2, <2>3, <3>1 DEF Older
      <3>3. QED
        BY <2>3, <3>1, <3>2
    <2>6. ASSUME pc[p] = "held", beat[p] # "answered"
          PROVE  idle' <= age'[p] + ReplyDelay /\ age'[p] <= Heartbeat
      <3>1. beat[p] = "none" /\ age[p] < Heartbeat
        BY <1>0, <2>1, <2>6 DEF OnTime, TypeOK
      <3>2. idle <= age[p] + ReplyDelay
        BY <1>0, <2>6 DEF SteadyAt
      <3>3. age'[p] = age[p] + 1
        BY <2>2, <2>3, <2>6, <3>1 DEF BeatsInTime, Older
      <3>4. QED
        BY <2>3, <3>1, <3>2, <3>3
    <2>7. ASSUME pc[p] = "held", beat[p] = "answered"
          PROVE  idle' <= rAge'[p] /\ rAge'[p] <= ReplyDelay
      <3>1. rAge[p] < ReplyDelay /\ idle <= rAge[p]
        BY <1>0, <2>1, <2>7 DEF OnTime, SteadyAt
      <3>2. rAge'[p] = rAge[p] + 1
        BY <2>2, <2>3, <2>7, <3>1 DEF Older
      <3>3. QED
        BY <2>3, <3>1, <3>2
    <2>8. QED
      BY <1>0, <2>1, <2>4, <2>5, <2>6, <2>7 DEF SteadyAt
  <1>2. ASSUME NEW q \in Proc, Takes(q) PROVE SteadyAt(p)'
    <2>1. CASE Boot(q)
      BY <1>0, <2>1 DEF Boot, Goto, TypeOK, SteadyAt, linkVars
    <2>2. CASE TryLock(q)
      <3>1. CASE q = p
        BY <1>0, <2>2, <3>1 DEF TryLock, GiveLock, Goto, TypeOK, SteadyAt, linkVars
      <3>2. CASE q # p
        BY <1>0, <2>2, <3>2 DEF TryLock, GiveLock, Goto, TypeOK, SteadyAt, linkVars
      <3>3. QED
        BY <3>1, <3>2
    <2>3. CASE LookAtHolder(q)
      <3>1. victim'[q] # p
        <4>1. CASE owner # NoProc /\ idle > Stale
          <5>1. victim'[q] = owner
            BY <2>3, <4>1 DEF LookAtHolder, TypeOK
          <5>2. owner # p
            BY <1>0, <4>1, NotSilent DEF TypeOK
          <5>3. QED
            BY <5>1, <5>2
        <4>2. CASE ~(owner # NoProc /\ idle > Stale)
          BY <1>0, <2>3, <4>2 DEF LookAtHolder, SteadyAt
        <4>3. QED
          BY <4>1, <4>2
      <3>2. \A r \in Proc : victim'[r] # p
        BY <1>0, <2>3, <3>1 DEF LookAtHolder, SteadyAt, TypeOK
      <3>3. /\ pc'[p] = pc[p] \/ (pc[p] = "look" /\ pc'[p] \in {"kill", "queue"})
            /\ UNCHANGED <<beat, age, rAge, linkVars, serverVars>>
        BY <1>0, <2>3 DEF LookAtHolder, Goto, TypeOK
      <3>4. QED
        BY <1>0, <3>2, <3>3 DEF SteadyAt, linkVars, serverVars
    <2>4. CASE Terminate(q)
      <3>1. victim[q] # p
        BY <1>0 DEF SteadyAt
      <3>2. live'[p] = live[p] /\ (owner' = p <=> owner = p) /\ (owner = p => idle' = idle)
        BY <1>0, <2>4, <3>1 DEF Terminate, EndSession, TypeOK
      <3>3. /\ pc'[p] = pc[p] \/ (pc[p] = "kill" /\ pc'[p] = "try")
            /\ \A r \in Proc : victim'[r] # p
            /\ UNCHANGED <<beat, age, rAge, linkVars>>
        BY <1>0, <2>4 DEF Terminate, Goto, TypeOK, SteadyAt
      <3>4. QED
        BY <1>0, <3>2, <3>3 DEF SteadyAt, linkVars
    <2>5. CASE ResetTimeout(q)
      <3>1. CASE q = p
        BY <1>0, <2>5, <3>1 DEF ResetTimeout, Goto, TypeOK, SteadyAt, linkVars
      <3>2. CASE q # p
        BY <1>0, <2>5, <3>2 DEF ResetTimeout, Goto, TypeOK, SteadyAt, linkVars
      <3>3. QED
        BY <3>1, <3>2
    <2>6. CASE QueueTimeout(q)
      BY <1>0, <2>6 DEF QueueTimeout, Goto, TypeOK, SteadyAt, linkVars, serverVars
    <2>7. CASE TakeHeld(q)
      <3>1. CASE q = p
        BY <1>0, <2>7, <3>1 DEF TakeHeld, Goto, TypeOK, SteadyAt, linkVars, serverVars
      <3>2. CASE q # p
        BY <1>0, <2>7, <3>2 DEF TakeHeld, Goto, TypeOK, SteadyAt, linkVars, serverVars
      <3>3. QED
        BY <3>1, <3>2
    <2>8. QED
      BY <1>2, <2>1, <2>2, <2>3, <2>4, <2>5, <2>6, <2>7 DEF Takes
  <1>3. ASSUME NEW q \in Proc, Keeps(q) PROVE SteadyAt(p)'
    <2>1. CASE SendBeat(q)
      BY <1>0, <2>1 DEF SendBeat, TypeOK, SteadyAt, linkVars, serverVars
    <2>2. CASE ReadBeat(q)
      <3>1. CASE q = p
        BY <1>0, <2>2, <3>1 DEF ReadBeat, TypeOK, SteadyAt, linkVars, serverVars
      <3>2. CASE q # p
        BY <1>0, <2>2, <3>2 DEF ReadBeat, TypeOK, SteadyAt, linkVars, serverVars
      <3>3. QED
        BY <3>1, <3>2
    <2>3. CASE NoticeEnd(q)
      <3>1. q # p
        BY <1>0, <2>3 DEF NoticeEnd, SteadyAt
      <3>2. QED
        BY <1>0, <2>3, <3>1 DEF NoticeEnd, Goto, TypeOK, SteadyAt, linkVars, serverVars
    <2>4. QED
      BY <1>3, <2>1, <2>2, <2>3 DEF Keeps
  <1>4. ASSUME NEW q \in Proc, Server(q) PROVE SteadyAt(p)'
    <2>1. CASE Grant(q)
      <3>1. CASE q = p
        BY <1>0, <2>1, <3>1 DEF Grant, GiveLock, Goto, TypeOK, SteadyAt, linkVars
      <3>2. CASE q # p
        BY <1>0, <2>1, <3>2 DEF Grant, GiveLock, Goto, TypeOK, SteadyAt, linkVars
      <3>3. QED
        BY <3>1, <3>2
    <2>2. CASE AnswerBeat(q)
      <3>1. CASE q = p
        BY <1>0, <2>2, <3>1 DEF AnswerBeat, TypeOK, SteadyAt, linkVars
      <3>2. CASE q # p
        BY <1>0, <2>2, <3>2 DEF AnswerBeat, TypeOK, SteadyAt, linkVars
      <3>3. QED
        BY <3>1, <3>2
    <2>3. CASE SocketClosed(q) \/ KeepaliveReap(q)
      <3>1. q # p
        BY <1>0, <2>3 DEF SocketClosed, KeepaliveReap, SteadyAt
      <3>2. live'[p] = live[p] /\ (owner' = p <=> owner = p) /\ (owner = p => idle' = idle)
        BY <1>0, <2>3, <3>1 DEF SocketClosed, KeepaliveReap, EndSession, TypeOK
      <3>3. UNCHANGED <<procVars, linkVars>>
        BY <2>3 DEF SocketClosed, KeepaliveReap
      <3>4. QED
        BY <1>0, <3>2, <3>3 DEF SteadyAt, procVars, linkVars
    <2>4. QED
      BY <1>4, <2>1, <2>2, <2>3 DEF Server
  <1>5. ASSUME NEW q \in Proc, Fault(q) PROVE SteadyAt(p)'
    <2>1. CASE Exit(q)
      <3>1. q # p
        BY <1>0, <2>1 DEF Exit, SteadyAt
      <3>2. QED
        BY <1>0, <2>1, <3>1 DEF Exit, Goto, TypeOK, SteadyAt, linkVars, serverVars
    <2>2. CASE CutOff(q)
      <3>1. q # p
        BY <2>2 DEF CutOff
      <3>2. QED
        BY <1>0, <2>2, <3>1 DEF CutOff, TypeOK, SteadyAt, procVars, serverVars
    <2>3. CASE Heal(q)
      BY <1>0, <2>3 DEF Heal, TypeOK, SteadyAt, procVars, serverVars
    <2>4. QED
      BY <1>5, <2>1, <2>2, <2>3 DEF Fault
  <1>6. CASE UNCHANGED vars
    BY <1>0, <1>6 DEF vars, procVars, linkVars, serverVars, SteadyAt
  <1>7. QED
    BY <1>1, <1>2, <1>3, <1>4, <1>5, <1>6 DEF Next

\* A run that holds got there by taking the lock, and one that has held never
\* goes back to taking it.
LEMMA HeldStep ==
  ASSUME TypeOK, [Next]_vars, NEW w \in Proc
  PROVE  /\ pc'[w] = "held" => pc[w] = "held" \/ TakeHeld(w)
         /\ pc[w] \in {"held", "lost", "dead"} => pc'[w] \in {"held", "lost", "dead"}
  <1> USE ProcAssumption, TimeAssumption
  <1>1. CASE Tick
    BY <1>1 DEF Tick, TypeOK
  <1>2. ASSUME NEW p \in Proc, Takes(p)
        PROVE  /\ pc'[w] = "held" => pc[w] = "held" \/ TakeHeld(w)
               /\ pc[w] \in {"held", "lost", "dead"} => pc'[w] \in {"held", "lost", "dead"}
    <2>1. CASE p = w
      BY <1>2, <2>1 DEF Takes, Boot, TryLock, LookAtHolder, Terminate,
         ResetTimeout, QueueTimeout, TakeHeld, Goto, TypeOK
    <2>2. CASE p # w
      BY <1>2, <2>2 DEF Takes, Boot, TryLock, LookAtHolder, Terminate,
         ResetTimeout, QueueTimeout, TakeHeld, Goto, TypeOK
    <2>3. QED
      BY <2>1, <2>2
  <1>3. ASSUME NEW p \in Proc, Keeps(p) \/ Fault(p)
        PROVE  /\ pc'[w] = "held" => pc[w] = "held" \/ TakeHeld(w)
               /\ pc[w] \in {"held", "lost", "dead"} => pc'[w] \in {"held", "lost", "dead"}
    BY <1>3 DEF Keeps, SendBeat, NoticeEnd, ReadBeat, Fault, Exit, CutOff,
       Heal, Goto, procVars, TypeOK
  <1>4. ASSUME NEW p \in Proc, Server(p)
        PROVE  /\ pc'[w] = "held" => pc[w] = "held" \/ TakeHeld(w)
               /\ pc[w] \in {"held", "lost", "dead"} => pc'[w] \in {"held", "lost", "dead"}
    BY <1>4 DEF Server, Grant, AnswerBeat, SocketClosed, KeepaliveReap, Goto,
       procVars, TypeOK
  <1>5. CASE UNCHANGED vars
    BY <1>5 DEF vars, procVars
  <1>6. QED
    BY <1>1, <1>2, <1>3, <1>4, <1>5 DEF Next

\* desk-lock.ts:21: a run that is neither frozen, cut off nor killed keeps the
\* lock it holds, however many runs wait for it and whatever they suffer.
THEOREM SteadyHolderStays == ASSUME BeatsInTime PROVE Spec => HolderNotDeposed
  <1> DEFINE Stays == \A p \in Steady : pc[p] = "held" => pc'[p] = "held" /\ owner' = p
  <1>1. Init => SteadyInv
    BY ProcAssumption, TimeAssumption DEF Init, SteadyInv, SteadyAt
  <1>2. TypeOK /\ SteadyInv /\ [Next]_vars => TypeOK' /\ SteadyInv'
    BY TypeStep, SteadyStep DEF SteadyInv
  <1>3. ASSUME TypeOK, TypeOK', SteadyInv, SteadyInv', Next PROVE Stays
    <2> SUFFICES ASSUME NEW p \in Steady, pc[p] = "held" PROVE pc'[p] = "held" /\ owner' = p
      OBVIOUS
    <2>1. p \in Proc /\ [Next]_vars
      BY <1>3, ProcAssumption
    <2>2. pc'[p] \in {"held", "lost", "dead"}
      BY <1>3, <2>1, HeldStep
    <2>3. pc'[p] \notin {"lost", "dead"} /\ (owner' = p <=> pc'[p] \in {"granted", "won", "held"})
      BY <1>3 DEF SteadyInv, SteadyAt
    <2>4. QED
      BY <2>2, <2>3
  <1>4. TypeOK /\ TypeOK' /\ SteadyInv /\ SteadyInv' /\ [Next]_vars => [Stays]_vars
    BY <1>3
  <1>5. QED
    BY <1>1, <1>2, <1>4, DeskLockTypeCorrect, PTL DEF Spec, HolderNotDeposed

-----------------------------------------------------------------------------
(* The lock with its memory of the runs that could write (DeskTerms), and  *)
(* the seat it implements.                                                 *)

\* Who has had the desk, against where the runs stand: a run that has had it
\* is past the taking, and the one that owns the lock and holds it was last.
TermInv ==
    /\ had \subseteq Proc
    /\ last # NoProc => last \in had
    /\ \A p \in had : pc[p] \in {"held", "lost", "dead"}
    /\ \A p \in Proc : pc[p] = "held" /\ owner = p => last = p /\ p \in had

-----------------------------------------------------------------------------
\* At most one run can write, and Writer names it.
LEMMA WriterIs ==
  ASSUME LockInv
  PROVE  /\ Writer \in Proc \cup {NoProc}
         /\ \A p \in Proc : Ok(p) <=> Writer = p
         /\ Writer # NoProc => owner = Writer
  <1>1. \A p, q \in Proc : Ok(p) /\ Ok(q) => p = q
    BY DEF LockInv, FreshInv
  <1>2. CASE \E p \in Proc : Ok(p)
    <2>1. PICK p \in Proc : Ok(p)
      BY <1>2
    <2>2. Writer = p
      BY <1>1, <1>2, <2>1 DEF Writer
    <2>3. QED
      BY <1>1, <2>1, <2>2, ProcAssumption DEF LockInv, FreshInv
  <1>3. CASE ~ \E p \in Proc : Ok(p)
    BY <1>3, ProcAssumption DEF Writer
  <1>4. QED
    BY <1>2, <1>3

\* The same of the next state.
LEMMA WriterIsNext ==
  ASSUME LockInv'
  PROVE  /\ Writer' \in Proc \cup {NoProc}
         /\ \A p \in Proc : Ok(p)' <=> Writer' = p
         /\ Writer' # NoProc => owner' = Writer'
  <1>1. \A p, q \in Proc : Ok(p)' /\ Ok(q)' => p = q
    BY DEF LockInv, FreshInv
  <1>2. CASE \E p \in Proc : Ok(p)'
    <2>1. PICK p \in Proc : Ok(p)'
      BY <1>2
    <2>2. Writer' = p
      BY <1>1, <1>2, <2>1 DEF Writer
    <2>3. QED
      BY <1>1, <2>1, <2>2, ProcAssumption DEF LockInv, FreshInv
  <1>3. CASE ~ \E p \in Proc : Ok(p)'
    BY <1>3, ProcAssumption DEF Writer
  <1>4. QED
    BY <1>2, <1>3

\* A run gets to write by taking the lock or by reading a heartbeat.
LEMMA NewWriter ==
  ASSUME TypeOK, [Next]_vars, NEW w \in Proc, ~Ok(w), Ok(w)'
  PROVE  TakeHeld(w) \/ ReadBeat(w)
  <1> USE ProcAssumption, TimeAssumption
  <1>1. CASE Tick
    BY <1>1 DEF Tick, Older, TypeOK, Ok
  <1>2. ASSUME NEW p \in Proc, Takes(p) PROVE TakeHeld(w)
    <2>1. CASE p = w
      BY <1>2, <2>1 DEF Takes, Boot, TryLock, LookAtHolder, Terminate,
         ResetTimeout, QueueTimeout, Goto, TypeOK, Ok
    <2>2. CASE p # w
      BY <1>2, <2>2 DEF Takes, Boot, TryLock, LookAtHolder, Terminate,
         ResetTimeout, QueueTimeout, TakeHeld, Goto, TypeOK, Ok
    <2>3. QED
      BY <2>1, <2>2
  <1>3. ASSUME NEW p \in Proc, Keeps(p) PROVE ReadBeat(w)
    <2>1. CASE p = w
      BY <1>3, <2>1 DEF Keeps, SendBeat, NoticeEnd, Goto, TypeOK, Ok
    <2>2. CASE p # w
      BY <1>3, <2>2 DEF Keeps, SendBeat, NoticeEnd, ReadBeat, Goto, TypeOK, Ok
    <2>3. QED
      BY <2>1, <2>2
  <1>4. ASSUME NEW p \in Proc, Server(p) PROVE FALSE
    BY <1>4 DEF Server, Grant, AnswerBeat, SocketClosed, KeepaliveReap, Goto,
       procVars, TypeOK, Ok
  <1>5. ASSUME NEW p \in Proc, Fault(p) PROVE FALSE
    BY <1>5 DEF Fault, Exit, CutOff, Heal, Goto, procVars, TypeOK, Ok
  <1>6. CASE UNCHANGED vars
    BY <1>6 DEF vars, procVars, Ok
  <1>7. QED
    BY <1>1, <1>2, <1>3, <1>4, <1>5, <1>6 DEF Next

\* A run that holds does not come to own the lock: it owned it all along.
LEMMA OwnerStep ==
  ASSUME TypeOK, [Next]_vars, NEW w \in Proc, pc[w] = "held", owner' = w
  PROVE  owner = w
  <1> USE ProcAssumption, TimeAssumption
  <1>1. CASE Tick
    BY <1>1 DEF Tick
  <1>2. ASSUME NEW p \in Proc, Takes(p) PROVE owner = w
    BY <1>2 DEF Takes, Boot, TryLock, LookAtHolder, Terminate, EndSession,
       GiveLock, ResetTimeout, QueueTimeout, TakeHeld, Goto, serverVars, TypeOK
  <1>3. ASSUME NEW p \in Proc, Keeps(p) \/ Fault(p) PROVE owner = w
    BY <1>3 DEF Keeps, SendBeat, NoticeEnd, ReadBeat, Fault, Exit, CutOff,
       Heal, serverVars
  <1>4. ASSUME NEW p \in Proc, Server(p) PROVE owner = w
    BY <1>4 DEF Server, Grant, GiveLock, AnswerBeat, SocketClosed,
       KeepaliveReap, EndSession, TypeOK
  <1>5. CASE UNCHANGED vars
    BY <1>5 DEF vars, serverVars
  <1>6. QED
    BY <1>1, <1>2, <1>3, <1>4, <1>5 DEF Next

-----------------------------------------------------------------------------
\* The memory keeps agreeing with the lock.
LEMMA TermInvStep ==
  ASSUME LockInv, LockInv', TermInv, [TermNext]_termVars
  PROVE  TermInv'
  <1> USE ProcAssumption
  <1>1. CASE UNCHANGED termVars
    BY <1>1 DEF termVars, vars, procVars, serverVars, TermInv
  <1>2. CASE TermNext
    <2>1. [Next]_vars /\ TypeOK
      BY <1>2 DEF TermNext, LockInv
    <2>2. had' \subseteq Proc /\ (last' # NoProc => last' \in had')
      BY <1>2, WriterIsNext DEF TermNext, Remember, TermInv
    <2>3. ASSUME NEW p \in had' PROVE pc'[p] \in {"held", "lost", "dead"}
      <3>1. CASE p \in had
        BY <2>1, <3>1, HeldStep DEF TermInv
      <3>2. CASE p \notin had
        <4>1. p = Writer' /\ p \in Proc /\ Ok(p)'
          BY <1>2, <2>3, <3>2, WriterIsNext DEF TermNext, Remember
        <4>2. QED
          BY <4>1 DEF Ok
      <3>3. QED
        BY <3>1, <3>2
    <2>4. ASSUME NEW p \in Proc, pc'[p] = "held", owner' = p
          PROVE  last' = p /\ p \in had'
      <3>1. Writer' # NoProc => Writer' = p
        BY <2>4, WriterIsNext
      <3>2. CASE pc[p] = "held"
        <4>1. last = p /\ p \in had
          BY <2>1, <2>4, <3>2, OwnerStep DEF TermInv
        <4>2. QED
          BY <1>2, <3>1, <4>1 DEF TermNext, Remember
      <3>3. CASE pc[p] # "held"
        <4>1. TakeHeld(p)
          BY <2>1, <2>4, <3>3, HeldStep
        <4>2. Ok(p)'
          BY <2>1, <4>1, TimeAssumption DEF TakeHeld, Goto, TypeOK, Ok
        <4>3. Writer' = p
          BY <4>2, WriterIsNext
        <4>4. QED
          BY <1>2, <4>3 DEF TermNext, Remember
      <3>4. QED
        BY <3>2, <3>3
    <2>5. QED
      BY <2>2, <2>3, <2>4 DEF TermInv
  <1>3. QED
    BY <1>1, <1>2

\* Every step of the lock is a step of the seat, or leaves it alone.
LEMMA SeatStep ==
  ASSUME LockInv, LockInv', TermInv, [TermNext]_termVars
  PROVE  [Seat!SeatNext]_(Seat!seatVars)
  <1> USE ProcAssumption
  <1>1. CASE UNCHANGED termVars
    <2>1. Writer' = Writer
      BY <1>1 DEF termVars, vars, procVars, Writer, Ok
    <2>2. QED
      BY <1>1, <2>1 DEF termVars, Seat!seatVars
  <1>2. CASE TermNext
    <2>1. [Next]_vars /\ TypeOK
      BY <1>2 DEF TermNext, LockInv
    <2>2. CASE Writer' = NoProc
      <3>1. had' = had /\ last' = last
        BY <1>2, <2>2 DEF TermNext, Remember
      <3>2. QED
        BY <2>2, <3>1 DEF Seat!SeatNext, Seat!StandAside, Seat!seatVars
    <2>3. CASE Writer' # NoProc
      <3>1. PICK w \in Proc : w = Writer' /\ Ok(w)' /\ owner' = w
        BY <2>3, WriterIsNext
      <3>2. had' = had \cup {w} /\ last' = w
        BY <1>2, <2>3, <3>1 DEF TermNext, Remember
      <3>3. CASE Ok(w)
        <4>1. Writer = w /\ owner = w /\ pc[w] = "held"
          BY <3>1, <3>3, WriterIs DEF Ok, LockInv, FreshInv
        <4>2. last = w /\ w \in had
          BY <3>1, <4>1 DEF TermInv
        <4>3. Writer' = Writer /\ had' = had /\ last' = last
          BY <3>1, <3>2, <4>1, <4>2
        <4>4. QED
          BY <4>3 DEF Seat!seatVars
      <3>4. CASE ~Ok(w)
        <4>1. TakeHeld(w) \/ ReadBeat(w)
          BY <2>1, <3>1, <3>4, NewWriter
        <4>2. owner = w
          BY <3>1, <4>1 DEF TakeHeld, ReadBeat, serverVars
        <4>3. Writer = NoProc
          BY <3>1, <3>4, <4>2, WriterIs
        <4>4. CASE TakeHeld(w)
          <5>1. w \notin had
            BY <4>4 DEF TakeHeld, TermInv
          <5>2. Seat!SitDown(w)
            BY <3>1, <3>2, <4>3, <5>1 DEF Seat!SitDown
          <5>3. QED
            BY <3>1, <5>2 DEF Seat!SeatNext
        <4>5. CASE ReadBeat(w)
          <5>1. last = w /\ w \in had
            BY <3>1, <4>2, <4>5 DEF ReadBeat, TermInv
          <5>2. Seat!SitAgain
            BY <2>3, <3>1, <3>2, <4>3, <5>1 DEF Seat!SitAgain
          <5>3. QED
            BY <5>2 DEF Seat!SeatNext
        <4>6. QED
          BY <4>1, <4>4, <4>5
      <3>5. QED
        BY <3>3, <3>4
    <2>4. QED
      BY <2>2, <2>3
  <1>3. QED
    BY <1>1, <1>2

-----------------------------------------------------------------------------
\* desk-lock.ts:15-28: under SafeTiming the lock implements the one seat, so a
\* run whose term is over never writes again.
THEOREM LockIsOneSeat == ASSUME SafeTiming PROVE TermSpec => TermsInTurn
  <1>1. TermInit => LockInv /\ TermInv /\ Seat!SeatInit
    <2> SUFFICES ASSUME TermInit PROVE LockInv /\ TermInv /\ Seat!SeatInit
      OBVIOUS
    <2>1. LockInv
      BY ProcAssumption, TimeAssumption DEF TermInit, Init, LockInv, TypeOK,
         Phase, Ok, SessionInv, FreshInv, AnswerInv, VictimInv
    <2>2. TermInv
      BY DEF TermInit, Init, TermInv
    <2>3. Writer = NoProc
      BY DEF TermInit, Init, Writer, Ok
    <2>4. QED
      BY <2>1, <2>2, <2>3 DEF TermInit, Seat!SeatInit
  <1>2. LockInv /\ [TermNext]_termVars => LockInv'
    <2> SUFFICES ASSUME LockInv, [TermNext]_termVars PROVE LockInv'
      OBVIOUS
    <2>1. [Next]_vars
      BY DEF TermNext, termVars
    <2>2. QED
      BY <2>1, LockStep, TypeStep DEF LockInv
  <1>3. LockInv /\ LockInv' /\ TermInv /\ [TermNext]_termVars
          => TermInv' /\ [Seat!SeatNext]_(Seat!seatVars)
    BY TermInvStep, SeatStep
  <1>4. QED
    BY <1>1, <1>2, <1>3, PTL DEF TermSpec, TermsInTurn, Seat!SeatSpec
=============================================================================
