------------------------------ MODULE DeskLock ------------------------------
(***************************************************************************)
(* The desk lock (db/desk-lock.ts): one PostgreSQL advisory lock, held on  *)
(* a connection of its own, decides which process may write to Delta.      *)
(*                                                                         *)
(* A member of Proc is one run of the server: a restarted container is     *)
(* another member, as it is another connection with another backend pid.   *)
(* Time passes in Tick; an age is the time since an event, counted no      *)
(* further than the first value the code can tell from the ones before.    *)
(***************************************************************************)
EXTENDS Integers, FiniteSets

CONSTANTS
    Proc,            \* runs of the server
    NoProc,          \* nobody
    Steady,          \* runs that are neither frozen, cut off nor killed
    Heartbeat,       \* HEARTBEAT_MS
    Fresh,           \* FRESH_MS
    Stale,           \* STALE_MS
    Keep,            \* the server's TCP keepalive: idle 10 + 3 * interval 5
    ReplyDelay,      \* longest time from the server's answer to its being read
    ThawInTakeover   \* a silent holder may come back between look and terminate

ASSUME ProcAssumption == NoProc \notin Proc /\ Steady \subseteq Proc
ASSUME TimeAssumption ==
    /\ Heartbeat \in Nat /\ Fresh \in Nat /\ Stale \in Nat /\ Keep \in Nat
    /\ ReplyDelay \in Nat
    /\ ThawInTakeover \in BOOLEAN

VARIABLES
    pc,       \* where each run is in takeDeskLock
    beat,     \* the heartbeat query: "none", "sent" or "answered"
    age,      \* since lastOk, of a run that holds
    rAge,     \* since the server wrote the answer still to be read
    cut,      \* the run's connection carries nothing
    cutAge,   \* since it was cut
    live,     \* the server still has the run's session
    owner,    \* the session the server granted the lock
    idle,     \* now() - state_change of the owner's session
    victim    \* the pid a waiting run is about to terminate

procVars == <<pc, beat, age, rAge, victim>>
linkVars == <<cut, cutAge>>
serverVars == <<live, owner, idle>>
vars == <<procVars, linkVars, serverVars>>

Phase == {"new", "try", "look", "kill", "queue", "granted", "won", "held",
          "lost", "dead"}

TypeOK ==
    /\ pc \in [Proc -> Phase]
    /\ beat \in [Proc -> {"none", "sent", "answered"}]
    /\ age \in [Proc -> 0 .. Fresh + 1]
    /\ rAge \in [Proc -> 0 .. ReplyDelay + 1]
    /\ cut \in [Proc -> BOOLEAN]
    /\ cutAge \in [Proc -> 0 .. Keep]
    /\ live \in [Proc -> BOOLEAN]
    /\ owner \in Proc \cup {NoProc}
    /\ idle \in 0 .. Stale + 1
    /\ victim \in [Proc -> Proc \cup {NoProc}]

Init ==
    /\ pc = [p \in Proc |-> "new"]
    /\ beat = [p \in Proc |-> "none"]
    /\ age = [p \in Proc |-> 0]
    /\ rAge = [p \in Proc |-> 0]
    /\ cut = [p \in Proc |-> FALSE]
    /\ cutAge = [p \in Proc |-> 0]
    /\ live = [p \in Proc |-> FALSE]
    /\ owner = NoProc
    /\ idle = 0
    /\ victim = [p \in Proc |-> NoProc]

-----------------------------------------------------------------------------
\* Mutant: a lock once held is trusted without a recent heartbeat.
OkWhileHeld(p) == pc[p] = "held"

\* deskLockOk(): held, not lost, and a heartbeat read inside FRESH_MS.  The
\* check sits in the same synchronous step as the request (delta/signed.ts).
Ok(p) == pc[p] = "held" /\ age[p] <= Fresh

\* The run can reach the server: its statement is processed when it is sent.
Connected(p) == live[p] /\ ~cut[p]

\* Whether a holder found silent may send its next statement before the one
\* that found it so has ended its session.
MayComeBack(p) == ThawInTakeover \/ \A q \in Proc : victim[q] # p

Goto(p, phase) == pc' = [pc EXCEPT ![p] = phase]

\* The server ends p's session; an advisory lock goes with its session.
EndSession(p) ==
    /\ live' = [live EXCEPT ![p] = FALSE]
    /\ owner' = IF owner = p THEN NoProc ELSE owner
    /\ idle' = IF owner = p THEN 0 ELSE idle

\* The server gives p the lock and answers.
GiveLock(p) ==
    /\ owner = NoProc
    /\ owner' = p
    /\ idle' = 0

-----------------------------------------------------------------------------
\* client.connect()
Boot(p) ==
    /\ pc[p] = "new" /\ ~cut[p]
    /\ Goto(p, "try")
    /\ live' = [live EXCEPT ![p] = TRUE]
    /\ UNCHANGED <<beat, age, rAge, victim, linkVars, owner, idle>>

\* SELECT pg_try_advisory_lock
TryLock(p) ==
    /\ pc[p] = "try" /\ Connected(p)
    /\ \/ /\ GiveLock(p)
          /\ Goto(p, "won")
          /\ rAge' = [rAge EXCEPT ![p] = 0]
       \/ /\ owner # NoProc
          /\ Goto(p, "look")
          /\ UNCHANGED <<owner, idle, rAge>>
    /\ UNCHANGED <<beat, age, victim, linkVars, live>>

\* Mutant: a holder is taken for hung after one heartbeat.
LookImpatient(p) ==
    /\ pc[p] = "look" /\ Connected(p)
    /\ IF owner # NoProc /\ idle > Heartbeat
         THEN Goto(p, "kill") /\ victim' = [victim EXCEPT ![p] = owner]
         ELSE Goto(p, "queue") /\ UNCHANGED victim
    /\ UNCHANGED <<beat, age, rAge, linkVars, serverVars>>

\* Mutant: a hung holder is looked at and never ended.
LookAndWait(p) ==
    /\ pc[p] = "look" /\ Connected(p)
    /\ Goto(p, "queue")
    /\ UNCHANGED <<beat, age, rAge, victim, linkVars, serverVars>>

\* holder(): who has it, and how long its connection has been silent.
LookAtHolder(p) ==
    /\ pc[p] = "look" /\ Connected(p)
    /\ IF owner # NoProc /\ idle > Stale
         THEN Goto(p, "kill") /\ victim' = [victim EXCEPT ![p] = owner]
         ELSE Goto(p, "queue") /\ UNCHANGED victim
    /\ UNCHANGED <<beat, age, rAge, linkVars, serverVars>>

\* SELECT pg_terminate_backend: the pid read before, whatever it did since.
Terminate(p) ==
    /\ pc[p] = "kill" /\ Connected(p)
    /\ EndSession(victim[p])
    /\ victim' = [victim EXCEPT ![p] = NoProc]
    /\ Goto(p, "try")
    /\ UNCHANGED <<beat, age, rAge, linkVars>>

\* The lock's own queue: the server hands it over the moment it is free...
Grant(p) ==
    /\ pc[p] = "queue" /\ live[p]
    /\ GiveLock(p)
    /\ Goto(p, "granted")
    /\ UNCHANGED <<beat, age, rAge, victim, linkVars, live>>

\* ... and the run resets lock_timeout, one more statement, before it holds.
ResetTimeout(p) ==
    /\ pc[p] = "granted" /\ Connected(p) /\ MayComeBack(p)
    /\ Goto(p, "won")
    /\ rAge' = [rAge EXCEPT ![p] = 0]
    /\ idle' = IF owner = p THEN 0 ELSE idle
    /\ UNCHANGED <<beat, age, victim, linkVars, live, owner>>

\* lock_timeout: still held after RETRY_MS, look again.
QueueTimeout(p) ==
    /\ pc[p] = "queue" /\ Connected(p)
    /\ Goto(p, "try")
    /\ UNCHANGED <<beat, age, rAge, victim, linkVars, serverVars>>

\* held = true; lastOk = now()
TakeHeld(p) ==
    /\ pc[p] = "won" /\ rAge[p] <= ReplyDelay
    /\ Goto(p, "held")
    /\ age' = [age EXCEPT ![p] = 0]
    /\ rAge' = [rAge EXCEPT ![p] = 0]
    /\ UNCHANGED <<beat, victim, linkVars, serverVars>>

\* The interval fires: client.query('SELECT 1').  One is on the wire at a time.
SendBeat(p) ==
    /\ pc[p] = "held" /\ beat[p] = "none"
    /\ beat' = [beat EXCEPT ![p] = "sent"]
    /\ UNCHANGED <<pc, age, rAge, victim, linkVars, serverVars>>

\* The server runs it: the session's state_change moves, the answer leaves.
AnswerBeat(p) ==
    /\ beat[p] = "sent" /\ Connected(p)
    /\ MayComeBack(p)
    /\ beat' = [beat EXCEPT ![p] = "answered"]
    /\ rAge' = [rAge EXCEPT ![p] = 0]
    /\ idle' = IF owner = p THEN 0 ELSE idle
    /\ UNCHANGED <<pc, age, victim, linkVars, live, owner>>

\* The answer is read: lastOk = now(), the time of the reading.
ReadBeat(p) ==
    /\ pc[p] = "held" /\ beat[p] = "answered" /\ rAge[p] <= ReplyDelay
    /\ age' = [age EXCEPT ![p] = 0]
    /\ rAge' = [rAge EXCEPT ![p] = 0]
    /\ beat' = [beat EXCEPT ![p] = "none"]
    /\ UNCHANGED <<pc, victim, linkVars, serverVars>>

\* Mutant: a run that loses its connection connects again and waits its turn.
Reconnects(p) ==
    /\ pc[p] \notin {"new", "lost", "dead"} /\ ~live[p] /\ ~cut[p]
    /\ Goto(p, "new")
    /\ beat' = [beat EXCEPT ![p] = "none"]
    /\ age' = [age EXCEPT ![p] = 0]
    /\ rAge' = [rAge EXCEPT ![p] = 0]
    /\ victim' = [victim EXCEPT ![p] = NoProc]
    /\ UNCHANGED <<linkVars, serverVars>>

\* 'end' or 'error' on the connection: lose().  A run still waiting throws.
NoticeEnd(p) ==
    /\ pc[p] \notin {"new", "lost", "dead"} /\ ~live[p] /\ ~cut[p]
    /\ Goto(p, "lost")
    /\ beat' = [beat EXCEPT ![p] = "none"]
    /\ age' = [age EXCEPT ![p] = 0]
    /\ rAge' = [rAge EXCEPT ![p] = 0]
    /\ victim' = [victim EXCEPT ![p] = NoProc]
    /\ UNCHANGED <<linkVars, serverVars>>

\* process.exit after a loss, or the process killed wherever it stands.
Exit(p) ==
    /\ pc[p] # "dead" /\ (pc[p] = "lost" \/ p \notin Steady)
    /\ Goto(p, "dead")
    /\ beat' = [beat EXCEPT ![p] = "none"]
    /\ age' = [age EXCEPT ![p] = 0]
    /\ rAge' = [rAge EXCEPT ![p] = 0]
    /\ victim' = [victim EXCEPT ![p] = NoProc]
    /\ UNCHANGED <<linkVars, serverVars>>

\* The server reads the dead process's FIN.
SocketClosed(p) ==
    /\ pc[p] = "dead" /\ live[p] /\ ~cut[p]
    /\ EndSession(p)
    /\ UNCHANGED <<procVars, linkVars>>

\* The server's keepalive gives up on a peer that has answered nothing.
KeepaliveReap(p) ==
    /\ live[p] /\ cut[p] /\ cutAge[p] >= Keep
    /\ EndSession(p)
    /\ UNCHANGED <<procVars, linkVars>>

CutOff(p) ==
    /\ p \notin Steady /\ ~cut[p]
    /\ cut' = [cut EXCEPT ![p] = TRUE]
    /\ cutAge' = [cutAge EXCEPT ![p] = 0]
    /\ UNCHANGED <<procVars, serverVars>>

Heal(p) ==
    /\ cut[p]
    /\ cut' = [cut EXCEPT ![p] = FALSE]
    /\ cutAge' = [cutAge EXCEPT ![p] = 0]
    /\ UNCHANGED <<procVars, serverVars>>

-----------------------------------------------------------------------------
\* A steady run sends its heartbeat on the interval, the server answers it in
\* the same unit of time and the run reads the answer within ReplyDelay.
OnTime(p) ==
    /\ pc[p] = "held" => /\ beat[p] = "none" => age[p] < Heartbeat
                         /\ beat[p] # "sent"
                         /\ beat[p] = "answered" => rAge[p] < ReplyDelay
    /\ pc[p] = "granted" => owner # p
    /\ pc[p] = "won" => rAge[p] < ReplyDelay

Older(a, cap) == IF a < cap THEN a + 1 ELSE a

Tick ==
    /\ \A p \in Steady : OnTime(p)
    /\ age' = [p \in Proc |->
                 IF pc[p] = "held" THEN Older(age[p], Fresh + 1) ELSE age[p]]
    /\ rAge' = [p \in Proc |->
                  IF pc[p] = "won" \/ beat[p] = "answered"
                    THEN Older(rAge[p], ReplyDelay + 1) ELSE rAge[p]]
    /\ cutAge' = [p \in Proc |->
                    IF cut[p] THEN Older(cutAge[p], Keep) ELSE cutAge[p]]
    /\ idle' = IF owner # NoProc THEN Older(idle, Stale + 1) ELSE idle
    /\ UNCHANGED <<pc, beat, cut, live, owner, victim>>

Takes(p) ==
    \/ Boot(p) \/ TryLock(p) \/ LookAtHolder(p) \/ Terminate(p)
    \/ ResetTimeout(p) \/ QueueTimeout(p) \/ TakeHeld(p)

Keeps(p) == SendBeat(p) \/ ReadBeat(p) \/ NoticeEnd(p)

Server(p) == Grant(p) \/ AnswerBeat(p) \/ SocketClosed(p) \/ KeepaliveReap(p)

Fault(p) == Exit(p) \/ CutOff(p) \/ Heal(p)

Next == Tick \/ \E p \in Proc : Takes(p) \/ Keeps(p) \/ Server(p) \/ Fault(p)

Spec == Init /\ [][Next]_vars

\* A steady run and the server keep going, and so does the clock.  Nothing is
\* asked of the other runs: they may freeze wherever they stand.
Fairness ==
    /\ WF_vars(Tick)
    /\ \A p \in Steady : WF_vars(Takes(p)) /\ WF_vars(Keeps(p))
                         /\ WF_vars(AnswerBeat(p))
    /\ \A p \in Steady : SF_vars(Grant(p))

FairSpec == Spec /\ Fairness

-----------------------------------------------------------------------------
(* Properties *)

\* desk-lock.ts:5 "One desk trading at a time": two runs never both pass the
\* check that every write to Delta asks for, whatever froze, was cut off,
\* was killed or came back.
OneDesk == \A p, q \in Proc : Ok(p) /\ Ok(q) => p = q

\* desk-lock.ts:21: only a run whose heartbeat stopped is deposed.  A steady
\* holder keeps the lock, however many standbys look at it.
HolderNotDeposed ==
    [][\A p \in Steady : pc[p] = "held" => pc'[p] = "held" /\ owner' = p]_vars

\* desk-lock.ts:21: a run that waits is not kept out by a holder that hung or
\* went without closing its socket: the lock always comes back to some run
\* that may write.
DeskComesBack ==
    \A s \in Steady : [](pc[s] # "new" => <>(\E p \in Proc : Ok(p)))

\* What OneDesk needs of the environment: an answer is read soon enough after
\* it was written, and a holder found silent stays silent until it is ended.
SafeTiming ==
    /\ Fresh + ReplyDelay <= Stale
    /\ Fresh + ReplyDelay < Keep
    /\ ~ThawInTakeover

\* What HolderNotDeposed needs of the intervals: the heartbeat is due while the
\* last one still counts, and its answer read before the run looks silent.
BeatsInTime == Heartbeat <= Fresh /\ Heartbeat + ReplyDelay <= Stale

=============================================================================
