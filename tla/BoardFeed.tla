----------------------------- MODULE BoardFeed -----------------------------
(***************************************************************************)
(* The option board in memory (market/delta.ts) and its two feeds: the     *)
(* ticker socket (market/delta-socket.ts), and the REST poll that stands   *)
(* down while the socket is heard.  Time goes by seconds; every age is in  *)
(* seconds, and is counted no further than what compares it.               *)
(***************************************************************************)
EXTENDS Integers

CONSTANTS
    Contract,
    Mortal,     \* those that settle
    Stale, PollEvery, Ttl, Prune, BackoffMax,   \* the code's times
    Reply, Handshake,   \* the longest a REST call with its retries takes, and a
                        \* socket that opens
    None,
    \* Bounds on the environment.
    MaxFaults,
    MaxQuiet    \* seconds without a message that are counted

ASSUME FeedAssumption ==
    /\ Mortal \subseteq Contract /\ Mortal # Contract /\ None \notin Nat
    /\ {Stale, PollEvery, Ttl, Prune, BackoffMax} \subseteq Nat \ {0}
    /\ Reply \in Nat /\ Handshake \in 0 .. Stale - 1
    /\ MaxFaults \in Nat /\ MaxQuiet \in Nat

ASSUME NoneAssumption ==
    None \notin [at : Nat, data : SUBSET Contract] \cup [age : Nat, data : SUBSET Contract]

\* A poll may find a call on its way, that was answered with what it was asked.
Gap == PollEvery + 2 * Reply
Oldest == IF Ttl > Gap THEN Ttl ELSE Gap + 1
Lingers == Prune + Reply
LongDark == PollEvery + Reply + 1

VARIABLES
    gone,       \* Delta: how long ago each contract settled; None while listed
    link, asked, heard,   \* the socket, and the ages of openedAt, lastMessageAt
    wait, backoff,        \* reconnectTimer, as what is left of it; backoffMs
    held, dirty,          \* the age of each contract's ticker, None if not held
    board,      \* tickerCache: its date, as an age, and its contracts
    request,    \* tickerInflight: how long, and what was listed as it was sent
    polled,     \* since the poll's last turn
    dark,       \* history: seconds the socket was not fresh and no call failed
    quiet,      \* history: seconds without a message
    faults

socket == <<link, asked, heard, wait, backoff>>
batch == <<held, dirty>>
rest == <<request, polled>>
history == <<dark, quiet>>
vars == <<gone, socket, batch, board, rest, history, faults>>

Listed == {c \in Contract : gone[c] = None}

Older(age, cap) == IF age = None \/ age = cap THEN age ELSE age + 1

OlderAll(ages, cap) == [c \in Contract |-> Older(ages[c], cap)]

Holding(ages) == {c \in Contract : ages[c] # None}

Fault == faults < MaxFaults /\ faults' = faults + 1

\* index.ts starts the poll, whose first call goes out, and then the socket.
Init ==
    /\ gone = [c \in Contract |-> None]
    /\ link = "asked" /\ asked = 0 /\ heard = Stale
    /\ wait = None /\ backoff = 1
    /\ held = [c \in Contract |-> None] /\ dirty = FALSE
    /\ board = None
    /\ request = [age |-> 0, data |-> Contract] /\ polled = 0
    /\ dark = 0 /\ quiet = 0 /\ faults = 0

-----------------------------------------------------------------------------
(* The socket *)

\* Heard lately: lastMessageAt outlives the connection it came on.
Fresh == link # "none" /\ heard < Stale

\* scheduleReconnect(), with w of the timer left.
ScheduleReconnect(w) ==
    IF w # None THEN wait' = w /\ UNCHANGED backoff
    ELSE /\ wait' = backoff
         /\ backoff' = IF 2 * backoff > BackoffMax THEN BackoffMax ELSE 2 * backoff

\* Mutant: judged by the last message alone.
SilentOnMessage(sinceAsked, sinceHeard) == link # "none" /\ sinceHeard >= Stale

\* Counted from the later of the last message and the last attempt.
Silent(sinceAsked, sinceHeard) ==
    link # "none" /\ sinceAsked >= Stale /\ sinceHeard >= Stale

\* Mutant: what was once held is shown.
NoPrune(ages) == ages

Pruned(ages) == [c \in Contract |-> IF ages[c] = None \/ ages[c] > Prune THEN None ELSE ages[c]]

\* A second passes, and snapshot() runs: a silent socket is dropped, and what
\* changed is handed on as the board.  Everything due is served first.
Second ==
    /\ polled < PollEvery /\ wait # 0
    /\ request # None => request.age < Reply
    /\ link = "asked" => asked < Handshake
    /\ gone' = OlderAll(gone, Lingers + 1)
    /\ asked' = Older(asked, Stale) /\ heard' = Older(heard, Stale)
    /\ polled' = polled + 1
    /\ request' = IF request = None THEN None ELSE [request EXCEPT !.age = @ + 1]
    /\ LET left == IF wait = None THEN None ELSE wait - 1
           ages == OlderAll(held, Prune + 1)
           shown == Holding(Pruned(ages))
       IN  /\ IF Silent(asked', heard')
              THEN link' = "none" /\ ScheduleReconnect(left)
              ELSE wait' = left /\ UNCHANGED <<link, backoff>>
           /\ dirty' = FALSE
           /\ held' = IF dirty THEN Pruned(ages) ELSE ages
           /\ board' = IF dirty /\ shown # {} THEN [at |-> 0, data |-> shown]
                       ELSE IF board = None THEN None
                       ELSE [board EXCEPT !.at = Older(@, Oldest)]
    /\ dark' = IF Fresh' THEN 0 ELSE Older(dark, LongDark)
    /\ quiet' = Older(quiet, MaxQuiet)
    /\ UNCHANGED faults

\* The reconnect timer: open(), which may throw.
Reopen ==
    /\ wait = 0
    /\ \/ /\ link' = "asked" /\ asked' = 0 /\ wait' = None
          /\ dark' = IF heard < Stale THEN 0 ELSE dark
          /\ UNCHANGED <<backoff, faults>>
       \/ Fault /\ ScheduleReconnect(None) /\ UNCHANGED <<link, asked, dark>>
    /\ UNCHANGED <<gone, heard, batch, board, rest, quiet>>

\* onopen: the attempts start afresh, and the opening counts as heard.
Opens ==
    /\ link = "asked"
    /\ link' = "open" /\ heard' = 0 /\ backoff' = 1 /\ dark' = 0
    /\ UNCHANGED <<gone, asked, wait, batch, board, rest, quiet, faults>>

\* No answer to the opening, ever.
Hangs ==
    /\ link = "asked" /\ Fault
    /\ link' = "hung"
    /\ UNCHANGED <<gone, asked, heard, wait, backoff, batch, board, rest, history>>

\* onclose of the socket in use.
Closes ==
    /\ link # "none" /\ Fault
    /\ link' = "none" /\ ScheduleReconnect(wait)
    /\ UNCHANGED <<gone, asked, heard, batch, board, rest, history>>

\* receive(): any message is heard; an option's ticker is held.
Receive ==
    /\ link = "open"
    /\ heard' = 0 /\ dark' = 0 /\ quiet' = 0
    /\ \/ UNCHANGED batch
       \/ \E c \in Listed : held' = [held EXCEPT ![c] = 0] /\ dirty' = TRUE
    /\ UNCHANGED <<gone, link, asked, wait, backoff, board, rest, faults>>

-----------------------------------------------------------------------------
(* REST *)

\* fetchTickersFresh(): one call at a time, that whoever asks meanwhile shares.
Fetch ==
    IF request # None THEN UNCHANGED request
    ELSE request' = [age |-> 0, data |-> Listed]

\* Mutant: a socket that is there is enough.
PollWhenApart ==
    /\ polled = PollEvery /\ polled' = 0
    /\ IF link # "none" THEN UNCHANGED request ELSE Fetch
    /\ UNCHANGED <<gone, socket, batch, board, history, faults>>

\* The poll's turn: nothing while the socket is fresh.
Poll ==
    /\ polled = PollEvery /\ polled' = 0
    /\ IF Fresh THEN UNCHANGED request ELSE Fetch
    /\ UNCHANGED <<gone, socket, batch, board, history, faults>>

\* liveTickers(): whoever reads the board has an old one fetched.
Read ==
    /\ board # None => board.at >= Ttl
    /\ request = None /\ Fetch
    /\ UNCHANGED <<gone, socket, batch, board, polled, history, faults>>

\* The list as it was some time since the call, dated by Delta, is the board
\* and the socket's map: seed().
Answer ==
    /\ request # None
    /\ \E b \in {[at |-> request.age, data |-> request.data], [at |-> 0, data |-> Listed]} :
         /\ board' = b
         /\ held' = [c \in Contract |-> IF c \in b.data THEN 0 ELSE None]
    /\ request' = None
    /\ UNCHANGED <<gone, socket, dirty, polled, history, faults>>

\* Every try of it refused, or no answer in time.
Fails ==
    /\ request # None /\ Fault
    /\ request' = None /\ dark' = 0
    /\ UNCHANGED <<gone, socket, batch, board, polled, quiet>>

-----------------------------------------------------------------------------
(* Delta *)

Settles ==
    /\ \E c \in Mortal \cap Listed : gone' = [gone EXCEPT ![c] = 0]
    /\ UNCHANGED <<socket, batch, board, rest, history, faults>>

Next ==
    \/ Second
    \/ Reopen \/ Opens \/ Hangs \/ Closes \/ Receive
    \/ Poll \/ Read \/ Answer \/ Fails
    \/ Settles

Spec == Init /\ [][Next]_vars

\* Timers run, and Delta answers what it does not leave hanging.
FairSpec ==
    /\ Spec
    /\ WF_vars(Second) /\ WF_vars(Reopen) /\ WF_vars(Poll)
    /\ WF_vars(Opens) /\ WF_vars(Answer)

-----------------------------------------------------------------------------
(* Properties *)

Ages(cap) == {None} \cup 0 .. cap

TypeOK ==
    /\ gone \in [Contract -> Ages(Lingers + 1)]
    /\ \A c \in Contract \ Mortal : gone[c] = None
    /\ link \in {"none", "asked", "hung", "open"}
    /\ asked \in 0 .. Stale /\ heard \in 0 .. Stale
    /\ wait \in Ages(BackoffMax) /\ backoff \in 1 .. BackoffMax
    /\ held \in [Contract -> Ages(Prune + 1)] /\ dirty \in BOOLEAN
    /\ board \in {None} \cup [at : 0 .. Oldest, data : (SUBSET Contract) \ {{}}]
    /\ request \in {None} \cup [age : 0 .. Reply, data : (SUBSET Contract) \ {{}}]
    /\ polled \in 0 .. PollEvery
    /\ dark \in 0 .. LongDark /\ quiet \in 0 .. MaxQuiet
    /\ faults \in 0 .. MaxFaults

\* delta.ts:137-142: once the socket is not fresh the poll is the feed: however
\* the connection comes and goes, and whatever failed before, the board is
\* then never older than the poll's interval and the calls it waits for.
NoLongGap == dark = LongDark => board # None /\ board.at <= Gap

\* delta-socket.ts:40-41, 168-172: a settled contract leaves the board: a batch
\* the socket hands over, also one seeded by a list that was on its way as the
\* contract settled, does not show it past PRUNE_MS of that list.
DelistedGoes ==
    [][dirty /\ ~dirty' =>
         \A c \in board'.data : gone'[c] = None \/ gone'[c] <= Lingers]_vars

\* delta-socket.ts:213-217: a socket that closed, went silent or hung in its
\* opening is remade, and a reopen is given the time to open.
SocketComesBack == (link # "open") ~> (link = "open")

\* delta-socket.ts:29-32, delta.ts:141-142: with no message for STALE_MS the
\* poll is the feed until the socket is back.
SilenceIsCovered ==
    quiet >= Stale + LongDark => board # None /\ board.at <= Gap
=============================================================================
