--------------------------- MODULE PoolEvaluation ---------------------------
(***************************************************************************)
(* The evaluation of one pool (evaluatePool in engine/program.ts), cycle   *)
(* after cycle: the safety screening, the marks of the positions, the exit *)
(* chain with its two debounced stops, the rebalance and rotation phase    *)
(* and the entry slot.  What the decisions go through next is ScanCycle's  *)
(* subject; here each of them is executed or not.                          *)
(*                                                                         *)
(* Beside it runs the evaluator of the backtests (cycle/evaluate-pool.ts), *)
(* which says it mirrors the exit chain: Replay* is that second chain on   *)
(* the snapshots the engine saved, with counters and a peak of its own.    *)
(* It reads what was saved: also reads the engine's screening rejected,    *)
(* but no dead feed.  The engine loses counts to a restart and a rebalance.*)
(***************************************************************************)
EXTENDS Naturals, SequencesExt

CONSTANTS
    Pos,         \* position ids, ordered as they are opened
    Leg,         \* the two tokens: [trusted, freeze, banned, sus, verified, probe]
    Level,       \* marks of a position, in units of its deposit
    Confirm,     \* TRAILING_STOP_CONFIRM_CYCLES
    Grace,       \* OOR_GRACE_PERIOD_CYCLES
    MaxPerPool,  \* MAX_POSITIONS_PER_POOL
    Challenger,  \* other pools of the harvest book
    Required,    \* ROTATION_CONFIRM_OBSERVATIONS
    SmartFreeze, \* FREEZE_SMART_SCREENING
    DustExit,    \* DUST_EXIT_USD > 0: a position worth nothing is closed
    Cap          \* bound: cycles counted

VARIABLES
    pc,
    book,      \* tracked positions of the pool: id -> its record
    feed,      \* what this cycle's read of the pool says
    raw,       \* rawDecisions
    cool,      \* the pool is on cooldown
    confirmations, \* rotationConfirmations of this pool's pairs
    \* the backtest's counters
    replay,    \* id -> [stop, trail, peak]
    \* observation
    streak,    \* id -> [stop, trail]: evaluations in a row that breached and did not exit
    decided,   \* positions an EXIT was decided for
    apart      \* positions the replay is ahead in for what the engine lost, skipped or did not save

state == <<book, cool, confirmations>>
vars == <<pc, state, feed, raw, replay, streak, decided, apart>>

Deposit == 2
Tracked == DOMAIN book
None == [stop |-> 0, trail |-> 0]
Count == [stop : 0 .. Cap, trail : 0 .. Cap]
Unseen(peak) == [stop |-> 0, trail |-> 0, peak |-> peak]

\* rot: the 24h drawdown or the yield decay of challenge mode; loss: the TVL dropped
\* against the last snapshot, with or without (still) any activity, or against one
\* more than 26 hours old (gap), which the engine does not look at, or else volume
\* authenticity or fee/IL is too low (weak).  Not saved is the read of a dead or
\* relabelled feed, whose TVL move is pinned to zero, one whose save failed, and one
\* that another replaced within its five minutes.
Feed == [rot : {"none", "drawdown", "decay"}, loss : {"none", "drop", "still", "gap", "weak"},
         fast : {"none", "depeg", "drain"}, saved : BOOLEAN]

Quiet == [rot |-> "none", loss |-> "none", fast |-> "none", saved |-> TRUE]

\* own: deposited by the engine; an adopted position has no cost basis.
Fresh(own) == [own |-> own, young |-> TRUE, mark |-> Deposit, peak |-> IF own THEN Deposit ELSE 0,
               oor |-> 0, count |-> None]

TypeOK ==
    /\ pc \in {"idle", "track", "exit", "rebalance", "enter", "tail"}
    /\ Tracked \subseteq Pos
    /\ \A i \in Tracked :
         book[i] \in [own : BOOLEAN, young : BOOLEAN, mark : Level, peak : Level,
                      oor : 0 .. Grace, count : Count]
    /\ feed \in Feed
    /\ raw \in Seq([act : {"HOLD", "EXIT", "REBALANCE", "ENTER"}, pos : Pos \cup {0},
                    why : {"stop", "oor", "lowYield", "rotation", "other"}])
    /\ cool \in BOOLEAN
    /\ confirmations \in [Challenger -> 0 .. Required]
    /\ DOMAIN replay = Tracked
    /\ \A i \in Tracked : replay[i] \in [stop : 0 .. Cap, trail : 0 .. Cap, peak : Level]
    /\ DOMAIN streak = Tracked /\ \A i \in Tracked : streak[i] \in Count
    /\ decided \subseteq Tracked /\ apart \subseteq Tracked

Start(b) ==
    /\ pc = "idle" /\ book = b
    /\ feed = Quiet /\ raw = <<>>
    /\ cool = FALSE
    /\ confirmations = [c \in Challenger |-> 0]
    /\ replay = [i \in DOMAIN b |-> Unseen(b[i].peak)]
    /\ streak = [i \in DOMAIN b |-> None]
    /\ decided = {} /\ apart = {}

\* Nothing held, or one position the engine opened or found.
Init ==
    \/ Start(<<>>)
    \/ \E i \in Pos, own \in BOOLEAN : Start([j \in {i} |-> Fresh(own)])

Add(n) == IF n < Cap THEN n + 1 ELSE Cap

-----------------------------------------------------------------------------
(* Reading and screening the pool                                          *)

\* The probe of an untrusted token; a failed probe warns. What tokenRiskCache
\* keeps of it until the harvest book is refreshed is left out: it is probed anew.
Verdicts(l) == IF l.trusted THEN {"unread"} ELSE {l.probe, "warn"}

\* The authorities are read fail-open: no answer is no freeze authority.
Frozen(l, read) == read /\ l.freeze /\ ~l.trusted

\* Suspicion is looked at before any exemption.
FreezeRejects(read) ==
    \/ \E l \in Leg : Frozen(l, read) /\ l.sus
    \/ \E l \in Leg : Frozen(l, read) /\ ~l.sus /\ ~l.verified /\ ~SmartFreeze

Screened(read, verdict) ==
    /\ \A l \in Leg : ~l.banned /\ verdict[l] # "reject"
    /\ ~FreezeRejects(read)

Screenings ==
    {Screened(read, verdict) : read \in BOOLEAN,
        verdict \in {v \in [Leg -> {"unread", "ok", "warn", "reject"}] :
                       \A l \in Leg : v[l] \in Verdicts(l)}}

Keep(f, s) == [i \in s |-> f[i]]

OutOfRange(p, out) == [p EXCEPT !.oor = IF ~out THEN 0 ELSE IF @ < Grace THEN @ + 1 ELSE Grace]

\* The mark is the value on chain, or an estimate from the entry legs, or the
\* cost basis; the peak only rises, here and in the backtest.
Raised(r, mark) == [r EXCEPT !.peak = IF mark > @ THEN mark ELSE @]
Marked(p, mark) == Raised([p EXCEPT !.mark = mark], mark)

\* A pool that holds nothing stops here when it fails the pre-filter.
\* The positions the chain no longer lists are dropped (a failed listing drops
\* none) and the others are counted out of range and marked.
Track ==
    /\ pc = "track"
    /\ \/ /\ \E s \in SUBSET Tracked : \E out \in SUBSET s, mark \in [s -> Level] :
               /\ book' = [i \in s |-> Marked(OutOfRange(book[i], i \in out), mark[i])]
               /\ replay' = [i \in s |-> IF feed.saved THEN Raised(replay[i], mark[i])
                                          ELSE replay[i]]
               /\ streak' = Keep(streak, s)
               /\ decided' = decided \cap s /\ apart' = apart \cap s
          /\ pc' = "exit"
          /\ UNCHANGED feed
       \/ /\ Tracked = {}
          /\ pc' = "idle" /\ feed' = Quiet
          /\ UNCHANGED <<book, replay, streak, decided, apart>>
    /\ UNCHANGED <<raw, cool, confirmations>>

-----------------------------------------------------------------------------
(* The exit chain                                                          *)

Exit(i, why) == [act |-> "EXIT", pos |-> i, why |-> why]

\* A drain alone does not count against a position younger than 30 minutes.
FastExit(p) == feed.fast = "depeg" \/ (feed.fast = "drain" /\ ~p.young)

TvlExit == feed.loss \in {"drop", "still"}

Dust(p) == DustExit /\ p.mark = 0

\* due: the take-profit ladder or the invalidation price is reached, or the
\* impermanent loss of a position out of range outweighs its fees.
Chain(p, due) ==
    \/ feed.rot # "none"
    \/ due
    \/ FastExit(p)
    \/ Dust(p)
    \/ TvlExit
    \/ feed.loss = "weak"

ChainReason(p, due) ==
    CASE feed.rot # "none" -> "rotation"
      [] due \/ FastExit(p) \/ Dust(p) \/ TvlExit -> "other"
      [] OTHER -> "lowYield"

StopBreached(p)  == p.own /\ p.mark < Deposit
TrailBreached(p) == p.mark < p.peak

\* mutant: the count has to exceed the confirmations
StopCountStrict(c, breached) == [n |-> IF breached THEN Add(c) ELSE 0, fires |-> breached /\ c >= Confirm]

\* The new count of a debounced stop, and whether it fires.
StopCount(c, breached) ==
    [n |-> IF breached THEN Add(c) ELSE 0, fires |-> breached /\ Add(c) >= Confirm]

\* The stops are looked at only when the chain is silent, and the trailing one
\* only when the hard one is: a count that is not looked at stays as it is.
Stops(p) ==
    LET s == StopCount(p.count.stop, StopBreached(p))
        t == StopCount(p.count.trail, TrailBreached(p))
        stop == IF p.own THEN s.n ELSE p.count.stop
    IN  IF p.own /\ s.fires
        THEN [fires |-> TRUE, count |-> [p.count EXCEPT !.stop = stop]]
        ELSE [fires |-> t.fires, count |-> [stop |-> stop, trail |-> t.n]]

Exits(p, due) == Chain(p, due) \/ Stops(p).fires

Streak(s, p, exits) ==
    [stop  |-> IF ~exits /\ StopBreached(p) THEN Add(s.stop) ELSE 0,
     trail |-> IF ~exits /\ TrailBreached(p) THEN Add(s.trail) ELSE 0]

Ordered(s) == SetToSortSeq(s, <)

-----------------------------------------------------------------------------
(* The backtest's chain                                                    *)

\* Challenge exits are replayed on a drawdown only; the TVL is compared with the
\* snapshot before, however old, and a drop without volume and fees is a dead feed.
ReplayChain(p) ==
    feed.rot = "drawdown" \/ Dust(p) \/ feed.loss \in {"drop", "gap", "weak"}

\* mutant: the replay's stop fires on the first breach
ReplayStopsEager(p, r) ==
    [fires |-> StopBreached(p) \/ p.mark < r.peak, next |-> Unseen(r.peak)]

\* The stops with the replay's counts and against its own peak; it starts over
\* after any exit.
ReplayStops(p, r) ==
    LET s == StopCount(r.stop, StopBreached(p))
        t == StopCount(r.trail, p.mark < r.peak)
        fires == (p.own /\ s.fires) \/ t.fires
    IN  [fires |-> fires,
         next |-> IF fires THEN Unseen(r.peak)
                  ELSE [stop |-> IF p.own THEN s.n ELSE 0, trail |-> t.n, peak |-> r.peak]]

Replayed(p, r, over) == IF over THEN Unseen(r.peak) ELSE ReplayStops(p, r).next

\* All the replay has counted of a position the engine has counted too.
Behind(r, p) == r.stop <= p.count.stop /\ r.trail <= p.count.trail /\ r.peak <= p.peak

Ahead(s) == {i \in s : ~Behind(replay'[i], book'[i])}

\* A snapshot at which both have marked the positions alike.
ReplayedToo ==
    replay' = [i \in Tracked |-> Replayed(book[i], replay[i], ReplayChain(book[i]))]

\* A snapshot the engine saved and did not evaluate, whatever the backtest makes
\* of it: over are the positions it exits for another reason than a stop.
ReplayedAlone ==
    \E mark \in [Tracked -> Level], over \in SUBSET Tracked :
       replay' = [i \in Tracked |->
                    Replayed([book[i] EXCEPT !.mark = mark[i]], Raised(replay[i], mark[i]), i \in over)]

\* The state, the bins and the measured statistics, of which the snapshot is saved,
\* or not, then the screening: a failed read fails the pool, a rejected one yields
\* no decision at all, held or not.
FetchPool ==
    /\ pc = "idle"
    /\ UNCHANGED <<state, raw, streak, decided>>
    /\ \E passed \in Screenings :
         IF passed THEN feed' \in Feed /\ pc' = "track" /\ UNCHANGED <<replay, apart>>
         ELSE /\ ReplayedAlone \/ UNCHANGED replay
              /\ apart' = Ahead(Tracked)
              /\ UNCHANGED <<feed, pc>>

ExitPhase ==
    /\ pc = "exit"
    /\ \E due \in SUBSET Tracked :
         LET chain(i) == Chain(book[i], i \in due)
             out == {i \in Tracked : Exits(book[i], i \in due)}
             why(i) == IF chain(i) THEN ChainReason(book[i], i \in due) ELSE "stop"
             decision(i) == Exit(i, why(i))
         IN  /\ raw' = [k \in 1 .. Cardinality(out) |-> decision(Ordered(out)[k])]
             /\ book' = [i \in Tracked |->
                           IF chain(i) THEN book[i] ELSE [book[i] EXCEPT !.count = Stops(book[i]).count]]
             /\ streak' = [i \in Tracked |-> Streak(streak[i], book[i], i \in out)]
             /\ decided' = decided \cup out
    /\ IF feed.saved THEN ReplayedToo ELSE UNCHANGED replay
    /\ apart' = Ahead(IF feed.saved THEN apart ELSE Tracked)
    /\ pc' = "rebalance" /\ feed' = Quiet
    /\ UNCHANGED <<cool, confirmations>>

-----------------------------------------------------------------------------
(* Rebalance, rotation and entry                                           *)

Undecided == Tracked \ {raw[k].pos : k \in DOMAIN raw}

\* One observation of a challenger: superior ones add up to Required.
Observe(n, superior) ==
    IF ~superior THEN 0 ELSE IF n < Required THEN n + 1 ELSE n

\* Only the strongest challenger is observed; when it is not superior another
\* may qualify, on the observations it has from earlier cycles.
Challenge(acc, i, best, superior, other) ==
    LET seen == [acc.seen EXCEPT ![best] = Observe(@, superior)]
        c == IF superior THEN best ELSE other
    IN  [seen |-> seen,
         raw |-> IF c \in Challenger /\ seen[c] >= Required
                 THEN Append(acc.raw, Exit(i, "other")) ELSE acc.raw]

\* What becomes of a position no exit was decided for: high volatility sends a
\* drifted one to the wallet; one that drifted, or is out of range for Grace
\* cycles, is rebalanced when that pays, an adopted one never; the rest holds
\* while the pool is healthy and is challenged when it is not.
Outcome(p, volatile) ==
    {"stay"} \cup (IF volatile THEN {"leave"} ELSE {})
             \cup (IF p.own /\ (volatile => p.oor >= Grace) THEN {"rebalance"} ELSE {})

Decided(i, outcome) ==
    CASE outcome = "leave" -> Exit(i, "oor")
      [] outcome = "rebalance" -> [act |-> "REBALANCE", pos |-> i, why |-> "other"]
      [] outcome = "stay" -> [act |-> "HOLD", pos |-> i, why |-> "other"]

RebalancePhase ==
    /\ pc = "rebalance"
    /\ \E volatile, healthy \in BOOLEAN, best \in Challenger,
          other \in Challenger \cup {"none"}, superior \in SUBSET Undecided,
          o \in [Undecided -> {"stay", "leave", "rebalance"}] :
         /\ \A i \in Undecided : o[i] \in Outcome(book[i], volatile)
         /\ healthy => superior = {} /\ other = "none"
         /\ LET step(acc, i) == IF o[i] = "stay" /\ ~healthy
                                THEN Challenge(acc, i, best, i \in superior, other)
                                ELSE [acc EXCEPT !.raw = Append(@, Decided(i, o[i]))]
                all == FoldLeft(step, [seen |-> confirmations, raw |-> raw], Ordered(Undecided))
            IN  confirmations' = all.seen /\ raw' = all.raw
    /\ decided' = decided \cup {raw'[k].pos : k \in {j \in DOMAIN raw' : raw'[j].act = "EXIT"}}
    /\ pc' = "enter"
    /\ UNCHANGED <<book, feed, cool, replay, streak, apart>>

Exiting == \E k \in DOMAIN raw : raw[k].act = "EXIT"

\* A pool that is leaving a position, or is full, has no entry slot.
SlotOpen == ~Exiting /\ Cardinality(Tracked) < MaxPerPool

\* The gates an entry passes: the first ones and the last ones reject it, a
\* fallen angel goes by the first only, the ones between downgrade it to HOLD.
Entries(admitted) ==
    IF ~SlotOpen THEN {"none"}
    ELSE IF ~admitted \/ cool THEN {"rejected"}
    ELSE {"rejected", "none", "enter"}

EnterSlot ==
    /\ pc = "enter"
    /\ \E admitted \in BOOLEAN : \E e \in Entries(admitted) :
         raw' = IF e = "enter" THEN Append(raw, [act |-> "ENTER", pos |-> 0, why |-> "other"])
                ELSE IF e = "none" /\ raw = <<>>
                     THEN <<[act |-> "HOLD", pos |-> 0, why |-> "other"]>> ELSE raw
    /\ pc' = "tail"
    /\ UNCHANGED <<state, feed, replay, streak, decided, apart>>

\* The exits that put the pool on cooldown, when approved, executed or not: an
\* out-of-range one, a low yield, a rotation of challenge mode.  A take-profit,
\* a stop or the loss of a seat writes none.
Cools(d) ==
    \/ d.why \in {"oor", "lowYield", "rotation"}
    \/ book[d.pos].oor >= Grace /\ book[d.pos].oor > 0

\* A rebalance of the live engine mints the position anew: its row is kept, with
\* deposit and peak, under another id (here it keeps its name) for which no breach
\* is counted.  On paper the id stays.
Uncounted(p) == [p EXCEPT !.count = None]

\* The tail, by its result: each decision is approved or not, an approved one
\* is executed or fails.
Settle ==
    /\ pc = "tail"
    /\ \E approved \in SUBSET DOMAIN raw : \E done \in SUBSET approved :
         LET by(act) == {raw[k].pos : k \in {j \in done : raw[j].act = act}}
             opened == {k \in done : raw[k].act = "ENTER"}
             stay == Tracked \ by("EXIT")
         IN  \E new \in SUBSET (Pos \ Tracked), moved \in {{}, by("REBALANCE") \cap stay} :
               /\ Cardinality(new) = Cardinality(opened)
               /\ book' = [i \in stay \cup new |->
                             IF i \in new THEN Fresh(TRUE)
                             ELSE IF i \in moved THEN Uncounted(book[i]) ELSE book[i]]
               /\ replay' = [i \in stay \cup new |->
                               IF i \in new THEN Unseen(Deposit) ELSE replay[i]]
               /\ streak' = [i \in stay \cup new |->
                               IF i \in new \cup moved THEN None ELSE streak[i]]
               /\ decided' = decided \cap stay
               /\ apart' = (apart \cap stay) \cup Ahead(moved)
               /\ cool' = (cool \/ \E k \in approved : raw[k].act = "EXIT" /\ Cools(raw[k]))
    /\ pc' = "idle" /\ raw' = <<>> /\ feed' = Quiet
    /\ UNCHANGED <<confirmations>>

CooldownElapses ==
    /\ pc = "idle" /\ cool
    /\ cool' = FALSE
    /\ UNCHANGED <<pc, book, feed, raw, confirmations, replay, streak, decided, apart>>

\* A position is more than 30 minutes old.
Ages ==
    /\ pc = "idle"
    /\ \E i \in Tracked :
         /\ book[i].young
         /\ book' = [book EXCEPT ![i].young = FALSE]
    /\ UNCHANGED <<pc, feed, raw, cool, confirmations, replay, streak, decided, apart>>

\* The breach counts and the token verdicts are in memory; the marks and the
\* out-of-range counts are in the position rows, the confirmations in theirs,
\* except what the interrupted cycle observed.  The backtest counts on, through
\* the snapshot the interrupted cycle saved as well.
Restart ==
    /\ pc' = "idle"
    /\ book' = [i \in Tracked |-> Uncounted(book[i])]
    /\ confirmations' \in {confirmations, [c \in Challenger |-> 0]}
    /\ streak' = [i \in Tracked |-> None]
    /\ \/ UNCHANGED replay
       \/ pc = "track" /\ feed.saved /\ ReplayedAlone
       \/ pc = "exit" /\ feed.saved /\ ReplayedToo
    /\ apart' = Ahead(Tracked)
    /\ feed' = Quiet /\ raw' = <<>>
    /\ UNCHANGED <<cool, decided>>

Next ==
    \/ FetchPool \/ Track \/ ExitPhase \/ RebalancePhase
    \/ EnterSlot \/ Settle \/ CooldownElapses \/ Ages \/ Restart

Spec == Init /\ [][Next]_vars

-----------------------------------------------------------------------------
(* Properties                                                              *)

\* A stop is debounced, not lost: of Confirm evaluations in a row, under one id
\* and in one run of the engine, in which a position is below its hard stop, or
\* below its trailing stop, one decides its EXIT, whatever other reasons to exit
\* came and went between them.  (A live rebalance and a restart begin a new row.)
BreachActedOn ==
    \A i \in Tracked : streak[i].stop < Confirm /\ streak[i].trail < Confirm

\* What the replay's exits are compared with, as a step.
ReplayStep ==
    pc = "exit" /\ pc' = "rebalance" /\ feed.saved /\ feed.loss # "gap"
    => \A i \in Tracked :
         ReplayChain(book[i]) \/ (ReplayStops(book[i], replay[i]).fires /\ i \notin apart)
         => i \in decided'

\* The backtest is not more eager than the engine: of the snapshots the engine
\* evaluates, it exits on none a position the engine has not decided to exit by
\* then.  Its stops may be ahead only with breaches, or a peak, the engine lost to
\* a rebalance or a restart, saw in a read its screening rejected, or made up for in
\* one that was not saved, and only until the engine's counts have caught up; a TVL
\* that dropped over an outage of more than 26 hours is the backtest's alone.
ReplayExitIsLive == [][ReplayStep]_vars

=============================================================================
