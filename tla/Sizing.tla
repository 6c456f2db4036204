------------------------------- MODULE Sizing -------------------------------
(***************************************************************************)
(* How much an entry deploys: the size of a slot (entry-sizing.ts), its    *)
(* allocation, the size an agent proposes, the last size gate              *)
(* (risk-service.ts), and the wider size of the redeployment pass          *)
(* (program.ts), over the entries, exits and prices of several cycles, in  *)
(* whole dollars.  What makes a pool a candidate is in EntryGates.         *)
(***************************************************************************)
EXTENDS Naturals, Functions

CONSTANTS
    Pool, Tvl,      \* pools, the liquidity of each
    Paper,          \* paperTrading
    Seed,           \* paperPortfolioUsd
    Balance,        \* what the wallet holds at first
    CapPct,         \* maxPerPoolAllocationPct, in percent
    SharePct,       \* challengePoolShareCapPct
    EquityPct, TvlPct, MaxSize, Floor,  \* of a slot's size
    DefaultFloor,   \* ENTRY_SIZE_FLOOR_USD
    Threshold, RedeployMax,   \* idleRedeployThresholdUsd, idleRedeployMaxSizeUsd
    AgentPct,       \* agentProposalMaxPositionSizePct
    Proposed,       \* sizes an agent proposes; none: no agent
    MaxPerPool, MaxOpen,
    Cycles          \* bound: cycles

VARIABLES
    wallet,     \* live: what the wallet holds
    read,       \* lastWalletBalanceUsd
    known,      \* walletEverReadSuccessfully
    blocked,    \* liveEntriesBlockedRestOfCycle
    worth,      \* currentValueUsd of the positions of a pool
    held,       \* their number
    cycle, visited,   \* the pools whose slot this cycle decided
    candidates, \* idleRedeployCandidates: normalEntrySizeUsd, 0 for no candidate
    d,          \* the entry under way: its pool, size, path and portfolio value
    last        \* history: the entry just booked, with the exposure of its pool
                \* after it and what the book was worth before it
vars == <<wallet, read, known, blocked, worth, held, cycle, visited, candidates, d, last>>
money == <<wallet, read, known, blocked, worth, held>>

NoEntry == [pool |-> "none", size |-> 0, path |-> "none", agent |-> FALSE,
            pc |-> "idle", portfolio |-> 0]
NoneYet == [pool |-> "none", size |-> 0, path |-> "none", agent |-> FALSE,
            least |-> 0, exposure |-> 0, equity |-> 0, twice |-> FALSE]

TypeOK ==
    /\ wallet \in Nat /\ read \in Nat /\ known \in BOOLEAN /\ blocked \in BOOLEAN
    /\ worth \in [Pool -> Nat] /\ held \in [Pool -> 0 .. MaxPerPool]
    /\ cycle \in 0 .. Cycles /\ visited \subseteq Pool \cup {"pass"} /\ candidates \in [Pool -> Nat]
    /\ d.pc \in {"idle", "decided", "judged"} /\ d.size \in Nat

Init ==
    /\ wallet = Balance /\ read = Seed /\ known = FALSE /\ blocked = FALSE
    /\ worth = [p \in Pool |-> 0] /\ held = [p \in Pool |-> 0]
    /\ cycle = 0 /\ visited = Pool \cup {"pass"} /\ candidates = [p \in Pool |-> 0]
    /\ d = NoEntry /\ last = NoneYet

-----------------------------------------------------------------------------
(* The sizes                                                               *)

Least(S) == CHOOSE x \in S : \A y \in S : x <= y
Share(pct, usd) == (usd * pct) \div 100
Less(a, b) == IF a > b THEN a - b ELSE 0

Total(f) == FoldFunction(LAMBDA x, y : x + y, 0, f)
Deployed == Total(worth)
Open == Total(held)

\* The portfolio of a slot adds what is deployed to the wallet; the redeployment
\* pass takes the paper seed for all of it.
Portfolio == read + Deployed
Whole == IF Paper THEN Seed ELSE Portfolio
Idle == IF Paper THEN Less(Seed, Deployed) ELSE wallet

\* computeEntrySizeUsd, computeIdleRedeploySizeUsd.
EntrySize(p) ==
    LET least == Least({Share(EquityPct, Portfolio), Share(TvlPct, Tvl[p]), MaxSize,
                        Share(50, read)})
    IN IF least > Floor THEN least ELSE Floor
RedeploySize == Least({Share(50, Idle), Share(CapPct, Whole), RedeployMax})

CountsFitPool(p) == held[p] < MaxPerPool   \* the cap of the book forgotten (a mutant)
CountsFit(p) == held[p] < MaxPerPool /\ Open < MaxOpen

\* evaluatePerPoolAllocation: what the pool has room for; 0 is a refusal.
HeadroomOfAll(p, portfolio) == Share(CapPct, portfolio)   \* siblings forgotten (a mutant)
Headroom(p, portfolio) == Less(Share(CapPct, portfolio), worth[p])
Allocated(p, size, portfolio, shared) ==
    LET share == IF shared THEN {Less(Share(SharePct, Tvl[p]), worth[p])} ELSE {} IN
    IF CountsFit(p) THEN Least({size, Headroom(p, portfolio)} \cup share) ELSE 0

\* capProposalSize: an agent's size within its own share, the pool's, and the
\* allocation, here without the pool's liquidity; 0 is a refusal.
AgentSize(p, size, portfolio) ==
    Allocated(p, Least({size, Share(AgentPct, portfolio), Share(CapPct, portfolio)}),
              portfolio, FALSE)

\* gatePositionSize: within the headroom, and not below the least size.
MinEntry == IF d.path = "slot" THEN Floor ELSE DefaultFloor
GatedUncut(size) == size   \* a gate that only looks (a mutant)
Gated(size) ==
    LET fit == Least({size, Headroom(d.pool, d.portfolio)}) IN
    IF size < MinEntry \/ fit < MinEntry \/ held[d.pool] >= MaxPerPool THEN 0 ELSE fit

-----------------------------------------------------------------------------
(* The cycle                                                               *)

\* The wallet is read at the top of the cycle; a failed read keeps the last.
Start ==
    /\ d.pc = "idle" /\ cycle < Cycles /\ cycle' = cycle + 1
    /\ \/ read' = (IF Paper THEN Seed ELSE wallet) /\ known' = TRUE
       \/ ~Paper /\ UNCHANGED <<read, known>>
    /\ blocked' = FALSE /\ visited' = {} /\ candidates' = [p \in Pool |-> 0]
    /\ last' = NoneYet /\ UNCHANGED <<wallet, worth, held, d>>

Decided(p, size, path, portfolio) ==
    [pool |-> p, size |-> size, path |-> path, agent |-> FALSE, pc |-> "decided",
     portfolio |-> portfolio]

Allowed == Paper \/ (known /\ ~blocked)

\* The slot of a pool: nothing; or an entry, that makes the pool a candidate of
\* the redeployment, whether its allocation allows it or not.
Slot(p) ==
    LET size == Allocated(p, EntrySize(p), Portfolio, TRUE) IN
    /\ d.pc = "idle" /\ p \notin visited /\ "pass" \notin visited
    /\ visited' = visited \cup {p}
    /\ \/ UNCHANGED <<d, candidates>>
       \/ /\ Allowed /\ size > 0
          /\ d' = Decided(p, size, "slot", Portfolio)
          /\ candidates' = [candidates EXCEPT ![p] = size]
       \/ /\ Allowed /\ size = 0
          /\ candidates' = [candidates EXCEPT ![p] = EntrySize(p)] /\ UNCHANGED d
    /\ last' = NoneYet /\ UNCHANGED <<money, cycle>>

\* After the slots: the candidates in turn, where enough lies idle, until one is
\* entered.
Redeploy ==
    /\ d.pc = "idle" /\ Pool \subseteq visited /\ "pass" \notin visited
    /\ \/ visited' = visited \cup {"pass"} /\ UNCHANGED <<d, candidates>>
       \/ /\ Idle > Threshold /\ ~blocked /\ RedeploySize >= DefaultFloor
          /\ \E p \in Pool :
               LET size == Allocated(p, RedeploySize, Whole, TRUE) IN
               /\ candidates[p] > 0 /\ size > 0
               /\ d' = Decided(p, size, "redeploy", Whole)
          /\ UNCHANGED <<visited, candidates>>
    /\ last' = NoneYet /\ UNCHANGED <<money, cycle>>

\* The overlay may replace the size; a refused proposal leaves it.
Propose ==
    /\ d.pc = "decided" /\ ~d.agent
    /\ \E s \in Proposed :
         LET size == AgentSize(d.pool, s, d.portfolio) IN
         size > 0 /\ d' = [d EXCEPT !.size = size, !.agent = TRUE]
    /\ UNCHANGED <<money, cycle, visited, candidates, last>>

\* The risk tail; the gates before the size may refuse as well.  A redeployment
\* that is not wider than the slot's entry is skipped (checkWidenedSize), and the
\* next candidate is tried.
Wider(size) == d.path = "redeploy" => size > candidates[d.pool]
Judge ==
    /\ d.pc = "decided"
    /\ \/ /\ d' = NoEntry
          /\ candidates' = IF d.path = "redeploy" THEN [candidates EXCEPT ![d.pool] = 0]
                           ELSE candidates
       \/ /\ Gated(d.size) > 0 /\ Wider(Gated(d.size)) /\ UNCHANGED candidates
          /\ d' = [d EXCEPT !.size = Gated(d.size), !.pc = "judged"]
    /\ UNCHANGED <<money, cycle, visited, last>>

Book ==
    /\ worth' = [worth EXCEPT ![d.pool] = @ + d.size]
    /\ held' = [held EXCEPT ![d.pool] = @ + 1]
    /\ last' = [pool |-> d.pool, size |-> d.size, path |-> d.path, agent |-> d.agent,
                least |-> MinEntry, exposure |-> worth[d.pool] + d.size,
                equity |-> IF Paper THEN Seed ELSE wallet + Deployed,
                twice |-> ~Paper /\ read > wallet]

\* Paper books the entry; live the wallet pays for it, and is read again: until a
\* read succeeds, what was deployed counts twice, so the cycle takes no more
\* entries.  An entry may fail, and ends a redeployment all the same.
Enter ==
    /\ d.pc = "judged" /\ d' = NoEntry
    /\ \/ Paper /\ Book /\ UNCHANGED <<wallet, read, blocked>>
       \/ /\ ~Paper /\ wallet >= d.size /\ Book /\ wallet' = wallet - d.size
          /\ \/ read' = wallet' /\ UNCHANGED blocked
             \/ blocked' = TRUE /\ UNCHANGED read
       \/ UNCHANGED <<wallet, read, blocked, worth, held, last>>
    /\ visited' = IF d.path = "redeploy" THEN visited \cup {"pass"} ELSE visited
    /\ UNCHANGED <<known, cycle, candidates>>

\* A pool leaves its slot with an exit of some of its positions, an equal share
\* of its worth each; a failed read keeps what was there before.
Exit(p) ==
    /\ d.pc = "idle" /\ p \notin visited /\ "pass" \notin visited
    /\ visited' = visited \cup {p}
    /\ \E n \in 1 .. held[p] :
         LET out == (worth[p] * n) \div held[p] IN
         /\ worth' = [worth EXCEPT ![p] = @ - out] /\ held' = [held EXCEPT ![p] = @ - n]
         /\ IF Paper THEN UNCHANGED <<wallet, read>>
            ELSE wallet' = wallet + out /\ read' \in {read, wallet + out}
    /\ last' = NoneYet /\ UNCHANGED <<known, blocked, cycle, candidates, d>>

\* Between cycles what a pool holds may lose half of its worth.
Price(p) ==
    /\ d.pc = "idle" /\ "pass" \in visited /\ held[p] > 0
    /\ worth' = [worth EXCEPT ![p] = @ \div 2]
    /\ last' = NoneYet
    /\ UNCHANGED <<wallet, read, known, blocked, held, cycle, visited, candidates, d>>

Next ==
    \/ Start \/ Redeploy \/ Propose \/ Judge \/ Enter
    \/ \E p \in Pool : Slot(p) \/ Exit(p) \/ Price(p)
Spec == Init /\ [][Next]_vars

-----------------------------------------------------------------------------
(* Properties                                                              *)

Within(e) == e.exposure <= Share(CapPct, e.equity)

\* After an entry, whoever sized it, the pool holds at most its share of what the
\* book was worth, however entries, exits, prices and failed reads came before:
\* live while nothing deployed counts as cash too, on paper in the redeployment.
CapHeld ==
    IF Paper THEN last.path = "redeploy" => Within(last)
    ELSE ~last.twice => Within(last)

\* No entry, trimmed by a cap at any of the gates, is left too small to pay for.
NoDust == last.size >= last.least

\* An entry sized by the rules stays within the share of the pool's liquidity.
ShareHeld ==
    last.path # "none" /\ ~last.agent => last.exposure <= Share(SharePct, Tvl[last.pool])

\* The slot, an agent and the redeployment never open a position too many.
SlotsHeld == Open <= MaxOpen /\ \A p \in Pool : held[p] <= MaxPerPool

\* All four, live and on paper.
Sized == CapHeld /\ NoDust /\ ShareHeld /\ SlotsHeld

\* What the code says: a live entry never counts what is deployed twice, "further
\* entries are blocked until the next cycle re-reads the wallet".
LiveCapHeld == ~Paper => Within(last)

\* An entry an agent sized keeps within the share of the pool's liquidity, too.
ShareCapHeld ==
    last.path # "none" => last.exposure <= Share(SharePct, Tvl[last.pool])
=============================================================================
