----------------------------- MODULE ScanCycle -----------------------------
(***************************************************************************)
(* One scan cycle after another (runScanCycle in engine/program.ts): the   *)
(* wallet and the native budget are read, each pool is evaluated into a    *)
(* list of decisions, every decision passes the agent overlay, the         *)
(* supervised hold, the stops, the risk engine and the entry gates before  *)
(* it is executed, and idle capital may be redeployed at the end.          *)
(*                                                                         *)
(* Proposals arrive over HTTP between any two steps; the queue is          *)
(* ProposalQueue.  How a transaction may fail is LiveExecution's subject:  *)
(* here an execution either happens or does not.  The signals behind a     *)
(* pool's decisions are left open: any position may be held, rebalanced or *)
(* exited, and an entry may be proposed whenever its gates allow one.      *)
(***************************************************************************)
EXTENDS Naturals, SequencesExt, ProposalQueue

CONSTANTS
    Setting,      \* records [agent, exec]: AGENT_PROPOSAL_MODE and the way orders are sent
    Watchlist,    \* WATCHLIST_POOLS: proposals are taken for them and for held pools
    Advice,       \* the actions an advisor proposes
    Boot,         \* the books the engine may boot with
    Native,       \* pools with a native leg: an entry spends the wallet's ETH
    MaxPerPool,   \* MAX_POSITIONS_PER_POOL
    MaxId,        \* bound: proposals received
    MaxPos,       \* bound: positions ever tracked
    MaxEth,       \* bound: entries the wallet's free ETH can pay for
    MaxCycles,    \* bound: scan cycles
    MaxRestarts   \* bound: crashes of the process

ASSUME ScanCycleAssumption ==
    /\ Native \subseteq Pool
    /\ Watchlist \subseteq Pool
    /\ Advice \subseteq Act
    /\ {"HOLD", "EXIT", "ENTER", "REBALANCE"} \subseteq Act
    /\ Pool # {}
    /\ \A b \in Boot : /\ IsFiniteSet(b)
                       /\ b \subseteq [id : 1 .. MaxPos, pool : Pool, own : BOOLEAN]
                       /\ \A x, y \in b : x.id = y.id => x = y
    /\ Setting \subseteq [agent : {"off", "veto", "suggest", "supervised", "full"},
                          exec : {"live", "paper", "shadow"}]
    /\ {MaxPerPool, MaxId, MaxPos, MaxEth, MaxCycles, MaxRestarts, MaxQueue}
            \subseteq Nat

VARIABLES
    setting,
    \* the wallet
    eth,         \* entries its free ETH pays for
    \* the engine's memory
    book,        \* trackedPositions: [id, pool, own]; own: it has a cost basis
    budget,      \* [known, priced, free]: entrySolBudget*, entryNativePriceUsd > 0
    blocked,     \* liveEntriesBlockedRestOfCycle
    walletRead,  \* walletEverReadSuccessfully
    entryBackoff,\* pools in entryFailureBackoff
    cooling,     \* pools with an active cooldown row
    advisor,     \* pools whose advisor is in backoff or behind an open breaker
    queue, nextId,
    \* the cycle
    pc, todo,    \* pools left to evaluate
    raw,         \* rawDecisions of the pool at hand, [act, pool, pos]
    cur,         \* the decision in the tail
    cands,       \* idleRedeployCandidates, then those left to try
    exited,      \* executedExitPools
    cycles, restarts,
    \* observation
    wallet,      \* what lastWalletBalanceUsd still counts, see WalletState
    endorsed,    \* ids a human approved
    used         \* ids that took part in an execution

capital == <<eth, book, budget, blocked, walletRead, wallet>>
proposals == <<queue, nextId, endorsed>>
vars == <<setting, capital, entryBackoff, cooling, advisor, proposals, pc,
          todo, raw, cur, cands, exited, cycles, restarts, used>>

\* seed: the configured paper portfolio.  spent: also the capital of an entry
\* of this cycle, which is tracked as a position too.  carried: the same, of
\* an earlier cycle.
WalletState == {"seed", "true", "spent", "carried"}

Id    == 1 .. MaxId
NoId  == 0
NoPos == 0
Decision == [act : Act, pool : Pool, pos : 0 .. MaxPos]
AnyPool  == CHOOSE p \in Pool : TRUE
Idle == [raw |-> [act |-> "HOLD", pool |-> AnyPool, pos |-> NoPos],
         dec |-> [act |-> "HOLD", pool |-> AnyPool, pos |-> NoPos],
         prop |-> NoId, agent |-> FALSE, done |-> FALSE, short |-> FALSE]

PositionsOf(p) == {x.id : x \in {y \in book : y.pool = p}}
Held(p) == PositionsOf(p) # {}

\* mutant: the pool that has its last place taken
HasPlaceAtMost(p) == Cardinality(PositionsOf(p)) <= MaxPerPool

\* The enter slot and the risk engine (gatePerPoolCap) count whatever is tracked.
HasPlace(p) == Cardinality(PositionsOf(p)) < MaxPerPool

\* Adopted positions do not count towards the caps of the allocation gate.
OwnPositionsOf(p) == {x.id : x \in {y \in book : y.pool = p /\ y.own}}
\* The position of the pool that was opened first, none if the pool has none.
First(p) == {i \in PositionsOf(p) : \A j \in PositionsOf(p) : i <= j}

Live == setting.exec = "live"
Agentic == setting.agent \in {"suggest", "supervised", "full"}

TypeOK ==
    /\ setting \in Setting
    /\ eth \in 0 .. MaxEth
    /\ book \subseteq [id : 1 .. MaxPos, pool : Pool, own : BOOLEAN]
    /\ budget \in [known : BOOLEAN, priced : BOOLEAN, free : 0 .. MaxEth]
    /\ blocked \in BOOLEAN
    /\ walletRead \in BOOLEAN
    /\ entryBackoff \subseteq Pool
    /\ cooling \subseteq Pool
    /\ advisor \subseteq Pool
    /\ queue \subseteq [id : Id, pool : Pool, act : Act, approved : BOOLEAN,
                        live : BOOLEAN]
    /\ nextId \in 1 .. MaxId + 1
    /\ pc \in {"idle", "pool", "tail", "gate", "send", "final",
               "redeploy", "rgate", "rsend", "rfinal"}
    /\ todo \subseteq Pool
    /\ raw \in Seq(Decision)
    /\ cur \in [raw : Decision, dec : Decision, prop : 0 .. MaxId,
                agent : BOOLEAN, done : BOOLEAN, short : BOOLEAN]
    /\ cands \subseteq Pool
    /\ exited \subseteq Pool
    /\ cycles \in 0 .. MaxCycles
    /\ restarts \in 0 .. MaxRestarts
    /\ wallet \in WalletState
    /\ endorsed \subseteq Id
    /\ used \subseteq Id

\* The engine has booted with the positions it tracked or found.
Init ==
    /\ setting \in Setting
    /\ eth = MaxEth
    /\ book \in Boot
    /\ budget = [known |-> FALSE, priced |-> FALSE, free |-> 0]
    /\ blocked = FALSE
    /\ walletRead = FALSE
    /\ entryBackoff = {} /\ cooling = {} /\ advisor = {}
    /\ queue = {} /\ nextId = 1
    /\ pc = "idle" /\ todo = {} /\ raw = <<>> /\ cur = Idle
    /\ cands = {} /\ exited = {}
    /\ cycles = 0 /\ restarts = 0
    /\ wallet = "seed"
    /\ endorsed = {} /\ used = {}

-----------------------------------------------------------------------------
(* What happens around the cycle                                           *)

\* POST /propose.  Veto mode and a disabled agent answer 409, a pool that is
\* not scanned 400.
Propose(p, a) ==
    /\ Agentic
    /\ p \in Watchlist \/ Held(p)
    /\ nextId <= MaxId
    /\ queue' = Enqueue(queue, [id |-> nextId, pool |-> p, act |-> a,
                                approved |-> FALSE, live |-> TRUE])
    /\ nextId' = nextId + 1
    /\ UNCHANGED <<setting, capital, entryBackoff, cooling, advisor, endorsed,
                   pc, todo, raw, cur, cands, exited, cycles, restarts, used>>

\* POST /approve, or the MCP tool.
HumanApproves(x) ==
    /\ x \in Prune(queue)
    /\ queue' = Approve(queue, x.id)
    /\ endorsed' = endorsed \cup {x.id}
    /\ UNCHANGED <<setting, capital, entryBackoff, cooling, advisor, nextId,
                   pc, todo, raw, cur, cands, exited, cycles, restarts, used>>

\* expiresAt passes.
Expires(x) ==
    /\ x \in queue /\ x.live
    /\ queue' = (queue \ {x}) \cup {[x EXCEPT !.live = FALSE]}
    /\ UNCHANGED <<setting, capital, entryBackoff, cooling, advisor, nextId,
                   endorsed, pc, todo, raw, cur, cands, exited, cycles,
                   restarts, used>>

\* A backoff, an open breaker or a cooldown of pool p runs out.
Elapses(p) ==
    /\ \/ /\ p \in advisor
          /\ advisor' = advisor \ {p}
          /\ UNCHANGED <<entryBackoff, cooling>>
       \/ /\ p \in entryBackoff
          /\ entryBackoff' = entryBackoff \ {p}
          /\ UNCHANGED <<advisor, cooling>>
       \/ /\ p \in cooling
          /\ cooling' = cooling \ {p}
          /\ UNCHANGED <<advisor, entryBackoff>>
    /\ UNCHANGED <<setting, capital, proposals, pc, todo, raw, cur, cands,
                   exited, cycles, restarts, used>>

\* The process dies and boots: positions and cooldowns are in the database,
\* everything else was in memory, the queue of proposals too.
Restart ==
    /\ restarts < MaxRestarts
    /\ restarts' = restarts + 1
    /\ budget' = [known |-> FALSE, priced |-> FALSE, free |-> 0]
    /\ blocked' = FALSE /\ walletRead' = FALSE /\ wallet' = "seed"
    /\ entryBackoff' = {} /\ advisor' = {} /\ queue' = {}
    /\ pc' = "idle" /\ todo' = {} /\ raw' = <<>> /\ cur' = Idle
    /\ cands' = {} /\ exited' = {}
    /\ UNCHANGED <<setting, eth, book, cooling, nextId, endorsed, cycles, used>>

-----------------------------------------------------------------------------
(* The top of the cycle and the evaluation of a pool                       *)

\* One read of the wallet; a failed read keeps the last value.
ReadWallet(ok) ==
    /\ walletRead' = (walletRead \/ (Live /\ ok))
    /\ wallet' = CASE Live /\ ok -> "true"
                   [] wallet = "spent" -> "carried"
                   [] OTHER -> wallet

\* One read of the balance and of the price; if either fails, both are unset.
ReadBudget(ok) ==
    budget' = IF Live /\ ok
              THEN [known |-> TRUE, priced |-> TRUE, free |-> eth]
              ELSE [known |-> FALSE, priced |-> FALSE, free |-> 0]

StartCycle ==
    /\ pc = "idle"
    /\ cycles < MaxCycles
    /\ cycles' = cycles + 1
    /\ blocked' = FALSE
    /\ \E ok \in BOOLEAN : ReadWallet(ok)
    /\ \E ok \in BOOLEAN : ReadBudget(ok)
    /\ todo' = Pool
    /\ cands' = {} /\ exited' = {}
    /\ pc' = "pool"
    /\ UNCHANGED <<setting, eth, book, entryBackoff, cooling, advisor,
                   proposals, raw, cur, restarts, used>>

\* The gates of the enter slot that are about state of this model.
EnterAllowed(p) ==
    /\ HasPlace(p)
    /\ Live => walletRead /\ ~blocked
    /\ p \notin entryBackoff
    /\ p \notin cooling

\* One decision per position; a REBALANCE only of the engine's own.
PositionDecisions(p) ==
    {f \in [PositionsOf(p) -> {"HOLD", "REBALANCE", "EXIT"} \cap Act] :
        \A x \in book : x.id \in PositionsOf(p) /\ f[x.id] = "REBALANCE" => x.own}

\* Some positions, in the order they were opened (the one sequence of this
\* set), and the decisions on them.
Opened(some) ==
    {s \in [1 .. Cardinality(some) -> some] :
        \A i, j \in DOMAIN s : i < j => s[i] < s[j]}

InOrder(f, p, s) == [i \in DOMAIN s |-> [act |-> f[s[i]], pool |-> p, pos |-> s[i]]]

\* s: the exits of the exit phase, which come before what the rebalance phase
\* decides (an exit too, at times) for the positions t it left.
Decided(f, p, s, t, enter) ==
    InOrder(f, p, s) \o InOrder(f, p, t) \o
    IF enter THEN <<[act |-> "ENTER", pool |-> p, pos |-> NoPos]>> ELSE <<>>

Exiting(f) == \E i \in DOMAIN f : f[i] = "EXIT"

\* The entry slot runs in a pool that keeps its positions and has a place left.
Slot(f, p) == ~Exiting(f) /\ HasPlace(p)

\* With nothing else to do: a HOLD, or nothing if an entry was refused.
Listed(p, some) ==
    IF some # <<>> THEN {some}
    ELSE {<<>>, <<[act |-> "HOLD", pool |-> p, pos |-> NoPos]>>}

Evaluate(p) ==
    /\ pc = "pool" /\ p \in todo
    /\ todo' = todo \ {p}
    /\ \E f \in PositionDecisions(p), enter \in BOOLEAN, vetted \in BOOLEAN :
         /\ enter => Slot(f, p) /\ EnterAllowed(p)
         /\ vetted => IF Slot(f, p) THEN EnterAllowed(p) ELSE ~Exiting(f)
         /\ enter => vetted
         /\ cands' = IF vetted THEN cands \cup {p} ELSE cands
         /\ \E first \in SUBSET {i \in DOMAIN f : f[i] = "EXIT"} :
            \E s \in Opened(first), t \in Opened(DOMAIN f \ first) :
               raw' \in Listed(p, Decided(f, p, s, t, enter))
    /\ pc' = IF raw' = <<>> THEN "pool" ELSE "tail"
    /\ UNCHANGED <<setting, capital, entryBackoff, cooling, advisor, proposals,
                   cur, exited, cycles, restarts, used>>

\* A failed pool (no state, no bins) yields nothing.
EvaluateFails(p) ==
    /\ pc = "pool" /\ p \in todo
    /\ todo' = todo \ {p}
    /\ UNCHANGED <<setting, capital, entryBackoff, cooling, advisor, proposals,
                   pc, raw, cur, cands, exited, cycles, restarts, used>>

\* The redeploy pass is skipped while entries are blocked.
PoolsDone ==
    /\ pc = "pool" /\ todo = {}
    /\ pc' = IF cands # {} /\ ~blocked THEN "redeploy" ELSE "idle"
    /\ UNCHANGED <<setting, capital, entryBackoff, cooling, advisor, proposals,
                   todo, raw, cur, cands, exited, cycles, restarts, used>>

-----------------------------------------------------------------------------
(* The agent overlay                                                       *)

\* The position an accepted proposal acts on: the one it names, else the
\* decision's, else the only one of the pool.
Targets(a, r) ==
    PositionsOf(r.pool) \cup
    (IF r.pos # NoPos THEN {r.pos}
     ELSE IF a \in {"EXIT", "REBALANCE"} /\ Cardinality(PositionsOf(r.pool)) = 1
          THEN PositionsOf(r.pool) ELSE {NoPos})

Adjusted(a, r) == {[r EXCEPT !.act = a, !.pos = t] : t \in Targets(a, r)}

Taken(r, d, id, agent) ==
    [raw |-> r, dec |-> d, prop |-> id, agent |-> agent, done |-> FALSE,
     short |-> FALSE]

\* A veto may only hold, and never an exit; a failed review changes nothing.
Veto(r) ==
    /\ setting.agent = "veto"
    /\ \E d \in {r} \cup {[r EXCEPT !.act = "HOLD"]} :
         /\ r.act = "EXIT" => d = r
         /\ cur' = Taken(r, d, NoId, FALSE)
    /\ UNCHANGED <<queue, advisor>>

NoOverlay(r) ==
    /\ setting.agent = "off"
    /\ cur' = Taken(r, r, NoId, FALSE)
    /\ UNCHANGED <<queue, advisor>>

\* A proposal with action a, from the queue if id is one, accepted: suggest
\* mode only takes note of it and consumes it.
Accepts(r, a, id) ==
    /\ Admissible(a, r.act, Held(r.pool))
    /\ IF setting.agent = "suggest"
       THEN /\ cur' = Taken(r, r, NoId, FALSE)
            /\ advisor' = advisor \ {r.pool}
            /\ queue' = Dequeue(queue, id)
       ELSE /\ \E d \in Adjusted(a, r) : cur' = Taken(r, d, id, TRUE)
            /\ queue' = Prune(queue)
            /\ UNCHANGED advisor

\* Refused: the decision stands, the advisor waits, the proposal is dropped.
Refuses(r, id) ==
    /\ cur' = Taken(r, r, NoId, FALSE)
    /\ advisor' = advisor \cup {r.pool}
    /\ queue' = Reject(queue, id)

\* No usable proposal in the queue: the local agent is asked, unless the mode
\* is supervised, there is none, or it is waiting.
Asks(r) ==
    \/ /\ cur' = Taken(r, r, NoId, FALSE)
       /\ queue' = Prune(queue)
       /\ UNCHANGED advisor
    \/ /\ setting.agent # "supervised" /\ r.pool \notin advisor
       /\ \E a \in Advice : Accepts(r, a, NoId) \/ Refuses(r, NoId)

Overlay ==
    /\ pc = "tail"
    /\ LET r == Head(raw)
           supervised == setting.agent = "supervised"
           usable == Usable(queue, r.pool, supervised)
           x == FindPending(queue, r.pool, supervised)
       IN  \/ NoOverlay(r)
           \/ Veto(r)
           \/ /\ Agentic /\ usable # {}
              /\ Accepts(r, x.act, x.id) \/ Refuses(r, x.id)
           \/ /\ Agentic /\ usable = {}
              /\ Asks(r)
    /\ pc' = "gate"
    /\ UNCHANGED <<setting, capital, entryBackoff, cooling, nextId, endorsed,
                   todo, raw, cands, exited, cycles, restarts, used>>

-----------------------------------------------------------------------------
(* From the decision to its execution                                      *)

NextDecision ==
    /\ raw' = Tail(raw)
    /\ pc' = IF Tail(raw) = <<>> THEN "pool" ELSE "tail"
    /\ cur' = Idle

\* Supervised mode moves no capital without an approved proposal.
SupervisedHold(c) ==
    IF /\ setting.agent = "supervised" /\ c.prop = NoId
       /\ c.dec.act \in {"ENTER", "REBALANCE"}
    THEN [c.dec EXCEPT !.act = "HOLD"] ELSE c.dec

\* A HOLD on a pool whose first tracked position has lost too much or is too
\* old becomes the exit of that position.
Stops(d) ==
    {d} \cup {[d EXCEPT !.act = "EXIT", !.pos = i] :
                 i \in IF d.act = "HOLD" THEN First(d.pool) ELSE {}}

Judged == Stops(SupervisedHold(cur))

\* The risk engine lets every EXIT and HOLD pass.  Its count of the pool's
\* positions is the evaluation's: an entry of the tail has passed it already.
MayDeny(d) == d.act \in {"ENTER", "REBALANCE"}

DeniedProposal ==
    /\ queue' = IF cur.prop # NoId THEN Reject(queue, cur.prop) ELSE queue
    /\ \/ UNCHANGED advisor
       \/ cur.agent /\ advisor' = advisor \cup {cur.dec.pool}

RiskDenies ==
    /\ pc = "gate"
    /\ \E d \in Judged : MayDeny(d)
    /\ DeniedProposal
    /\ NextDecision
    /\ UNCHANGED <<setting, capital, entryBackoff, cooling, nextId, endorsed,
                   todo, cands, exited, cycles, restarts, used>>

\* The native ETH an entry is estimated to need: nothing for a pool without a
\* native leg, and nothing while the price is unset.
Need(p) == IF p \in Native /\ budget.priced THEN 1 ELSE 0

\* mutant: the amount is not compared
FundsUnmeasured(p) == budget.known

Funds(p) == budget.known /\ Need(p) <= budget.free

Forgive == advisor' = IF cur.agent THEN advisor \ {cur.dec.pool} ELSE advisor

\* A live entry that paper validation or the native budget does not let pass;
\* an applied proposal stays in the queue.
Capacity ==
    /\ pc = "gate" /\ setting.exec # "paper"
    /\ \E d \in Judged : d.act = "ENTER"
    /\ Forgive
    /\ NextDecision
    /\ UNCHANGED <<setting, capital, entryBackoff, cooling, proposals, todo,
                   cands, exited, cycles, restarts, used>>

\* An EXIT may start a cooldown of its pool, before it is executed.
Pass ==
    /\ pc = "gate"
    /\ \E d \in Judged :
         /\ Live /\ d.act = "ENTER" => Funds(d.pool)
         /\ cur' = [cur EXCEPT !.dec = d]
         /\ budget' = IF Live /\ d.act = "ENTER"
                      THEN [budget EXCEPT !.free = @ - Need(d.pool)] ELSE budget
         /\ cooling' \in {cooling} \cup
                IF d.act = "EXIT" THEN {cooling \cup {d.pool}} ELSE {}
    /\ Forgive
    /\ pc' = "send"
    /\ UNCHANGED <<setting, eth, book, blocked, walletRead, wallet,
                   entryBackoff, proposals, todo, raw, cands, exited, cycles,
                   restarts, used>>

\* An entry: a position is tracked and, live, the wallet has paid for it.
FreshPos == {i \in 1 .. MaxPos : \A x \in book : x.id < i}

Enters(p) ==
    /\ \E i \in FreshPos :
          /\ \A j \in FreshPos : i <= j
          /\ book' = book \cup {[id |-> i, pool |-> p, own |-> TRUE]}
    /\ IF Live THEN /\ p \in Native => eth > 0
                    /\ eth' = IF p \in Native THEN eth - 1 ELSE eth
                    /\ wallet' = "spent"
               ELSE UNCHANGED <<eth, wallet>>

Exits(i) ==
    /\ \E x \in book : x.id = i
    /\ book' = {x \in book : x.id # i}
    /\ eth' \in {eth} \cup IF Live /\ eth < MaxEth THEN {eth + 1} ELSE {}
    /\ UNCHANGED wallet

Executes(d) ==
    \/ d.act = "ENTER" /\ Enters(d.pool)
    \/ d.act = "EXIT" /\ Exits(d.pos)
    \/ d.act = "REBALANCE" /\ d.pos \in PositionsOf(d.pool) /\ UNCHANGED <<book, eth, wallet>>

\* An entry that fails may have spent ETH on its legs before it did.
Fails(d) ==
    /\ eth' \in {eth} \cup IF Live /\ d.act = "ENTER" /\ d.pool \in Native /\ eth > 0
                           THEN {eth - 1} ELSE {}
    /\ UNCHANGED <<book, wallet>>

Dispatch(done, short) ==
    /\ cur' = [cur EXCEPT !.done = done, !.short = short]
    /\ used' = IF done /\ cur.prop # NoId THEN used \cup {cur.prop} ELSE used
    /\ UNCHANGED <<setting, budget, blocked, walletRead, entryBackoff, cooling,
                   advisor, proposals, todo, raw, cands, exited, cycles, restarts>>

\* short: the failure says the balance is insufficient.  Shadow mode sends
\* nothing; a HOLD is an execution that does nothing and does not succeed.
Send ==
    /\ pc = "send"
    /\ \/ /\ setting.exec # "shadow"
          /\ Executes(cur.dec)
          /\ Dispatch(TRUE, FALSE)
       \/ /\ setting.exec # "shadow" /\ cur.dec.act # "HOLD"
          /\ Fails(cur.dec)
          /\ \E short \in BOOLEAN : Dispatch(FALSE, short)
       \/ /\ setting.exec = "shadow" \/ cur.dec.act = "HOLD"
          /\ UNCHANGED <<book, eth, wallet>>
          /\ Dispatch(FALSE, FALSE)
    /\ pc' = "final"

\* mutant: a failed read after an entry does not block the next ones
RereadOpen(ok) ==
    IF Live /\ cur.done /\ cur.dec.act \in {"ENTER", "EXIT"}
    THEN wallet' = (IF ok THEN "true" ELSE wallet) /\ UNCHANGED blocked
    ELSE UNCHANGED <<wallet, blocked>>

\* Funds moved between the wallet and positions: read the wallet again.
Reread(ok) ==
    IF Live /\ cur.done /\ cur.dec.act \in {"ENTER", "EXIT"}
    THEN /\ wallet' = IF ok THEN "true" ELSE wallet
         /\ blocked' = (blocked \/ (~ok /\ cur.dec.act = "ENTER"))
    ELSE UNCHANGED <<wallet, blocked>>

\* After anything went through executeLive; a failed read leaves no budget.
RefreshBudget(ok) ==
    budget' = IF Live THEN [budget EXCEPT !.known = TRUE, !.free = IF ok THEN eth ELSE 0]
                      ELSE budget

EntryOutcome ==
    entryBackoff' = IF cur.dec.act # "ENTER" THEN entryBackoff
                    ELSE IF cur.short THEN entryBackoff \cup {cur.dec.pool}
                    ELSE IF cur.done THEN entryBackoff \ {cur.dec.pool}
                    ELSE entryBackoff

\* mutant: only a HOLD consumes the proposal
ConsumeHeld ==
    queue' = IF cur.prop # NoId /\ cur.dec.act = "HOLD"
             THEN Dequeue(queue, cur.prop) ELSE queue

Consume ==
    queue' = IF cur.prop # NoId /\ (cur.done \/ cur.dec.act = "HOLD")
             THEN Dequeue(queue, cur.prop) ELSE queue

Finalize ==
    /\ pc = "final"
    /\ \E ok \in BOOLEAN : Reread(ok)
    /\ \E ok \in BOOLEAN : RefreshBudget(ok)
    /\ exited' = IF cur.done /\ cur.dec.act = "EXIT"
                 THEN exited \cup {cur.dec.pool} ELSE exited
    /\ EntryOutcome
    /\ Consume
    /\ NextDecision
    /\ UNCHANGED <<setting, eth, book, walletRead, cooling, advisor, nextId,
                   endorsed, todo, cands, cycles, restarts, used>>

-----------------------------------------------------------------------------
(* The redeployment of idle capital                                        *)

\* The gates of a candidate that are about state of this model; the risk engine
\* counts the pool's positions again once the overlay is through.
Redeployable(p) ==
    /\ p \notin exited
    /\ p \notin entryBackoff
    /\ Cardinality(OwnPositionsOf(p)) < MaxPerPool

\* The pass ends: no idle capital, no slot, too small, no candidate left.
RedeployEnds ==
    /\ pc = "redeploy"
    /\ pc' = "idle"
    /\ cands' = {}
    /\ UNCHANGED <<setting, capital, entryBackoff, cooling, advisor, proposals,
                   todo, raw, cur, exited, cycles, restarts, used>>

\* No headroom in the allocation, or a veto: on to the next candidate.
RedeploySkips(p) ==
    /\ pc = "redeploy" /\ p \in cands
    /\ cands' = cands \ {p}
    /\ UNCHANGED <<setting, capital, entryBackoff, cooling, advisor, proposals,
                   pc, todo, raw, cur, exited, cycles, restarts, used>>

RedeployCandidate(p) == [act |-> "ENTER", pool |-> p, pos |-> NoPos]

\* An accepted proposal that is no ENTER cancels it and stays in the queue;
\* suggest mode changes nothing.
RedeployAccepts(r, a, id) ==
    /\ Admissible(a, "ENTER", Held(r.pool))
    /\ IF setting.agent = "suggest" THEN cur' = Taken(r, r, NoId, FALSE)
       ELSE cur' = IF a = "ENTER" THEN Taken(r, r, id, TRUE) ELSE Idle
    /\ queue' = Prune(queue)
    /\ UNCHANGED advisor

\* Refused: the redeploy goes on as if there had been no proposal.
RedeployOverlay(p) ==
    /\ pc = "redeploy" /\ p \in cands /\ Redeployable(p)
    /\ LET r == RedeployCandidate(p)
           supervised == setting.agent = "supervised"
           usable == Usable(queue, p, supervised)
           x == FindPending(queue, p, supervised)
       IN  \/ /\ ~Agentic
              /\ cur' = Taken(r, r, NoId, FALSE)
              /\ UNCHANGED <<queue, advisor>>
           \/ /\ Agentic /\ usable # {}
              /\ RedeployAccepts(r, x.act, x.id) \/ Refuses(r, x.id)
           \/ /\ Agentic /\ usable = {}
              /\ \/ /\ cur' = Taken(r, r, NoId, FALSE)
                    /\ queue' = Prune(queue)
                    /\ UNCHANGED advisor
                 \/ /\ ~supervised /\ p \notin advisor
                    /\ \E a \in Advice : RedeployAccepts(r, a, NoId) \/ Refuses(r, NoId)
    /\ cands' = cands \ {p}
    /\ pc' = IF SupervisedHold(cur').act = "ENTER" THEN "rgate" ELSE "redeploy"
    /\ UNCHANGED <<setting, capital, entryBackoff, cooling, nextId, endorsed,
                   todo, raw, exited, cycles, restarts, used>>

RedeployDenied ==
    /\ pc = "rgate"
    /\ DeniedProposal
    /\ pc' = "redeploy"
    /\ cur' = Idle
    /\ UNCHANGED <<setting, capital, entryBackoff, cooling, nextId, endorsed,
                   todo, raw, cands, exited, cycles, restarts, used>>

\* Not wider than the normal entry, not funded, shadow mode: the next one.
\* Paper validation of a live entry ends the pass.
RedeployUnfunded ==
    /\ pc = "rgate" /\ HasPlace(cur.dec.pool)
    /\ Forgive
    /\ pc' \in {"redeploy"} \cup IF Live THEN {"idle"} ELSE {}
    /\ cur' = Idle
    /\ UNCHANGED <<setting, capital, entryBackoff, cooling, proposals, todo,
                   raw, cands, exited, cycles, restarts, used>>

RedeployPass ==
    /\ pc = "rgate" /\ setting.exec # "shadow" /\ HasPlace(cur.dec.pool)
    /\ Live => Funds(cur.dec.pool)
    /\ budget' = IF Live THEN [budget EXCEPT !.free = @ - Need(cur.dec.pool)] ELSE budget
    /\ Forgive
    /\ pc' = "rsend"
    /\ UNCHANGED <<setting, eth, book, blocked, walletRead, wallet,
                   entryBackoff, cooling, proposals, todo, raw, cur, cands,
                   exited, cycles, restarts, used>>

RedeploySend ==
    /\ pc = "rsend"
    /\ \/ Executes(cur.dec) /\ Dispatch(TRUE, FALSE)
       \/ Fails(cur.dec) /\ \E short \in BOOLEAN : Dispatch(FALSE, short)
    /\ pc' = "rfinal"

\* At most one redeployment per cycle.
RedeployFinalize ==
    /\ pc = "rfinal"
    /\ \E ok \in BOOLEAN : Reread(ok)
    /\ \E ok \in BOOLEAN : RefreshBudget(ok)
    /\ EntryOutcome
    /\ Consume
    /\ pc' = "idle"
    /\ cands' = {} /\ cur' = Idle
    /\ UNCHANGED <<setting, eth, book, walletRead, cooling, advisor, nextId,
                   endorsed, todo, raw, exited, cycles, restarts, used>>

-----------------------------------------------------------------------------
Environment ==
    \/ \E p \in Pool, a \in Advice : Propose(p, a)
    \/ \E x \in queue : HumanApproves(x)
    \/ \E x \in queue : Expires(x)
    \/ \E p \in Pool : Elapses(p)
    \/ Restart

Engine ==
    \/ StartCycle
    \/ \E p \in Pool : Evaluate(p)
    \/ \E p \in Pool : EvaluateFails(p)
    \/ PoolsDone
    \/ Overlay
    \/ RiskDenies
    \/ Capacity
    \/ Pass
    \/ Send
    \/ Finalize
    \/ RedeployEnds
    \/ \E p \in Pool : RedeploySkips(p)
    \/ \E p \in Pool : RedeployOverlay(p)
    \/ RedeployDenied
    \/ RedeployUnfunded
    \/ RedeployPass
    \/ RedeploySend
    \/ RedeployFinalize

Next == Environment \/ Engine

Spec == Init /\ [][Next]_vars

-----------------------------------------------------------------------------
(* Properties                                                              *)

\* The step that hands the decision to executeLive or executePaper.
Sends == pc \in {"send", "rsend"} /\ pc' \in {"final", "rfinal"}

\* The queue holds at most one proposal of a pool, however proposals,
\* approvals, expiries and the engine's own consumption interleave: the
\* prefer-latest rule of enqueueProposal must not leave two.
OneProposalPerPool ==
    /\ \A x, y \in queue : x.pool = y.pool => x = y
    /\ Cardinality(queue) <= MaxQueue

\* "Human-approved proposals are the supervised-mode boundary": while it has
\* not expired, an approved proposal leaves the queue only by a step of the
\* engine on a decision of its pool, never because another one arrived.
ApprovalHonoured ==
    [][\A x \in queue :
         x.live /\ x.approved /\ (\A y \in queue' : y.id # x.id)
         => \/ pc \in {"gate", "final", "rgate", "rfinal"} /\ cur.prop = x.id
            \/ pc = "tail" /\ Head(raw).pool = x.pool
            \/ pc = "redeploy" /\ cands' # cands
            \/ restarts' # restarts]_vars

\* A queued proposal takes part in at most one successful execution, however
\* many decisions of its pool see it: a failed one keeps it for a retry and a
\* successful one must not.
ConsumedOnce == [][Sends /\ cur'.done => cur.prop \notin used]_vars

\* In supervised mode capital is deployed or moved only with a proposal that
\* a human approved, in the tail and in the redeployment pass.
SupervisedBoundary ==
    pc \in {"send", "rsend"} /\ setting.agent = "supervised"
       /\ cur.dec.act \in {"ENTER", "REBALANCE"}
    => cur.prop \in endorsed

\* A deterministic EXIT is sent as an EXIT whatever the advisor, the
\* supervised mode and the risk engine say (gateExit, validateOverride,
\* proposalGateDowngrade): it is never held, moved or denied.
SafetyExitKept ==
    [][pc = "gate" /\ cur.raw.act = "EXIT" /\ pc' # "gate" /\ restarts' = restarts
       => pc' = "send" /\ cur'.dec.act = "EXIT"]_vars

\* In a cycle whose balance and price were read, an entry that spends ETH is
\* sent only while the wallet has it: what earlier entries of the batch, and
\* their failed attempts, took is no longer promised (issue #170).
FundedDispatch ==
    [][Sends /\ Live /\ cur.dec.act = "ENTER" /\ cur.dec.pool \in Native
         /\ budget.priced
       => eth > 0]_vars

\* No live entry is sent while the wallet's value is the configured seed, or
\* still counts the capital of an entry of this very cycle.
NoDoubleCount ==
    [][Sends /\ Live /\ cur.dec.act = "ENTER"
       => wallet \notin {"seed", "spent"}]_vars

\* The tail and the redeployment pass together never stack more of the
\* engine's own positions on a pool than MAX_POSITIONS_PER_POOL.
PositionCap == \A p \in Pool : Cardinality(OwnPositionsOf(p)) <= MaxPerPool

\* What the code and its comments say and the runs refute.

\* "A pool already exiting this cycle never re-enters in the same cycle"
\* (program.ts:8928).
NoReenterAfterExit ==
    [][Sends /\ cur.dec.act = "ENTER" => cur.dec.pool \notin exited]_vars

\* "Adopted external positions are manage-to-exit only - never rebalance the
\* user's own capital" (program.ts:10145).
AdoptedNeverRebalanced ==
    [][Sends /\ cur.dec.act = "REBALANCE"
       => \A x \in book : x.id = cur.dec.pos => x.own]_vars

\* "SOL-funded entries skipped this cycle (fail closed)" (program.ts:6579).
BudgetFailsClosed ==
    [][Sends /\ Live /\ cur.dec.act = "ENTER" => budget.priced]_vars

=============================================================================
