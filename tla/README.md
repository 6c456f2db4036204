# Formal models of Beam

Beam is an autonomous liquidity agent for Uniswap v3 and v4 pools (TypeScript,
Effect, Bun, SQLite). This directory holds TLA+ models of the engine, of what
it exchanges with its agents, its cloud and its owner, the TLC runs that check
them, and TLAPS proofs of the most important facts. Line numbers refer to `src/`
at the commit beside this directory; `PROJECT.json` maps every definition to the
lines it models, lists the hazards of the code at their lines with the properties
that watch them, and gives each property a mutant of the model that breaks it.

1. The system · 2. Modules · 3. What the runs check · 4. What is proved ·
5. What was observed · 6. What is not modelled

## 1. The system

One engine fiber (`engine/program.ts`) runs a scan cycle, sleeps, and runs the
next one. A scheduled cycle reconciles the tracked positions with the wallet,
claims fees, runs the settlement phase, refreshes the candidates, then decides and
executes pool by pool, and ends with the redeployment of idle capital and the
failure counters. Around it live the HTTP and MCP servers, the agent transports,
the CLI (other processes on the same database), and the chain behind an RPC
endpoint that may fail, lag or lose an answer. Beside it runs a cloud API with a
Telegram bot (Cloudflare workers over D1 and KV). State of the engine that has to
survive is in SQLite; most writes are `Effect.sync`, so a SQLite failure is a
defect that ends the process, and a crash is the only way a write is missing.

| Component | State | Operations | Interacts with | What makes it correct | Modules |
|---|---|---|---|---|---|
| Exit settlement (`autonomous-runtime.ts`) | `settlement_jobs`, position rows | enqueue at exit, sweep orphans, probe, quote, sell, record, confirm, reconcile, finalize the group | adapter, db, safety pause | nothing is booked that was not sold; a recorded sale is never sold over; a group is booked whole, unless its jobs could not be listed | `Settlement`, `SettlementLedger` |
| Safety pause (`autonomous-runtime.ts`, `program.ts`) | one latch per wallet in memory and in the database; failure counters in memory | arm, resolve, save, read back, `beam resume` | settlement phase, pool loop, CLI | durable; a breach pauses; every pause lifts, except one that waits for a sale whose output cannot be read | `SafetyPause` |
| Live execution and reconcile (`program.ts`) | tracked positions, position rows, `execution_operations`, listing caches | enter, exit, rebalance, probe, recover, adopt, drop | adapter, db, settlement | no live position lost, no dangling plan, tracking converges | `LiveExecution` |
| Scan cycle (`program.ts`) | wallet and budget reads, decisions, entry backoff, cooldowns | decide, overlay, gate, send, finalize, redeploy | all services | the human's boundary, EXIT always passes, entries are funded | `ScanCycle` |
| Pool evaluation (`program.ts`, `cycle/`) | marks, breach counts, rotation confirmations | screen, exit chain, stops, rotate; replay | scan cycle, backtest | a confirmed stop acts; the replay is not more eager, except for what the engine lost or did not save | `PoolEvaluation` |
| Entry gates, sizing, risk (`program.ts`, `entry-sizing.ts`, `risk-service.ts`) | evolved thresholds, wallet value, size of an entry | gate, size, allocate, redeploy | scan cycle | what is entered is taken out at once only for what no gate looks at; within every cap | `EntryGates`, `Sizing` |
| Candidates (`candidate-*`, `program.ts`) | `token_candidates`, scan set, cooldowns | observe, qualify, enter, cool down, rebuild | scan cycle, db | what is held is scanned | `CandidateBook` |
| Token risk (`evm-token-risk.ts`, `token-risk-service.ts`) | verdicts, signals | probe, fetch, prune | screening | a revoked verification is not served (trusted mints are not probed) | `TokenRisk` |
| Proposals and agent transports (`state-service.ts`, `acp-`, `gateway-transport.ts`) | pending proposals, child process, socket, prompts in flight | enqueue, approve, apply, expire; connect, prompt, give up, close | servers, scan cycle | applied at most once; each answer to its own prompt | `ProposalQueue`, `AcpTransport`, `GatewayTransport` |
| Entry funding, transactions (`adapter-service.ts`) | balances, swaps in flight | swap the surplus, swap native, wrap, mint | live execution | a mint is sent only when covered | `EntryFunding` |
| Fees, harvest, exit PnL (`program.ts`, `pnl.ts`) | cumulative fees, basis, settlement totals | claim, convert, compound, re-key, book | live execution, settlement | every amount is credited once | `Harvest`, `ExitBooking` |
| Revenue terms (`revenue-config-service.ts`) | cached rate and fee wallet | refresh, fall back, expire | cloud API, claims | no fee without a wallet | `RevenueTerms` |
| Reports, alerts, status, feedback | queues, receipts, rows, KV heartbeat | send, retry, claim, release, prune | cloud API, Telegram bot | counted once unless malformed, told what is stored | `Telemetry`, `EngineState`, `Feedback` |
| Accounts of the cloud (`cloudflare/workers/api`) | users, links, referrals | register, link, apply | clients that retry | one chat per code, one bonus per referral | `Accounts` |
| Schema (`db.ts`) | tables, columns, versions | open, migrate, rebuild | engine and CLI at once | rows survive; queries find their columns, but for one of rebuilt jobs | `Schema` |
| Process lock (`cli/lockfile.ts`) | lock file, backup names | acquire, replace stale, restore, release | `beam dev`, other launches | at most one engine; somebody wins | `ProcessLock` |
| Updater (`cli/update.ts`) | install directory, backups, wrapper | update, roll back | owner | the version that ran survives | `Updater` |
| Market data, strategy arithmetic | feeds | score | scan cycle | numeric; outside TLC's reach | - |

The hard behaviours are: a transaction whose receipt is not seen; a crash
between the chain and the database, or between two rows; a failed read taken
for an empty answer; caches that outlive what they describe; proposals and
approvals that arrive while a cycle holds a copy; a latch, a lock, a database
file or an installation written by two processes; requests that overlap, are
retried, or are served after their sender gave up; jobs that are retried, expired
and revived over many cycles.

## 2. Modules

The core modules are state machines of their own with runs of their own. The
smaller components share one run through `MCParts`, whose state is any one of
them (see section 3).

### Settlement, SettlementLedger

`pc` is where the engine fiber stands: `idle` (asleep; the clock moves) ->
`ready` (reconciled) -> `work` (the loop over jobs, in any order) -> `swap` /
`wait` / `sold` (inside `submitSwap`) -> `close` (the groups) -> `decide` (exits)
-> `record` (the rows of an exit) -> `decide` -> `idle`. A job row is its status,
its recorded signature, whether its retry time and its window are past, and
whether it is finalized. Each action is one step between two places where the
fiber can be interrupted or die: a database write, a broadcast, a receipt.
The chain mines, reverts or drops a pending transaction at any time.

Two things the code does decide most of the behaviour. `onBroadcast` stores the
signature only after `sendTx` has its receipt (`RecordSignature`), so there is a
window in which a swap is in flight and the row does not know it. And
`processSettlementJobs` groups the list it was handed, not the rows in the
database, so `copies` remembers that list: it holds a revived job twice, as
the terminal job that was listed and as the pending one the sweep returned. The
listing may fail, and is then taken for an empty one: `heard` says whether this phase
could list the jobs, `blind` which positions were last booked by one that could not.

A position row is written by more than its exit. `tracked` are the positions the engine
holds in memory: claims and evaluations save their rows with `closed_at` null
(`SaveTracked`), `Reconcile` deletes the rows of those whose liquidity is gone and adopts
what it finds live and untracked, by an upsert that reopens a closed row, and an exit
without an answer is booked from a listing that fails empty (`ProbedExit`). `burned` are
the positions whose NFT is gone: an exit of the engine burns it in the transaction that
pays out, so what was booked with jobs cannot be adopted again; the owner may empty,
refill or burn a position at any time (`OwnerMoves`).

`SettlementLedger` says what all of this is for: amounts become owed, are booked or
given up, and a position is booked in one step with all of its jobs, unless it is booked
`partly`, by a phase that could not list them. `Settlement` implements it under the
mapping `ledgerJob`, `ledgerPaid`.

### SafetyPause

One cycle is `StartCycle`, the settlement phase (`ListedPhase` or, if the
listing fails, `UnlistedPhase`), `Reload`, the resolver at the top
(`StartPools`, or `NoPools`), per pool `EvaluatePool` and its decisions, the
redeploy and `EndCycle`, which decays the counter before it arms. What the
settlement phase may do to a job is summarised from `Settlement`: it ends, another
attempt follows, or it was sold and its output cannot be read (`unread`), which keeps it
open at no cost to the bounded failures and with it a `settlement_overdue` pause.
`autonomousTokenMode = off` creates no pause at all
(`autonomousExecution` is null) and is left out.

### LiveExecution

The chain owns `nft`; a mint or burn the engine stopped waiting for stays in
`lateMints` or `lateBurns` and may land at any later time, or never. `IdReads`
and `Reads` are the two caches with what may go wrong in them; the burned v4
id that still lists with no liquidity is read as the code reads it.
`Reconcile`, `Adopt` and `CheckPool` are `reconcilePositions` and the per-pool
check; `Probe` is `probeMinedExit`. How an entry is paid for is `EntryFunding`,
what an exit books `ExitBooking` and `Settlement`, what a position earns
`Harvest`.

### ProcessLock

Each file-system call and each liveness probe of `acquireLock` and `releaseLock`
is an action, and a launch can be killed between any two. A file is named for its
creator, which is what its pid and timestamp identify; `lock` and `backup[p]` are
the names that link to files, so that a file renamed before its writer has
finished is completed under its new name, and a hard link puts it back. `written`
are the files with a complete record: `readLockfile` answers null for the others.
A pid the system gave to another process, a probe that fails with EPERM and a
write that fails are left out; the pid a refused launch prints is abstracted.

### ScanCycle, ProposalQueue

`pc` follows one cycle: `idle` -> `pool` (the next pool of `todo` is evaluated into
`raw`, its list of decisions in the order `runExitPhase`, rebalance and
`pushEnterDecision` append them) -> `tail` (the overlay of the head of `raw`) ->
`gate` (supervised hold, stops, risk, paper validation, native budget) -> `send`
-> `final` (re-reads, backoff, consumption of the proposal), and after the
pools `redeploy` -> `rgate` -> `rsend` -> `rfinal`. `cur` is the decision in hand
with the proposal applied to it; `queue` is the array of pending proposals
(`ProposalQueue`), changed by HTTP and MCP between any two steps. `eth` is what the
wallet can pay for and `budget` what the engine believes, in units of one entry;
`wallet` is what the wallet value the sizes are taken from still counts. `HasPlace` is
the count of a pool's positions, of the slot and, once more before the redeployment
sends, of the risk engine: it counts adopted ones too. Which
positions the signals take is left open; what `PoolEvaluation` and `EntryGates`
decide is any of the answers here.

### PoolEvaluation, EntryGates, Sizing

`PoolEvaluation` is `evaluatePool` for one pool over several cycles: screening, marks,
the exit chain in its order, the two debounced stops with their counts, rebalance
and rotation, and the evaluator of the backtests on the saved snapshots beside it. The
two do not see the same: a read the screening rejects is saved before (`ReplayedAlone`),
one of a dead feed, one whose save failed and one replaced within five minutes are not
(`saved`), and the engine looks back 26 hours at most (`gap`). A live rebalance and a
restart lose the engine's breach counts (`Uncounted`), the backtest's go on. `apart` are
the positions in which it is ahead for one of these reasons.
`EntryGates` is `runEnterSlot` with every gate, the capture of candidates and the
redeployment, followed by the exit chain of the next cycle on the same metrics, with
thresholds that evolve. `Sizing` is how much is deployed: the slot, its
allocation, an agent's size, the last gate and the redeployment, in whole dollars,
over wallet reads that fail; it is instantiated live and on paper.

### CandidateBook, TokenRisk

`CandidateBook` is the life of one listing: table and memory, the scan set, health
streaks, entry, exit, cooldown, the refresh that writes in steps, and a restart
that rebuilds memory from two stores. `TokenRisk` is one mint with its real flaw,
the probe whose reads fail one by one, the composite verdict, the signal of the
listing service, and both caches. Trusted mints (stablecoins, WETH, native) are no part
of it: the screening skips them (`program.ts:7431`) and the prober answers ok for them
(`evm-token-risk.ts:887-895`), so nothing is promised of their verdicts.

### AcpTransport, GatewayTransport

The two ways to an advisor. `AcpTransport`: the pipes of a child process, an inbox
worked off in order, frames that may be torn, prompts given up by the engine, and
the latency window of `agent-service.ts`. `GatewayTransport`: one shared connection
promise, challenge and hello, sockets whose close event comes late, prompts with
two promises each. `Handled` is about a rejection nobody listens to, which would
end the process.

### EntryFunding, Harvest, ExitBooking, RevenueTerms

Money in and out of one position. `EntryFunding`: which of the four ways pays for an
entry, its swaps and their retries, wrap and mint; each transaction may be refused,
revert or land after its wait. `Harvest`: the pass over all positions with the
re-keying of a compound and of a rebalance in the middle of the iteration.
`ExitBooking`: what an exit books at once or leaves to jobs, with a stop between any
two writes. `RevenueTerms`: the fee rate and wallet, read by the cloud in two steps,
cached in memory and in the database.

### Telemetry, EngineState, Feedback, Accounts

The cloud. Requests interleave between their statements, an answer may be lost and a
request its sender gave up may still be served; only a D1 batch or one statement is
atomic. `Telemetry`: error reports and alerts, instantiated for one and for the
other. `EngineState`: snapshot and decisions in D1, heartbeat in KV, pruning, and the
bot's two queries. `Feedback`: the local gates, the request, the counting limiter,
instantiated with a failing network and with a busy limiter. `Accounts`:
registration, linking and referrals, instantiated for links and for referrals.

### Schema, Updater

`Schema` opens a file of any earlier build from two processes: each reads the
version once, then runs the migrations it believes are missing, each a transaction,
and may be killed between two. Columns that come together are one fact. `Updater`
is `beam update` step by step with its roll back, kills, and the owner who moves a
backup into place.

### Instances and proofs

`MCSettlement`, `MCScanCycle` define constants for TLC; `MCParts`, with `MCRecords`,
instantiates the shared run. `SafetyPause`, `LiveExecution` and `ProcessLock` need no
definitions and are run as they are. `MCRecords` holds the instances that account for
funds, for what is delivered and for what is entered, `MCParts` the others and the state
machine; `Sizes` takes as parameters whether it trades live or on paper. The
constants of the components with proofs are declared there and given values by
`Parts.cfg`; the others have them as values in their `INSTANCE`. The theorems are in
`SettlementProofs`, `SafetyPauseProofs`, `LiveExecutionProofs`, `ProcessLockProofs`,
`ScanCycleProofs`, `SchemaProofs`, and, about the components of the shared run, in
`PartsProofs`, which rests on the lemmas of `RecordsProofs`.

## 3. What the runs check

| Run | Result | Shows |
|---|---|---|
| `settlement` | pass | `ConfirmedIsSold`, `FinalGroupSettled`, `NoBlindResubmit`, `SignatureKept`, `FinalIsForever`, `ImplementsLedger` |
| `settlement_live` | pass | `ClosedIsSettled` when receipts carry their v3 Swap event |
| `settlement_double_sell` | violation | `SoldOnce`: an unrecorded swap is sold again |
| `safety_pause` | pass | `LatchIsDurable`, `CarriedBreachPaused`, `RearmNeedsFailure`, `PauseLifts` (but for a sale that stays unread) |
| `live_execution` | pass | `NoDanglingPlan`, `ConfirmedEntryHeld`, `LiveNotDropped`, `TrackingConverges` |
| `live_position_dropped` | violation | `V4LiveNotDropped`: cached v4 ids hide the new position |
| `process_lock` | pass | `OverlapNeedsDisplacement`, `SomeLaunchWins` |
| `scan_cycle` | pass | `OneProposalPerPool`, `ApprovalHonoured`, `SupervisedBoundary`, `FundedDispatch` |
| `scan_restart` | pass | `PositionCap`, `NoDoubleCount`, `ConsumedOnce`, `SafetyExitKept` over two cycles and a crash anywhere |
| `exit_reenter` | violation | `NoReenterAfterExit`: an overlaid exit runs before the entry of the same slot |
| `wallet_counted_twice` | violation | `LiveCapHeld`: the block after a failed wallet read is lifted before the next read |
| `parts` | pass | the smaller components, one at a time (below) |

Each passing run with variables of its own also checks `TypeOK` (`scan_restart`
and `settlement_live` share the state of their neighbour's). Every violation is a
disagreement between the code and one of its own comments or tests; `findings`
quotes them.

### The parts

`MCParts` chooses in `Init` which component it is and then takes only its steps, so
one run checks each of them completely and apart from the others. Its properties
are conjunctions over the parts:

| Property | Conjuncts, by module |
|---|---|
| `BreachActedOn`, `ReplayExitIsLive` | `PoolEvaluation`: a stop breached for its confirmations under one id and in one run is acted on; the backtest exits before the engine only on what `apart` or `gap` excuse |
| `DeliveredOnce` | `Telemetry`: `CountedOnce`, `ReportKept`, `AlertNotRepeated`; `Feedback`: `LimitsHold`, `ToldStored`, `RateCapped`; `EngineState`: `BeatBacked`, `RunningFades` |
| `AccountsSound` | `Accounts`: `LinkOnce`, `BonusesBacked` |
| `FundsAccounted` | `Harvest`: `HarvestedOnce`, `FeesBacked`; `EntryFunding`: `MintCovered`; `ExitBooking`: `BookedOnce`, `EndsBooked`; `RevenueTerms`: `NoFeeWithoutWallet`, `TermsInForce` |
| `PreviousKept` | `Updater`: `PreviousKept`; `Schema`: `RowsKept`, `QueriesHold` |
| `AdvisorSound` | `AcpTransport`: `OwnWords`, `SkipDrains`; `GatewayTransport`: `Handled`, `NoRunLeft` |
| `EntriesSound` | `CandidateBook`: `HeldScanned`, `StreakProven`, `CooldownServed`; `EntryGates`: `EntryOutlives`, `RedeployVetted`; `Sizing`: `CapHeld`, `NoDust`, `ShareHeld`, `SlotsHeld` |
| `TokensSound` | `TokenRisk`: `ServedAsTold`, `OkVerified` |

### Bounds, and why they are enough

* `settlement`: one position with two tokens, an orphan job for the first of
  them, three swaps, two faults. Two jobs are what a group needs to be half
  done; the orphan competes for a token; three swaps give every job one and one
  of them a second. Positions never interact except through a shared token,
  which the orphan stands for. What the owner does with a position on chain, a failed
  listing and a failed read are faults, like a crash. The proofs remove the bounds for all seven properties.
* `settlement_live`: two swaps and one fault. Once the swaps are used up a quote
  fails (`Exhausted`), so that the bound never looks like a stuck job.
* `safety_pause`: `maxConsecutiveExecutionFailures = 2`, two pools, three
  faults (two failures make a breach, the third is a crash, a failed read or a
  drawdown). Counters count faults, so they need no bound of their own; the core
  counter is capped at the 2 the code compares with. The proofs remove these bounds
  for the four safety properties.
* `live_execution`: three positions, two of them v3 and one v4, two operations,
  two faults. Two faults cover every pair of crash, lost receipt and
  transaction of the owner, a late landing included; the third position lets
  a rebalance and an entry coexist. The proofs remove the bounds for safety.
* `process_lock`: three launches, any of them killed anywhere, started on no file, a
  stale one or a torn one. Three is what it takes to lose the lock (one holder,
  one that displaces it, one that slips in); the proofs cover any number.
* `scan_cycle`: two pools, one of them on the watchlist, one cycle, two proposals, at
  most three positions, one entry's worth of ETH, the modes that replace a
  decision (supervised, full) live. Two pools are what makes a batch and a
  redeployment after it; one entry's worth makes the budget the thing that is
  contended; two proposals make one replace, outlive or follow the other.
* `scan_restart`: one pool, two cycles, one restart between any two steps, every
  mode that can change a decision with live, paper and shadow orders, and a book at boot
  that is empty, has one position of the engine, or is full with one of its own and one it
  found. Caps, the wallet value,
  consumption and the kept exit are about one pool; the second cycle finds what
  the first and the crash left.
* `parts`: each instance has just enough for its race: two requests and a shared
  code or referral; three reports, one of them malformed, in batches of two with three sends; two flushes
  of two alerts; two positions with a re-key and a restart; two entries on a wallet
  that covers none, one or both legs; three versions and three runs of the updater;
  three prompts over two children or two sockets; two processes opening every
  earlier build in three launches; a clock a few units longer than every lifetime;
  two cycles of sizing (three on paper) with a cap, a share and slots that all bind.
  `CandidateBook` follows one listing that passes every gate when a page shows it and
  may be missing from any page: the records of two candidates never meet.
* `MaxFaults`, `Restarts`, `MaxRestarts` and the like count what the environment does
  wrong. They are finite, so liveness is about what follows after the faults end.

`CHECK_DEADLOCK FALSE` stands where the system really ends: launches end, and the
bounded counters of cycles, requests and runs are used up.

### Fairness, and why the code justifies it

`WF(Engine /\ NoFault)`: `Effect.forever` in the scheduler fiber keeps running
cycles, and failures are rationed by `MaxFaults`. Mining is weakly fair: a
transaction that is neither dropped nor reverted is mined. The clock moves while
the engine sleeps (`sleep(scanIntervalMs)`), which is not continuously the case,
hence strong fairness for the backoff and the window in `Settlement`; the windows
of `SafetyPause` and the cache lifetimes of `LiveExecution` run continuously and
are weakly fair. `EndCycle` in `LiveExecution` and `EvaluatePool`, `StartPools` in
`SafetyPause` are strongly fair, because a cycle decides finitely many times and
pools are scanned again in each. Nothing is assumed of faults, of crashes, or of
the operator. `ScanCycle` and the parts state no liveness.

## 4. What is proved

TLC checks the instances above; TLAPS proves the following for every value of the
constants, from the named assumption of each module on its constants only
(`SettlementAssumption`, `SafetyPauseAssumption`, `LiveExecutionAssumption`,
`NamesDistinct`, `ScanCycleAssumption`, `RecordsAssumption`,
`PartsAssumption`). One theorem assumes more: `CapHolds` needs `BootCapped` (below).

| Module | Theorems (property) |
|---|---|
| `SettlementProofs` | `TypeCorrect` (`TypeOK`), `ConfirmedSold` (`ConfirmedIsSold`), `FinalGroup` (`FinalGroupSettled`), `SettlementRefinesLedger` (`ImplementsLedger`), `SignatureIsKept` (`SignatureKept`), `NoResubmit` (`NoBlindResubmit`), `FinalStays` (`FinalIsForever`) |
| `SafetyPauseProofs` | `TypeCorrect` (`TypeOK`), `LatchIsKept` (`LatchIsDurable`), `BreachIsCarried` (`CarriedBreachPaused`), `RearmIsEarned` (`RearmNeedsFailure`) |
| `LiveExecutionProofs` | `TypeCorrect` (`TypeOK`), `PlansAreClosed` (`NoDanglingPlan`), `LiveIsKept` (`LiveNotDropped`), `EntriesAreHeld` (`ConfirmedEntryHeld`) |
| `ProcessLockProofs` | `TypeCorrect` (`TypeOK`), `OverlapOnlyByDisplacement` (`OverlapNeedsDisplacement`), `RefusedOnlyForAWinner` (`SomeLaunchWins`) |
| `ScanCycleProofs` | `OnePerPool` (`OneProposalPerPool`), `ApprovalIsHonoured` (`ApprovalHonoured`), `HumanInTheLoop` (`SupervisedBoundary`), `ExitIsKept` (`SafetyExitKept`), `UsedOnce` (`ConsumedOnce`), `EntriesAreFunded` (`FundedDispatch`), `TypesHold` (`TypeOK`), `CapHolds` (`PositionCap`), `CountedOnce` (`NoDoubleCount`) |
| `PartsProofs` | `StopsAct` (`BreachActedOn`), `ReplayIsNotEager` (`ReplayExitIsLive`), `TokensAreSound` (`TokensSound`), `PreviousIsKept` (`PreviousKept`), `AdvisorIsSound` (`AdvisorSound`), `AccountsAreSound` (`AccountsSound`), `FundsAreAccounted` (`FundsAccounted`), `AllIsDeliveredOnce` (`DeliveredOnce`), `EntriesAreSound` (`EntriesSound`); the lemmas of the last three are in `RecordsProofs` |
| `SchemaProofs` | `MigrationsKeepData` (`QueriesHold`, `RowsKept` of `Schema`) |

### Settlement

The inductive invariant `Inv` is the conjunction of: `TypeInv` (types, and that
`cur`, `hash`, `fly` are a job and transactions where they are used); `WorkInv`
(the jobs a phase still has to work on, the one being sold included, are active:
the loop never touches a confirmed job); `ExitInv` (who is being exited has burned its
NFT, is tracked and has an open row, and the jobs to be saved do not exist yet);
`ChainInv` (what is burned never holds liquidity again, and a position that has a
settlement job or a final row is burned); `SigInv` (a recorded signature, the hash about
to be recorded and the swap in flight are transactions of the job itself, and the swap is
mined when its sale is about to be recorded); `FinInv` (a finalized job is confirmed);
`GroupInv`, that is `FinalGroupSettled` and `ListInv`; and `ConfirmedIsSold` itself.
`ConfirmedIsSold` is not inductive alone: that a probe or a recorded sale
confirms the right job needs `SigInv`. `FinalGroupSettled` needs `ListInv`, since a group
is judged from a list: when the phase could list the jobs (`heard`), what it lists of a
position is its whole group (`WholeGroup`). It needs `ExitInv` and
`ChainInv`, since no job may join a group that has been booked: a position that was
booked with jobs is burned, so no later exit opens jobs for it. What writes position
rows only (`Reconcile`, `SaveTracked`, `ProbedExit`, the owner) shares one lemma,
`RowsInv`.
What a phase that could not list the jobs books is in `blind`, which `FinalGroupSettled`
excepts and the ledger calls `partly`; for the refinement every action maps to one
ledger step or a stutter.

The last part of the module proves what no step may do. It needs two more invariants: a
row that does not exist has no signature (`AbsentInv`), and from the moment a sale
is prepared until its signature is recorded its job has no recorded sale that may
still land (`SellInv`, which holds because a reverted transaction stays reverted).
`RowChange` lists all a step can do to a row; the action properties follow from it.

### SafetyPause

`CarriedBreachPaused` needs `CarriedInv`: from the end of a cycle to the pool loop of
the next, counters that stand at a breach mean an active pause, unless one was
lifted in between. Nothing moves the counters there, so what has to be shown is
that `EndCycle` arms for every breach it leaves and that no save takes a pause back
without setting `lifted`. `RearmNeedsFailure` excepts a pause that was lifted while the old
row could still be read back: a restart between the two finds the earlier pause.
Without that exception the property held at the bound of the run and the proof
showed that it does not hold for larger ones.

### LiveExecution

A position is lost when a listing that misses it is believed. The invariants say
what a listing cannot miss: `Minted` (what is tracked, open, listed or recorded was
minted; an id of a pending mint was not, so a mint that lands late is new),
`Listing` with `Seen` (a cached listing that is believed holds every tracked live v3
position, because the engine drops the cache on its own transactions before it
tracks what they made), `Saved` (an operation is confirmed only after its row was
saved). `Seen` says nothing of v4 positions, for which it is false:
`live_position_dropped` shows how.

### ProcessLock

The core of the invariant is
`HoldInv`: as long as no fresh lock has been displaced, the file under the lock's
name is that of every launch that has created its file and not let go of it. It
needs `JudgedInv` (what is about to be renamed belongs to a dead process, so a
rename takes a live lock only if the file changed after it was read), `RestoreInv`
(a restore puts back a displaced lock, never the stale one) and `GivesUpInv` (who
displaced a fresh lock is refused, which is why the displacer is a third launch).
`SomeLaunchWins` needs `WinInv`: as long as no launch is killed, either one of them
has created its file, or what they found is still to be decided by one of them
(nothing there, a torn file nobody removes, the stale file in place, or the stale
file in the hands of the one launch that moved it).

### ScanCycle

`Inv` is `QueueInv` (the queue is finite and bounded, its ids are distinct and below
`nextId`, it has one proposal per pool, and what is approved was endorsed by the
human), `ShapeInv` (every decision in `raw` and in hand has its shape, and `raw` is
not empty in the tail), `TailInv` (an EXIT in hand stays one, a proposal in hand
has been received, and in supervised mode was endorsed and is what deploys), and
`UsedInv` (a consumed proposal is in no queue, except while the execution that
consumes it is being booked: between `Send` and `Finalize` a restart empties the
queue, and nothing else can take it up). `ApprovalHonoured` and `OneProposalPerPool`
follow from the lemmas on the queue's operators, `SafetyExitKept` from `TailInv`.
`FundedDispatch` needs `FundsInv`: a budget whose balance and price were read never
promises more than the wallet holds, with the entry being sent still counted until
its budget is read again.

The second half of `ScanCycleProofs` is about capital. `TypesHold` needs `ShapeInv`, since the
decisions of a pool are laid out as a sequence: a sequence of a finite set in its order
is any function from 1..n onto it that rises (`Opened`), and what the proof needs of it
is only that it is one. `CapHolds` needs `CapInv`: an entry that waits in the list of
its pool, or in the redeployment, has a free place (`Roomy`), and no step before it takes
the place away, because the entry comes last in its list (`ListInv`) and another pool's
decisions do not touch it. `BootCapped` says that the book found at a boot is within the
cap; the code never checks a book it finds. `CountedOnce` needs `CountInv`: while an
entry waits, the wallet value is `Known`, that is unread, or read after the last entry;
a value that counts what was spent lives only from a dispatch to the block that its
failed re-read sets, and a pool is a candidate of the redeployment only if its slot
passed the wallet gate, or it exits, or is full (`Vetted`). A pool that is full, be it
with positions the engine found, is captured before the wallet gate; it is refused before
the redeployment sends, because the risk engine counts its positions anew (`HasPlace`,
`risk-service.ts:47-66`, run at `program.ts:9800-9803`).
`NamedInv` says that decisions name positions of their own pool.

### The parts

A step of `MCParts` is a step of the part it is (`StepOf`), so `PartsProofs` has one
section per component and reads its variables under the names `MCParts` gives them.
`PartsAssumption` and `RecordsAssumption` say of the settings what their validation says
(a count of confirmations is positive, a lifetime is not zero), and of the model's values
that "nobody" is nobody; members and submitters are finitely many. Of amounts they say
that they are natural numbers, and that a mint needs something of each leg; the pools of
a book are finitely many. Of what is
delivered: the buffer of reports and the limiter's count are not zero, and a status
snapshot is kept at least as long as a request may be worked on and its heartbeat lives
together, of which the code keeps days against minutes.

* `PoolEvaluation` (`EvaluationInv`): the streak of evaluations a stop saw breached never
  gets ahead of the count the engine keeps (`StreakInv`), nor do the replay's counts and
  its peak until the engine has decided to exit, but in positions that are `apart`
  (`ReplayInv`). On a snapshot both evaluate this holds because the engine skips a reset
  where an earlier branch decides and the replay does not; what the engine lost to a
  rebalance or a restart, rejected after it was saved, or saw and did not save, makes a
  position `apart` until the engine's counts have caught up (`Ahead`).
  `BreachActedOn` follows, since the exit chain compares that count.
* `TokenRisk` (`TokensInv`): a signal that is kept is the last one told, and every verdict
  that passes came out of checks that were read (`VerdictIsVerified`).
* `Updater` (`UpdateInv`): `PlaceInv` says at each step of a run where the version that
  ran is: in the directory, under the temporary name, or in a backup.
* `Schema` (`SchemaInv` of `SchemaProofs`): what the versions a database has say of its
  columns, flags and rows (`DbFits`), and that a process which came to version n found or
  applied all versions before it (`ProcFits`). A rebuild that runs again, or meets a row
  of another build, therefore finds the columns and keys it copies by. The
  error of a job is missing in just those files whose jobs v23 rebuilt. The theorem is
  about `Schema` on its own; `PartsProofs` takes it over through an instance of
  `SchemaProofs` on the variables of the part (`SameInit`, `SameNext`, `SameKept`).
* `AcpTransport` (`AcpInv`): words that may still arrive are of the prompt waited for or of
  one that was given up (`InboxInv`, `TextInv`), and no sample of the window is younger
  than the last one recorded (`AgesInv`), so the window is empty once that one is too old
  (`StaleIsEvicted`).
* `GatewayTransport` (`GatewayInv`): a run that is registered is of a prompt that was sent.
* `Accounts`: of a code that is free nobody was told that it linked (`CodesInv`), which is
  all it takes, because the claim and the answer are one batch. For the referrals
  `ReferralsInv` says that an inserted application is the only one of its referee
  (UNIQUE), that no bonus was paid before its turn, and that the referrer was paid for
  just some set of referees (`PaidFor`): all of those who were paid or are next, none of
  those he is still owed for. The bounds of `BonusesBacked` are the sizes of that set.

`FundsAccounted` is the conjunction of what four parts promise of money; `RecordsProofs`
proves each from an invariant of its own.

* `RevenueTerms` (`TariffInv`): the cache, the stored answer and what a request has read
  are `Good` until the time they are used: free of a fee, or both halves were in force less
  than a lifetime before, or a fetch failed less than a lifetime before. The stored
  terms may be of any age, but they are read only after a failed fetch, which excuses
  them for as long as they are then kept. What is in force only gets more
  recent, so good terms stay good (`GoodStays`) and are used as good (`GoodUsed`).
* `EntryFunding` (`EntryInv`): while no swap has outlived its wait nobody else moves the
  wallet, so what the entry read is what it holds until it sends something (`Seen`); a
  held-leg swap keeps the half of its own leg and its floor fills the other one
  (`HeldSwap`); and each mode still owes the mint what `Owed` says when it comes to wrap.
* `Harvest` (`FeesInv`): the position has one token and one record at a time, whose key
  changes, and a row under one of those keys (`FeesShape`); what is booked, or about to
  be, was paid out (`FeesPaid`); and a position harvested in a pass is either seen under
  its key or not due under the one the pass has yet to reach (`FeesPass`).
* `ExitBooking` (`BooksInv`): while the position is on chain the record and the row
  follow the ledger and no job is open (`OnChain`); the answer of an exit completes the
  record to the total of all that came out less all that went in, and jobs are opened only
  for its legs (`Answer`); what is due is that total and nothing else is open, or it
  is unknown, or each leg has its job (`Booked`).

`DeliveredOnce` is what five instances promise of messages that are retried.

* `Telemetry` of the reports (`ErrorsInv`): a receipt exists only for a report that was
  counted, and for every counted one that may still come again (`ReceiptInv`); what is
  under way was reported, and what is answered was counted if it is not malformed
  (`WireInv`), so the head of the buffer is dropped only once its sound reports are
  counted. A malformed one is left out of a batch that is answered as accepted.
* `Telemetry` of the alerts (`AlertsInv`): a flush works only on rows it claimed and that
  name it (`ClaimInv`), and an alert was sent no more often than claims of it were
  interrupted or attempts are counted, with one more once it is delivered (`SentInv`).
* `Feedback` of the submissions (`RemarksInv`): for the end of each span, the rows within
  it and the requests that will be accepted come to no more than the limit and one for
  each submitter but one, which is what a check before an await can let through
  (`LimitInv`); an id answered is one of the table (`StoredInv`).
* `Feedback` of the limiter (`LimiterInv`): the last accepted requests, as many as its
  counter says, are those it counted, and what lies behind them is more than an hour away.
* `EngineState` (`StatusInv`): a request ends within its working time, has its snapshot
  once that was written (`ReportFits`), and a heartbeat is of a request, lives no longer
  than that request could write it for, and its snapshot outlives it (`BeatFits`,
  `ShotsFit`).

`EntriesSound` is what three parts promise of the way into a position.

* `CandidateBook` (`CandidatesInv`): at most one record is not written yet, the others are
  in the table as in memory (`SavingInv`), so a restart loses at most that one; a record
  counts no more scans than were made in a row (`ScansInv`); a pool the scans of the cycle
  have been through is a candidate only if it is proven (`DecidedInv`), and what was
  entered or rests has that state in both places unless its record was lost (`StateOf`).
* `EntryGates` (`GatesInv`): as long as no gate refused, the reading satisfies those passed
  so far (`PassedInv`); what is captured for the redeployment had passed them all or has
  no room in this cycle (`CapturedInv`). `EntryOutlives` excepts what the gates leave open:
  readings no gate looks at (`sinks`: a drop of the TVL, a drain, a depeg, dust) and
  settings by which an entry may be below what the exit asks for (`LooseSetting`). The
  defaults (a ratio of 1.2 against the 0.5 of the exit, a drawdown of 5 percent in both)
  are not loose; the validation of the settings asks only for numbers that are not negative.
* `Sizing` (`SizingInv`, live and on paper): an entry under way still has the room it was
  decided in, for the counts, the cap and the share, because nothing moves money between
  the decision and the booking (`UnderWay`). That the positions of all pools stay within
  their limit is about a sum over the pools, a fold: `SumsUpTo` shows that the function it
  is defined by exists, and `TotalOfNaturals`, `TotalChanged` what it amounts to, by taking
  a smallest subset for which they would fail (`SmallestSubset`).

### Only model-checked

All liveness (fairness and `ENABLED` are beyond the prover): `ClosedIsSettled`,
`PauseLifts`, `TrackingConverges`. Of the invariants, only `TypeOK` of `MCParts`, which is
the conjunction of the types of all the parts (the proofs above carry the types they
need).

## 5. What was observed

`PROJECT.json` lists four findings with their runs. The following configurations
are kept beside them: TLC finds their property violated by what the code does, and
each shows a hazard whose passing property is stated around it.

| Configuration | Property | What it shows |
|---|---|---|
| `SettlementStuck.cfg` | `ClosedIsSettled` | a sale without a v3 Swap event is reconciled for ever |
| `SettlementPartial.cfg` | `BookedIsSettled` | one failed listing of two books a position early |
| `SettlementReopened.cfg` | `BookedRowKept` | the save of a position that is still tracked reopens its booked row (`program.ts:2749-2754`) |
| `LiveExecutionPhantom.cfg` | `BookedExitIsGone` | a failed listing is taken for an empty wallet and an exit is booked (`program.ts:2227`) |
| `ProcessLockThree.cfg` | `MutualExclusion` | a fresh lock is moved aside while a third launch starts |
| `ScanAdopted.cfg` | `AdoptedNeverRebalanced` | a proposal rebalances an adopted position (`program.ts:10137-10149`) |
| `ScanBudget.cfg` | `BudgetFailsClosed` | without a price entries need nothing and pass (`program.ts:6571-6579`, `10945-10961`) |
| `SchemaJobs.cfg` | `JobsStored` | migration 23 rebuilds `settlement_jobs` without the `error` column `saveSettlementJob` writes |
| `CompoundBasis.cfg` | `CompoundDeposited` | a truncated token amount is booked as deposited (`program.ts:11416-11419`) |
| `SizingShare.cfg` | `ShareCapHeld` | an agent's size skips the share of the pool (`risk-service.ts:369-393`) |

What a reader of the modules should also know, where the models follow the code and
the code may surprise:

* Scan cycle: the cooldown after a loss is never reached (`program.ts:11066-11100`);
  an HTTP approval may count an id that was replaced; approved proposals do not
  survive a restart; the stops after the overlay look at the first position of a
  pool only; the entry slot counts every position of a pool, its allocation and
  the redeployment only the engine's own.
* Pool evaluation: a held pool that becomes rejected is neither stopped nor held in
  that cycle (`7402-7408`); breach counts are not reset in cycles an earlier branch
  decides (`8227-8229`), while the replay resets them. A live rebalance gives the position
  a new id (`2903-2923`) and with it a new count (`8191`, `8223`): one that is rebalanced
  at each evaluation is never stopped. The backtest also replays reads the screening
  rejected, and compares a TVL with one from before an outage of any length, where the
  engine looks back 26 hours; it never sees a dead feed.
* Entry gates: evolved thresholds have no global clamp; a depegged pair with nothing
  held is entered and exited in turn; the minimum drawdown of the score gate is
  fixed at -5 while the exit's is configurable. No gate looks at what some branches of the
  exit chain do (the drop and drain of the TVL, `8119-8133`, `8151-8166`; dust).
* Safety pause: a listing of the jobs that fails looks like nothing in flight, and lifts a
  pause that waits for the jobs to end (`program.ts:6295`); a sale whose output is never
  read keeps a `settlement_overdue` pause for ever, with no failure anywhere.
* Advice: the comment at `program.ts:5443-5446` has a redeployment whose proposal is invalid
  "arm backoff (mirrors the tail) and skip"; the code (`5465`) arms it and goes on as
  without a proposal, as the tail does (`RedeployOverlay`). Supervised mode holds it.
* Sizing: the paper portfolio of a slot counts the seed and the positions that were
  bought with it (`program.ts:8386-8388`); the floor of a slot may exceed the wallet and
  the caps before the last gate; the redeployment is judged without the entry floor.
* Candidates: the state `rejected` is unreachable; a candidate whose position is
  closed from outside stays `entered`.
* Token risk: a failed probe is cached like a verdict until a refresh; one mode
  clears the verdicts and the others do not.
* Harvest: one gate fails open where its comment (`11277-11279`) says closed; a v4
  collect of nothing is sent again every pass.
* Exit booking: recorded outcomes feed the signals only on the path without jobs; an
  exit that is mined but has no receipt is booked without PnL for good.
* Entry funding: a leg may be swapped twice when the wait for the first swap times out
  (`SwappedOnce` of `MCParts`, refuted at `adapter-service.ts:4368-4399`); the floor of
  a native swap is the one quoted before the bump (`2960-2985`).
* Revenue terms: terms that fail closed have no wallet, which makes the fee zero although
  the log speaks of the maximum; the database's terms are kept a full lifetime.
* Updater: "a failure restores the previous install" (`CHANGELOG.md:40`) is refuted
  (`FailureRestores` of `MCParts`): some failures leave the version that ran in a backup
  only. What passes is that it is whole somewhere on the disk. Two updates at once are
  not modelled; nothing in the code keeps them apart.
* Transports: a buffer survives the child that died in mid-frame; `connect()` answers
  before the handshake has ended; an old socket's late close clears its successor.
* Reports: a malformed report in a mixed batch is lost with a 200 (`api/index.ts:1880-1903`,
  `error-reporter.ts:303`); a batch of malformed ones only is refused, put back at
  the head of the buffer, and goes first at every later flush.
* Cloud: a report that was given up may store "running" after "stopped"; a losing
  confirmation still updates its user; a referral is applied in separate statements, so
  a milestone may be skipped or met twice; two reads at once may create two codes.
* Feedback: two submitters may pass the local gates together; the cloud may store the
  same hash twice; feedback that stayed local is never sent again.

## 6. What is not modelled, and why

* Arithmetic over external feeds: scores, ranges, volatility, ticks, prices of Pyth,
  Krystal and GeckoTerminal, copy-trading signals. They are floating point, have no
  protocol, and reach the models as readings that may take any value of a small set.
  Tokens, fees and sizes appear in small units where a property tells them apart.
* The nonce cache and gas pricing of `sendTx`: in the models no two transactions compete
  for a nonce, and a replacement is a second broadcast of the same transaction.
* Farm rewards: the adapter for these chains has none.
* Event rows, logging, formatting and notification texts; prompts and the parsing of
  an agent's answer (the transports deliver text or an error).
* Queries that only read: status, portfolio, the commands of the bot. Audit log,
  subscriptions, installs and the revenue log of the cloud are single writes.
* Parsing of the environment and of configuration files; free-text memory.
* Backtest drivers (their exit evaluator is in `PoolEvaluation`), the installer, the
  MCP tools and the thin clients in `packages/`, which forward to the HTTP server.
* Traffic of the wallet between a settlement's sale and an entry's funding: there is no
  reservation between them in the code, `Settlement` and `EntryFunding` each leave the
  other out.
