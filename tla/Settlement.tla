------------------------------ MODULE Settlement ------------------------------
(***************************************************************************)
(* How the engine turns the tokens of a closed position back into ETH      *)
(* (engine/autonomous-runtime.ts, with its callers in engine/program.ts    *)
(* and its chain access in engine/adapter-service.ts).                     *)
(*                                                                         *)
(* An exit burns the position on chain, saves one settlement job per token *)
(* it received, and closes the position row.  Every later cycle sells the  *)
(* due jobs one after the other, probing the signature a job recorded      *)
(* before it ever sells again, and books the realized PnL of a position    *)
(* once all of its jobs are confirmed.  Tokens no job or position accounts *)
(* for are swept into fresh or revived jobs at the start of the cycle.     *)
(* An exit without an answer is booked from a listing of the wallet, and a *)
(* row is written anew as long as the engine tracks its position, or when  *)
(* it finds liquidity under its id again.                                  *)
(*                                                                         *)
(* The engine is one fiber, so `pc' is its program counter; the chain, the *)
(* clock and the crash are the environment.  A SQLite failure throws out   *)
(* of Effect.sync and ends the process, so it is a Crash here.             *)
(***************************************************************************)
EXTENDS Naturals, FiniteSets

CONSTANTS Position,     \* position rows the exits close
          Mint,         \* tokens that are neither native nor the stablecoin
          Job,          \* settlement job ids
          Owner,        \* Owner[j]: the job's position, NoPosition for orphan:<id>
          MintOf,       \* MintOf[j]: the token the job sells
          MaxTx,        \* bound: swap transactions ever broadcast
          MaxFaults,    \* bound: failures, crashes and lost answers
          Events,       \* the values "the receipt carries a v3 Swap event" takes
          NoPosition, NoJob

ASSUME SettlementAssumption ==
    /\ NoPosition \notin Position
    /\ NoJob \notin Job
    /\ Owner \in [Job -> Position \cup {NoPosition}]
    /\ MintOf \in [Job -> Mint]
    /\ MaxTx \in Nat
    /\ MaxFaults \in Nat
    /\ Events \subseteq BOOLEAN

Tx   == 1 .. MaxTx
NoTx == 0

VARIABLES
    \* the database
    row,      \* row[j]: the settlement_jobs row
    pos,      \* pos[p]: the positions row
    \* the chain
    onChain,  \* the positions that hold liquidity
    burned,   \* the positions whose NFT is gone for good
    tx,       \* tx[t]: the swap transactions ever broadcast
    \* the engine fiber; all of it is lost in a crash
    pc, cur, who, hash, fly,
    tracked,  \* the positions in trackedPositions
    todo,     \* jobs this cycle still has to work, or this exit to save
    copies,   \* how often the list of the settlement phase holds a job: twice
              \* if it was revived, once as the terminal job it was
    heard,    \* the jobs this phase could list: all of them, or none
    \* observation: jobs whose tokens were booked at value without a swap, and
    \* positions last booked in a phase that could not list the jobs
    kept, blind,
    faults

dbVars    == <<row, pos>>
chainVars == <<onChain, burned, tx>>
nftVars   == <<onChain, burned>>
regVars   == <<cur, who, hash, fly, tracked>>
listVars  == <<todo, copies, heard>>
ghostVars == <<kept, blind>>
vars      == <<row, pos, onChain, burned, tx, pc, cur, who, hash, fly, tracked, todo, copies, heard,
               kept, blind, faults>>

Active == {"pending", "prepared", "submitted", "retryable"}
Status == {"absent", "confirmed", "terminal"} \cup Active

\* due: nextRetryAt is null or past.  late: expiresAt is past.
\* fin: finalized_at is set.  Job evidence (output, cost) is set exactly when
\* the status is confirmed, so it has no field of its own.
Row == [status : Status, sig : Tx \cup {NoTx}, due : BOOLEAN, late : BOOLEAN, fin : BOOLEAN]

\* closed: closed_at is set and realized_pnl_usd is null.  final: both are set.
PosStatus == {"open", "closed", "final", "deleted"}
TxStatus  == {"unused", "pending", "mined", "reverted", "gone"}
TxRecord  == [job : Job \cup {NoJob}, st : TxStatus, event : BOOLEAN]
Control   == {"idle", "ready", "work", "swap", "wait", "sold", "close", "decide", "record"}

TypeOK ==
    /\ row \in [Job -> Row]
    /\ pos \in [Position -> PosStatus]
    /\ onChain \subseteq Position
    /\ burned \subseteq Position
    /\ tx \in [Tx -> TxRecord]
    /\ pc \in Control
    /\ cur \in Job \cup {NoJob}
    /\ who \in Position \cup {NoPosition}
    /\ hash \in Tx \cup {NoTx}
    /\ fly \in Tx \cup {NoTx}
    /\ tracked \subseteq Position
    /\ todo \subseteq Job
    /\ copies \in [Job -> 0 .. 2]
    /\ heard \in {{}, Job}
    /\ kept \subseteq Job
    /\ blind \subseteq Position
    /\ faults \in 0 .. MaxFaults

Absent == [status |-> "absent", sig |-> NoTx, due |-> FALSE, late |-> FALSE, fin |-> FALSE]
Fresh  == [status |-> "pending", sig |-> NoTx, due |-> TRUE, late |-> FALSE, fin |-> FALSE]

Init ==
    /\ row = [j \in Job |-> Absent]
    /\ pos = [p \in Position |-> "open"]
    /\ onChain = Position /\ burned = {}
    /\ tx = [t \in Tx |-> [job |-> NoJob, st |-> "unused", event |-> FALSE]]
    /\ pc = "idle"
    /\ cur = NoJob /\ who = NoPosition /\ hash = NoTx /\ fly = NoTx
    /\ tracked = Position
    /\ todo = {} /\ copies = [j \in Job |-> 0] /\ heard = {}
    /\ kept = {} /\ blind = {}
    /\ faults = 0

Fault   == faults < MaxFaults /\ faults' = faults + 1
NoFault == UNCHANGED faults

-------------------------------------------------------------------------------
(* What a step writes into a job row.                                      *)

ErrorKind == {"transient", "unrecoverable", "other"}

\* Mutant: a job past its window is written off as settled.
RetryableJobWrittenOff(r, kind) ==
    IF kind = "unrecoverable" THEN [r EXCEPT !.status = "terminal", !.due = TRUE]
    ELSE IF kind = "other" /\ r.late THEN [r EXCEPT !.status = "confirmed", !.due = TRUE]
    ELSE [r EXCEPT !.status = "retryable", !.due = FALSE]

\* retryableJob: a transient error never expires the job, an unrecoverable
\* one ends it at once, any other ends it when its window is past.
RetryableJob(r, kind) ==
    IF kind = "unrecoverable" \/ (kind = "other" /\ r.late)
    THEN [r EXCEPT !.status = "terminal", !.due = TRUE]
    ELSE [r EXCEPT !.status = "retryable", !.due = FALSE]

\* Mutant: rebuilt from the job as it was listed, without the signature the
\* broadcast captured.
ReconciliationJobAsListed(r) == [r EXCEPT !.status = "prepared", !.due = TRUE, !.sig = NoTx]

\* reconciliationJob: sold or possibly sold, so only the recorded signature
\* may be probed again.
ReconciliationJob(r) == [r EXCEPT !.status = "prepared", !.due = TRUE]

ConfirmedJob(r) == [r EXCEPT !.status = "confirmed", !.due = TRUE]

\* Mutants: the chain state is copied into the row; the window is ignored.
NotFoundJobCopied(r)  == [r EXCEPT !.status = "not_found", !.due = FALSE]
NotFoundJobForever(r) == [r EXCEPT !.status = "submitted", !.due = FALSE]

\* getSwapStatus answers not_found.
NotFoundJob(r) ==
    IF r.late THEN [r EXCEPT !.status = "terminal", !.due = TRUE]
              ELSE [r EXCEPT !.status = "submitted", !.due = FALSE]

-------------------------------------------------------------------------------
(* The start of a cycle: reconcilePositions, then the orphan sweep.        *)

\* What the rows of P become.
Rows(P, st) == [p \in Position |-> IF p \in P THEN st ELSE pos[p]]

\* reconcilePositions drops the tracked positions whose liquidity is gone from
\* the chain and deletes their rows, whatever these say, and adopts the live
\* positions it does not track, as new rows: an upsert, which reopens the row of
\* a position that was closed.  A failed listing of the wallet's positions
\* leaves every row alone, an unread pool is not adopted.
Reconcile ==
    /\ pc = "idle"
    /\ pc' = "ready"
    /\ \/ \E found \in SUBSET (onChain \ tracked) :
             LET gone == tracked \ onChain
             IN  /\ pos' = [p \in Position |->
                              CASE p \in gone  -> "deleted"
                                [] p \in found -> "open"
                                [] OTHER       -> pos[p]]
                 /\ tracked' = (tracked \cap onChain) \cup found
                 /\ IF found = onChain \ tracked THEN NoFault ELSE Fault
       \/ /\ Fault
          /\ UNCHANGED <<pos, tracked>>
    /\ UNCHANGED <<row, chainVars, cur, who, hash, fly, listVars, ghostVars>>

\* The claims before the settlement phase and the evaluation of a pool after it
\* save the tracked record, whose closed_at is null.
SaveTracked(p) ==
    /\ pc \in {"ready", "decide"}
    /\ p \in tracked
    /\ pos' = Rows({p}, "open")
    /\ NoFault
    /\ UNCHANGED <<row, chainVars, pc, regVars, listVars, ghostVars>>

SiglessTerminal(j) == row[j].status = "terminal" /\ row[j].sig = NoTx

\* Mints some active job or some open position accounts for.  `known' are the
\* jobs the sweep could list, `unread' the positions whose pool state could not
\* be fetched: their legs do not count.
Backed(known, unread) ==
    {MintOf[j] : j \in {k \in known : row[k].status \in Active}} \cup
    {MintOf[j] : j \in {k \in Job : Owner[k] \in Position \ unread /\ pos[Owner[k]] = "open"}}

\* A revived row keeps its id, its owner and (by Sweepable) its null signature.
Enqueued(r) == [r EXCEPT !.status = "pending", !.due = TRUE, !.late = FALSE]

\* The jobs a sweep may enqueue: a signature-less terminal job of the mint is
\* revived in place, else a new orphan row is created.
Sweepable(j, known, unread) ==
    /\ MintOf[j] \notin Backed(known, unread)
    /\ \/ j \in known /\ SiglessTerminal(j)
       \/ /\ row[j].status = "absent"
          /\ Owner[j] = NoPosition
          /\ ~ \E k \in known : MintOf[k] = MintOf[j] /\ SiglessTerminal(k)

\* What the processing loop does not push on as it is.
Processable(r) == r.status \in Active /\ r.due

Swept(S) == [j \in Job |-> IF j \in S THEN Enqueued(row[j]) ELSE row[j]]

\* The phase's list is what it listed, followed by what the sweep enqueued.
Copies(listed, S) ==
    LET count(T) == [j \in Job |-> IF j \in T THEN 1 ELSE 0]
    IN  [j \in Job |-> count({k \in listed : row[k].status # "absent"})[j] + count(S)[j]]

\* The listing of the jobs, sweepOrphanSettlements with a listing of its own,
\* and the list to process.  A listing that fails is taken for an empty one.
\* Whether the wallet holds a sellable amount of a mint is not tracked: any
\* subset of the candidates, one job per mint, may be enqueued.  The saves of
\* one sweep are independent, so a crash among them is a smaller sweep.
StartPhase ==
    /\ pc = "ready"
    /\ \E listed, known \in {{}, Job}, unread \in SUBSET Position :
       \E S \in SUBSET {j \in Job : Sweepable(j, known, unread)} :
          /\ IF listed = Job /\ known = Job /\ unread = {} THEN NoFault ELSE Fault
          /\ \A j, k \in S : MintOf[j] = MintOf[k] => j = k
          /\ row' = Swept(S)
          /\ copies' = Copies(listed, S)
          /\ heard' = listed
    /\ todo' = {j \in Job : copies'[j] > 0 /\ Processable(row'[j])}
    /\ pc' = "work"
    /\ UNCHANGED <<pos, chainVars, regVars, ghostVars>>

-------------------------------------------------------------------------------
(* processSettlementJobs, one job after the other.  Every branch ends with *)
(* the final saveSettlementJob of the loop body.                           *)

FinishJob(j, r) ==
    /\ row' = [row EXCEPT ![j] = r]
    /\ todo' = todo \ {j}
    /\ pc' = "work"
    /\ cur' = NoJob /\ hash' = NoTx /\ fly' = NoTx
    /\ UNCHANGED <<pos, nftVars, who, tracked, copies, heard, blind>>

Working(j) == pc = "work" /\ j \in todo

\* The recorded signature has a successful receipt: confirm from the Swap
\* event it carries; without one (or without a SOL price) only reconcile.
ProbeConfirmed(j) ==
    /\ Working(j)
    /\ row[j].sig # NoTx
    /\ tx[row[j].sig].st = "mined"
    /\ \/ /\ tx[row[j].sig].event
          /\ FinishJob(j, ConfirmedJob(row[j]))
          /\ NoFault
       \/ /\ ~ tx[row[j].sig].event
          /\ FinishJob(j, ReconciliationJob(row[j]))
          /\ NoFault
       \/ /\ FinishJob(j, ReconciliationJob(row[j]))
          /\ Fault
    /\ UNCHANGED <<tx, kept>>

\* No receipt for the recorded signature (getSwapStatus also reads a failed
\* receipt call as not_found): keep it, until the window is past.
ProbeNotFound(j) ==
    /\ Working(j)
    /\ row[j].sig # NoTx
    /\ \/ tx[row[j].sig].st \in {"pending", "gone"} /\ NoFault
       \/ tx[row[j].sig].st \in {"mined", "reverted"} /\ Fault
    /\ FinishJob(j, NotFoundJob(row[j]))
    /\ UNCHANGED <<tx, kept>>

\* Mutant: not_found is read as a failed transaction.
CanSellNotFound(j) ==
    row[j].sig # NoTx => tx[row[j].sig].st \in {"reverted", "pending", "gone"}

\* Only a job with no recorded signature, or whose recorded transaction
\* definitively failed, goes on to the swap.
CanSell(j) == row[j].sig # NoTx => tx[row[j].sig].st = "reverted"

\* A crash or an error before a signature was recorded left it prepared.
Unresolved(j) == row[j].status = "prepared" /\ row[j].sig = NoTx

\* "Prepared settlement requires operator reconciliation".
RefuseUnresolved(j) ==
    /\ Working(j) /\ CanSell(j) /\ Unresolved(j)
    /\ FinishJob(j, RetryableJob(row[j], "other"))
    /\ NoFault
    /\ UNCHANGED <<tx, kept>>

\* The bound on transactions is reached: from here on no quote succeeds.
Exhausted == \A t \in Tx : tx[t].st # "unused"

\* Prices, quote, preparation or simulation fail.
QuoteFails(j) ==
    /\ Working(j) /\ CanSell(j) /\ ~ Unresolved(j)
    /\ \E kind \in ErrorKind :
          /\ FinishJob(j, RetryableJob(row[j], kind))
          /\ IF Exhausted /\ kind = "unrecoverable" THEN NoFault ELSE Fault
    /\ UNCHANGED <<tx, kept>>

\* Native tokens, priced dust, and unpriceable tokens of a synthetic group are
\* confirmed at their value without a swap.
BookUnsold(j) ==
    /\ Working(j) /\ CanSell(j) /\ ~ Unresolved(j)
    /\ FinishJob(j, ConfirmedJob(row[j]))
    /\ kept' = kept \cup {j}
    /\ NoFault
    /\ UNCHANGED tx

\* Quoted, prepared and simulated: the row is saved as prepared first.
SavePrepared(j) ==
    /\ Working(j) /\ CanSell(j) /\ ~ Unresolved(j)
    /\ ~ Exhausted
    /\ row' = [row EXCEPT ![j].status = "prepared"]
    /\ cur' = j
    /\ pc' = "swap"
    /\ NoFault
    /\ UNCHANGED <<pos, chainVars, who, hash, fly, tracked, listVars, ghostVars>>

-------------------------------------------------------------------------------
(* submitSwap, and what processSettlementJobs does with its result.        *)

\* The transaction the wallet broadcasts next.
NextTx(t) == tx[t].st = "unused" /\ \A u \in Tx : u < t => tx[u].st # "unused"

SentTx(t, j, event) == [tx EXCEPT ![t] = [job |-> j, st |-> "pending", event |-> event]]

\* The approval, the dry run, estimateGas or sendTransaction fails.  A
\* sendTransaction whose answer is lost may have reached the mempool.
SwapNotSent ==
    /\ pc = "swap"
    /\ Fault
    /\ \E kind \in ErrorKind : FinishJob(cur, RetryableJob(row[cur], kind))
    /\ \/ UNCHANGED tx
       \/ \E t \in Tx, event \in Events : NextTx(t) /\ tx' = SentTx(t, cur, event)
    /\ UNCHANGED kept

Broadcast(t) ==
    /\ pc = "swap"
    /\ NextTx(t)
    /\ \E event \in Events : tx' = SentTx(t, cur, event)
    /\ hash' = t
    /\ fly' = t
    /\ pc' = "wait"
    /\ NoFault
    /\ UNCHANGED <<dbVars, nftVars, cur, who, tracked, listVars, ghostVars>>

\* The receipt wait of sendTx times out and the node's pending count says the
\* transaction was dropped: once, the same nonce goes out with more gas.
Rebroadcast(t) ==
    /\ pc = "wait"
    /\ fly = hash
    /\ tx[fly].st \in {"pending", "gone"}
    /\ NextTx(t)
    /\ Fault
    /\ tx' = [SentTx(t, cur, tx[fly].event) EXCEPT ![fly].st = "gone"]
    /\ fly' = t
    /\ UNCHANGED <<dbVars, nftVars, pc, cur, who, hash, tracked, listVars, ghostVars>>

\* sendTx throws: the receipt says reverted, or the wait timed out (the
\* transaction was dropped, is still pending, or is mined and unread).
SendFails ==
    /\ pc = "wait"
    /\ IF tx[fly].st \in {"reverted", "gone"} THEN NoFault ELSE Fault
    /\ \E kind \in {"transient", "other"} : FinishJob(cur, RetryableJob(row[cur], kind))
    /\ UNCHANGED <<tx, kept>>

\* sendTx returns the hash of its first broadcast, and only now onBroadcast
\* saves it with the row.
RecordSignature ==
    /\ pc = "wait"
    /\ tx[fly].st = "mined"
    /\ row' = [row EXCEPT ![cur].status = "submitted", ![cur].sig = hash, ![cur].due = FALSE]
    /\ pc' = "sold"
    /\ NoFault
    /\ UNCHANGED <<pos, chainVars, regVars, listVars, ghostVars>>

\* The output is read from the Swap event of the recorded transaction, else
\* from the native balance, which a v3 route (paid in WETH) does not raise.
OutputVisible == (tx[hash].st = "mined" /\ tx[hash].event) \/ ~ tx[fly].event

ConfirmSold ==
    /\ pc = "sold"
    /\ OutputVisible
    /\ FinishJob(cur, ConfirmedJob(row[cur]))
    /\ NoFault
    /\ UNCHANGED <<tx, kept>>

\* No output evidence, or the balance cannot be read.
ReconcileSold ==
    /\ pc = "sold"
    /\ IF OutputVisible THEN Fault ELSE NoFault
    /\ FinishJob(cur, ReconciliationJob(row[cur]))
    /\ UNCHANGED <<tx, kept>>

FinishWork ==
    /\ pc = "work"
    /\ todo = {}
    /\ pc' = "close"
    /\ NoFault
    /\ UNCHANGED <<dbVars, chainVars, regVars, listVars, ghostVars>>

-------------------------------------------------------------------------------
(* The end of processSettlementJobs: the groups of the processed list.     *)

Group(p)  == {j \in Job : Owner[j] = p /\ row[j].status # "absent"}
Listed(p) == {j \in Group(p) : copies[j] > 0}

\* Mutant: one confirmed job is enough.
CompleteSome(p) ==
    /\ \E j \in Listed(p) : ~ row[j].fin
    /\ \E j \in Listed(p) : row[j].status = "confirmed" /\ copies[j] = 1
    /\ pos[p] # "deleted"

\* Every listed job of the group confirmed, some not finalized yet, and the
\* position row still there.  A job revived this cycle is listed as terminal too.
Complete(p) ==
    /\ \E j \in Listed(p) : ~ row[j].fin
    /\ \A j \in Listed(p) : row[j].status = "confirmed" /\ copies[j] = 1
    /\ pos[p] # "deleted"

\* A phase that could not list the jobs knows those its sweep returned only.
Blind(p) == IF heard = Job THEN blind \ {p} ELSE blind \cup {p}

\* Mutant: the jobs are left to a later write.
FinalizeRowOnly(p) ==
    /\ pc = "close"
    /\ Complete(p)
    /\ pos' = Rows({p}, "final")
    /\ blind' = Blind(p)
    /\ NoFault
    /\ UNCHANGED <<row, chainVars, pc, regVars, listVars, kept>>

\* finalizeSettlementGroup: the position row and its jobs in one transaction.
Finalize(p) ==
    /\ pc = "close"
    /\ Complete(p)
    /\ pos' = Rows({p}, "final")
    /\ row' = [j \in Job |-> IF j \in Listed(p) THEN [row[j] EXCEPT !.fin = TRUE] ELSE row[j]]
    /\ blind' = Blind(p)
    /\ NoFault
    /\ UNCHANGED <<chainVars, pc, regVars, listVars, kept>>

\* A group that is not finalized (a read or its transaction failed) waits for
\* the next cycle.
EndPhase ==
    /\ pc = "close"
    /\ IF \E p \in Position : Complete(p) THEN Fault ELSE NoFault
    /\ pc' = "decide"
    /\ copies' = [j \in Job |-> 0]
    /\ heard' = {}
    /\ UNCHANGED <<dbVars, chainVars, regVars, todo, ghostVars>>

-------------------------------------------------------------------------------
(* The exits of the decision phase, and the end of the cycle.              *)

\* Mutant: burnToken is false, the emptied NFT stays in the wallet.
BurnLeavesShell(p) == onChain' = onChain \ {p} /\ UNCHANGED burned

\* burnToken: true.
Burn(p) == onChain' = onChain \ {p} /\ burned' = burned \cup {p}

\* exitPosition succeeds: it withdraws, collects and burns in one transaction, and
\* pays out a token for each of the new jobs.  The evaluation that decided it
\* has saved the row.
Exit(p) ==
    /\ pc = "decide"
    /\ p \in tracked \cap onChain
    /\ Burn(p)
    /\ pos' = Rows({p}, "open")
    /\ todo' \in SUBSET {j \in Job : Owner[j] = p /\ row[j].status = "absent"}
    /\ who' = p
    /\ pc' = "record"
    /\ NoFault
    /\ UNCHANGED <<row, tx, cur, hash, fly, tracked, copies, heard, ghostVars>>

\* recordExitSettlements saves one job after the other.
RecordJob(j) ==
    /\ pc = "record"
    /\ j \in todo
    /\ row' = [row EXCEPT ![j] = Fresh]
    /\ todo' = todo \ {j}
    /\ NoFault
    /\ UNCHANGED <<pos, chainVars, pc, regVars, copies, heard, ghostVars>>

\* closeExitedPosition.  An exit whose amounts are priced has paid something out,
\* which is what the jobs are for; with nothing paid out the value is unknown.
\* The PnL is null in either case.
ClosePosition ==
    /\ pc = "record"
    /\ todo = {}
    /\ pos' = Rows({who}, "closed")
    /\ tracked' = tracked \ {who}
    /\ who' = NoPosition
    /\ pc' = "decide"
    /\ NoFault
    /\ UNCHANGED <<row, chainVars, cur, hash, fly, listVars, ghostVars>>

\* exitPosition fails and probeMinedExit does not find the position in its
\* listing of the wallet, which is empty if it fails: the position was gone
\* before, the burn has landed without a receipt, or it is still there.  The row
\* is closed without jobs.  If the probe finds it, nothing is written.
ProbedExit(p) ==
    /\ pc = "decide"
    /\ p \in tracked
    /\ \/ p \notin onChain /\ UNCHANGED nftVars /\ NoFault
       \/ p \in onChain /\ (Burn(p) \/ UNCHANGED nftVars) /\ Fault
    /\ pos' = Rows({p}, "closed")
    /\ tracked' = tracked \ {p}
    /\ UNCHANGED <<row, tx, pc, cur, who, hash, fly, listVars, ghostVars>>

EndCycle ==
    /\ pc = "decide"
    /\ pc' = "idle"
    /\ NoFault
    /\ UNCHANGED <<dbVars, chainVars, regVars, listVars, ghostVars>>

\* The process dies (a kill, a SQLite failure, a shutdown signal interrupting
\* the fiber) and starts again with what the database and the chain hold.
Crash ==
    /\ pc # "idle"
    /\ Fault
    /\ pc' = "idle"
    /\ cur' = NoJob /\ who' = NoPosition /\ hash' = NoTx /\ fly' = NoTx
    /\ tracked' = {p \in Position : pos[p] = "open"}
    /\ todo' = {} /\ copies' = [j \in Job |-> 0] /\ heard' = {}
    /\ UNCHANGED <<dbVars, chainVars, ghostVars>>

-------------------------------------------------------------------------------
(* The environment: the chain, and the clock.                              *)

TxMoves(t, from, to) ==
    /\ tx[t].st = from
    /\ tx' = [tx EXCEPT ![t].st = to]
    /\ UNCHANGED <<dbVars, nftVars, pc, regVars, listVars, ghostVars>>

Mine(t)   == TxMoves(t, "pending", "mined") /\ NoFault
Revert(t) == TxMoves(t, "pending", "reverted") /\ Fault
Drop(t)   == TxMoves(t, "pending", "gone") /\ Fault

\* The owner empties a position, burns it, or adds liquidity to an emptied one;
\* or a burn lands that the engine no longer waits for.
OwnerMoves(p) ==
    /\ p \notin burned
    /\ \/ Burn(p)
       \/ onChain' = onChain \ {p} /\ UNCHANGED burned
       \/ onChain' = onChain \cup {p} /\ UNCHANGED burned
    /\ Fault
    /\ UNCHANGED <<dbVars, tx, pc, regVars, listVars, ghostVars>>

\* `now' is read once per phase, so time passes between cycles.
TimePasses(j, r) ==
    /\ pc = "idle"
    /\ row[j].status \in Active
    /\ row' = [row EXCEPT ![j] = r]
    /\ NoFault
    /\ UNCHANGED <<pos, chainVars, pc, regVars, listVars, ghostVars>>

BackoffElapses(j) == ~ row[j].due  /\ TimePasses(j, [row[j] EXCEPT !.due = TRUE])
WindowElapses(j)  == ~ row[j].late /\ TimePasses(j, [row[j] EXCEPT !.late = TRUE])

-------------------------------------------------------------------------------
JobStep(j) ==
    \/ ProbeConfirmed(j) \/ ProbeNotFound(j)
    \/ RefuseUnresolved(j) \/ QuoteFails(j) \/ BookUnsold(j) \/ SavePrepared(j)
    \/ RecordJob(j)

Engine ==
    \/ Reconcile \/ StartPhase
    \/ \E j \in Job : JobStep(j)
    \/ SwapNotSent \/ SendFails \/ RecordSignature \/ ConfirmSold \/ ReconcileSold
    \/ \E t \in Tx : Broadcast(t) \/ Rebroadcast(t)
    \/ FinishWork
    \/ \E p \in Position : SaveTracked(p) \/ Finalize(p) \/ Exit(p) \/ ProbedExit(p)
    \/ EndPhase \/ ClosePosition \/ EndCycle

Chain ==
    \/ \E t \in Tx : Mine(t) \/ Revert(t) \/ Drop(t)
    \/ \E p \in Position : OwnerMoves(p)

Clock == \E j \in Job : BackoffElapses(j) \/ WindowElapses(j)

Next == Engine \/ Chain \/ Clock \/ Crash

Spec == Init /\ [][Next]_vars

\* The scheduler fiber runs forever, a broadcast transaction that is not
\* dropped or reverted is mined, and every cycle is followed by a sleep during
\* which the clock moves (time passes in "idle" only, hence strong fairness).
Fairness ==
    /\ WF_vars(Engine /\ NoFault)
    /\ \A t \in Tx : WF_vars(Mine(t))
    /\ \A j \in Job : SF_vars(BackoffElapses(j)) /\ SF_vars(WindowElapses(j))

FairSpec == Spec /\ Fairness

-------------------------------------------------------------------------------
(* Safety.                                                                 *)

Sold(j) == \E t \in Tx : tx[t].job = j /\ tx[t].st = "mined"

\* A job is confirmed only if one of its own swaps was mined, whatever was
\* lost, timed out or crashed on the way (dust and native tokens excepted):
\* processSettlementJobs books no output that never arrived.
ConfirmedIsSold ==
    \A j \in Job : row[j].status = "confirmed" => j \in kept \/ Sold(j)

\* The PnL of a position is booked only when every settlement job saved for it
\* is confirmed and was marked with it ("finalizes positions whose settlements
\* completed", autonomous-runtime.ts:346): none of its tokens is still unsold,
\* in flight, or given up.  A phase that could not list the jobs sees only those
\* its sweep revived: what it books is set apart as blind.
FinalGroupSettled ==
    \A p \in Position : pos[p] = "final" /\ p \notin blind =>
        \A j \in Group(p) : row[j].status = "confirmed" /\ row[j].fin

\* The comment at autonomous-runtime.ts:346 without the exception.
BookedIsSettled ==
    \A p \in Position : pos[p] = "final" =>
        \A j \in Group(p) : row[j].status = "confirmed" /\ row[j].fin

\* The recorded transaction has landed or still may.
MayLand(j) == row[j].sig # NoTx /\ tx[row[j].sig].st # "reverted"

\* The engine broadcasts a swap for a job only while no signature is recorded
\* for it or the recorded transaction definitively failed: a recorded sale that
\* may still land is never sold again.
NoBlindResubmit ==
    [][\A t \in Tx : tx[t].st = "unused" /\ tx'[t].st # "unused" => ~ MayLand(tx'[t].job)]_vars

\* No later write (a retry, a reconciliation, a revival, a restart) loses or
\* replaces a recorded signature whose transaction may still land or has.
SignatureKept ==
    [][\A j \in Job : MayLand(j) => row'[j].sig = row[j].sig]_vars

\* What was finalized stays exactly as it was booked: a job row always, and a
\* position row from the moment the engine no longer tracks the position.  An
\* adoption reopens rows of closed positions, never one whose PnL was booked, since
\* that takes an exit which has burned the NFT.
FinalIsForever ==
    [][/\ \A j \in Job : row[j].fin => row'[j] = row[j]
       /\ \A p \in Position : pos[p] = "final" /\ p \notin tracked => pos'[p] = "final"]_vars

\* The same of a position that is still tracked: program.ts:2751-2753 saves "so the
\* savePosition upsert (which writes closed_at) cannot resurrect the row".
BookedRowKept ==
    [][\A p \in Position : pos[p] = "final" => pos'[p] = "final"]_vars

\* The comment at autonomous-runtime.ts:436-443 and the test at
\* bench/program-autonomous-token.test.ts:505-507 rule out that "the tokens are
\* sold twice": no job has two mined swaps.
SoldOnce ==
    \A t, u \in Tx : tx[t].st = "mined" /\ tx[u].st = "mined" /\ tx[t].job = tx[u].job => t = u

-------------------------------------------------------------------------------
(* Liveness.                                                               *)

\* Once the faults end, every position closed with settlement jobs that are not
\* booked is booked, or one of its jobs ends as terminal, which the operator is
\* shown: no job is retried, reconciled or forgotten for ever.
ClosedIsSettled ==
    \A p \in Position :
        pos[p] = "closed" /\ (\E j \in Group(p) : ~ row[j].fin) ~>
            \/ pos[p] = "final"
            \/ \E j \in Group(p) : row[j].status = "terminal"

-------------------------------------------------------------------------------
(* What the settlement promises, without swaps, probes and retries.        *)

ledgerJob ==
    [j \in Job |-> CASE row[j].status = "absent"    -> "none"
                     [] row[j].status = "confirmed" -> "booked"
                     [] row[j].status = "terminal"  -> "givenUp"
                     [] OTHER                       -> "owed"]

ledgerPaid == {j \in Job : row[j].fin}

Ledger == INSTANCE SettlementLedger WITH
              job <- ledgerJob, paid <- ledgerPaid, book <- pos, partly <- blind

\* Settlement implements the ledger it promises (SettlementLedger.tla).
ImplementsLedger == Ledger!Spec
===============================================================================
