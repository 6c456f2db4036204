------------------------------ MODULE Harvest ------------------------------
(***************************************************************************)
(* Fees of the tracked positions: the harvest pass before a scan cycle     *)
(* (claimAllFees in engine/program.ts) with its conversion and its         *)
(* compounding, and the live rebalance, which claims first and then burns  *)
(* the position and mints another.  Both give the position a new token id, *)
(* so the tracked record and its row change key in the middle of the pass  *)
(* that iterates over them.  Every transaction and every write may fail,   *)
(* and the process may stop between any two of them.                       *)
(***************************************************************************)
EXTENDS Naturals, Functions

CONSTANTS
    Id,        \* token ids, minted in increasing order
    Mode,      \* FEE_DESTINATION: "compound" or "accumulate"
    Auto,      \* AUTO_COMPOUND_FEES
    Floor,     \* owed fees worth a transaction (harvest gate, compound gate)
    Earned,    \* bound: fees a position earns
    Restarts   \* bound: restarts

VARIABLES
    pc,
    nft,      \* on chain: id -> [who, v4, owed, worth]; v4 fees cannot be read
    tracked,  \* trackedPositions: id -> [who, due, fees, basis, peak]
    row,      \* the positions table
    seen,     \* keys this pass has iterated over
    job,      \* the position in hand: [id, why, usd, to, nft]
    minted,   \* last id minted
    restarts,
    paid,     \* by position: fees the chain paid out
    taken     \* by position: collects that paid out in this pass

chain == <<nft, minted, paid>>
vars == <<pc, nft, tracked, row, seen, job, minted, restarts, paid, taken>>

\* A position keeps its identity through re-keying: the id it was first minted under.
Who == Id
First == CHOOSE i \in Id : \A j \in Id : i <= j
Deposit == Floor
Amount == 0 .. Deposit + Earned
Gone == [who |-> First, v4 |-> FALSE, owed |-> 0, worth |-> 0]
NoJob == [id |-> 0, why |-> "none", usd |-> 0, to |-> 0, nft |-> Gone]
Token == [who : Who, v4 : BOOLEAN, owed : 0 .. Floor, worth : Nat]
Fresh(w) == [who |-> w, due |-> TRUE, fees |-> 0, basis |-> Deposit, peak |-> Deposit]

TypeOK ==
    /\ pc \in {"idle", "pass", "collect", "book", "convert", "burn", "mint", "rekey", "save"}
    /\ DOMAIN nft \subseteq Id
    /\ \A i \in DOMAIN nft : nft[i] \in Token
    /\ \A b \in {tracked, row} : DOMAIN b \subseteq Id /\ \A i \in DOMAIN b :
         b[i] \in [who : Who, due : BOOLEAN, fees : Amount, basis : Amount, peak : Amount]
    /\ seen \subseteq Id
    /\ job \in [id : Id \cup {0}, why : {"none", "harvest", "rebalance"}, usd : 0 .. Floor,
                to : Id \cup {0}, nft : Token]
    /\ minted \in Id /\ restarts \in 0 .. Restarts
    /\ paid \in [Who -> Amount] /\ taken \in [Who -> Nat]

Init ==
    /\ pc = "idle"
    /\ \E v4 \in BOOLEAN :
         nft = [i \in {First} |-> [who |-> i, v4 |-> v4, owed |-> 0, worth |-> Deposit]]
    /\ tracked = [i \in {First} |-> Fresh(i)]
    /\ row = tracked
    /\ seen = {} /\ job = NoJob
    /\ minted = First /\ restarts = 0
    /\ paid = [w \in Who |-> 0] /\ taken = [w \in Who |-> 0]

Put(f, i, v) == [j \in DOMAIN f \cup {i} |-> IF j = i THEN v ELSE f[j]]
Drop(f, i) == Restrict(f, DOMAIN f \ {i})

\* A write that fails throws out of Effect.sync: the process ends before this
\* step (a Restart), persist's handler never sees it.
Persist(b) == row' = b

\* The rest of the pass, or the rest of the cycle after a rebalance.
Resume == /\ pc' = IF job.why = "harvest" THEN "pass" ELSE "idle"
          /\ job' = NoJob

-----------------------------------------------------------------------------
(* Time and trading                                                        *)

Accrue(i) ==
    /\ i \in DOMAIN nft /\ nft[i].owed < Floor /\ paid[nft[i].who] + nft[i].owed < Earned
    /\ nft' = [nft EXCEPT ![i].owed = @ + 1]
    /\ UNCHANGED <<pc, tracked, row, seen, job, minted, restarts, paid, taken>>

\* feeClaimIntervalMs passes between two passes, not during one.
Elapse(i) ==
    /\ pc = "idle" /\ i \in DOMAIN tracked
    /\ tracked' = [tracked EXCEPT ![i].due = TRUE]
    /\ UNCHANGED <<pc, chain, row, seen, job, restarts, taken>>

-----------------------------------------------------------------------------
(* The pass                                                                *)

StartPass ==
    /\ pc = "idle"
    /\ pc' = "pass" /\ seen' = {} /\ taken' = [w \in Who |-> 0]
    /\ UNCHANGED <<chain, tracked, row, job, restarts>>

\* getPendingFees reads what a v3 position is owed; a v4 position, a failed read
\* and a leg without a price leave it unknown.
Known(i) == i \in DOMAIN nft /\ ~nft[i].v4

\* Pending fees below the floor, or eaten by gas, stay; what is unknown is claimed.
Skipped(i) == Known(i) /\ nft[i].owed < Floor

\* One record of the map; there are no farm rewards on this chain.
Visit(i) ==
    /\ pc = "pass" /\ i \in DOMAIN tracked \ seen
    /\ seen' = seen \cup {i}
    /\ \/ /\ tracked[i].due
          /\ pc' = "collect" /\ job' = [NoJob EXCEPT !.id = i, !.why = "harvest"]
       \/ /\ ~tracked[i].due \/ Skipped(i)
          /\ UNCHANGED <<pc, job>>
    /\ UNCHANGED <<chain, tracked, row, restarts, taken>>

EndPass ==
    /\ pc = "pass" /\ DOMAIN tracked \subseteq seen
    /\ pc' = "idle"
    /\ UNCHANGED <<chain, tracked, row, seen, job, restarts, taken>>

-----------------------------------------------------------------------------
(* Claiming                                                                *)

\* A live REBALANCE of the scan cycle claims before it moves the position.
StartRebalance(i) ==
    /\ pc = "idle" /\ i \in DOMAIN tracked
    /\ pc' = "collect" /\ job' = [NoJob EXCEPT !.id = i, !.why = "rebalance"]
    /\ UNCHANGED <<chain, tracked, row, seen, restarts, taken>>

\* Nothing claimed: the pass goes on, a rebalance goes on with the burn.
Unclaimed ==
    \/ job.why = "harvest" /\ Resume
    \/ job.why = "rebalance" /\ pc' = "burn" /\ UNCHANGED job

\* The collect is sent, or skipped, or fails. A collect of nothing (a v4 pool) is
\* sent all the same. A leg without a price makes the fees worth nothing.
Collect ==
    /\ pc = "collect"
    /\ \/ Unclaimed /\ UNCHANGED <<nft, paid, taken>>
       \/ /\ job.id \in DOMAIN nft /\ nft[job.id].owed > 0
          /\ LET n == nft[job.id] IN
               /\ nft' = [nft EXCEPT ![job.id].owed = 0]
               /\ paid' = [paid EXCEPT ![n.who] = @ + n.owed]
               /\ taken' = IF job.why = "harvest" THEN [taken EXCEPT ![n.who] = @ + 1] ELSE taken
               /\ \E usd \in {0, n.owed} : job' = [job EXCEPT !.usd = usd]
          /\ pc' = "book"
    /\ UNCHANGED <<tracked, row, seen, minted, restarts>>

\* Mutant: the interval does not restart.
ClaimedStillDue(r) == [r EXCEPT !.fees = @ + job.usd]

\* A harvest restarts the interval and saves; a rebalance leaves both to its end.
Claimed(r) ==
    [r EXCEPT !.fees = @ + job.usd, !.due = IF job.why = "harvest" THEN FALSE ELSE @]

Book ==
    /\ pc = "book"
    /\ tracked' = [tracked EXCEPT ![job.id] = Claimed(@)]
    /\ IF job.why = "harvest" THEN pc' = "convert" /\ Persist(Put(row, job.id, tracked'[job.id]))
       ELSE pc' = "burn" /\ UNCHANGED row
    /\ UNCHANGED <<chain, seen, job, restarts, taken>>

\* Fees to accumulate are swapped leg by leg; a leg that fails stays as it is.
Accumulate == Mode # "compound" /\ Resume

\* Fees to compound must clear the minimum, its buffer and the gas.
Pays(usd) == usd >= Floor

\* And one leg must be a whole token: topUp truncates the token units.
Compound ==
    /\ Mode = "compound"
    /\ \/ Resume
       \/ Auto /\ Pays(job.usd) /\ pc' = "burn" /\ UNCHANGED job

Convert ==
    /\ pc = "convert"
    /\ Accumulate \/ Compound
    /\ UNCHANGED <<chain, tracked, row, seen, restarts, taken>>

-----------------------------------------------------------------------------
(* Burning and minting                                                     *)

\* The dry run or the burn fails, or the position is gone.
Burn ==
    /\ pc = "burn"
    /\ \/ Resume /\ UNCHANGED nft
       \/ /\ job.id \in DOMAIN nft /\ nft' = Drop(nft, job.id)
          /\ pc' = "mint" /\ job' = [job EXCEPT !.nft = nft[job.id]]
    /\ UNCHANGED <<minted, paid, tracked, row, seen, restarts, taken>>

\* The worth of the topUp: a number of token units, truncated, passed as atomic ones.
TopUp(usd) == 0

\* The mint is worth what was reclaimed, fees owed since included, and the topUp.
\* When it fails the reclaimed
\* tokens stay in the wallet and the record of the burned id stays tracked.
Mint ==
    /\ pc = "mint"
    /\ \/ Resume /\ UNCHANGED <<nft, minted>>
       \/ \E i \in Id :
            /\ i = minted + 1 /\ minted' = i
            /\ nft' = Put(nft, i, [job.nft EXCEPT !.owed = 0, !.worth = @ + job.nft.owed + TopUp(job.usd)])
            /\ pc' = "rekey" /\ job' = [job EXCEPT !.to = i]
    /\ UNCHANGED <<paid, tracked, row, seen, restarts, taken>>

\* Mutant: a re-keyed record books its claim again.
MovedBooked(r) == [r EXCEPT !.fees = @ + job.usd]

\* applyCompoundToCostBasis
Moved(r) ==
    IF job.why = "rebalance" THEN [r EXCEPT !.due = FALSE]
    ELSE LET worth == Deposit + job.usd IN
         [r EXCEPT !.basis = @ + job.usd, !.peak = IF worth > @ THEN worth ELSE @]

Rekey ==
    /\ pc = "rekey" /\ pc' = "save"
    /\ tracked' = Put(Drop(tracked, job.id), job.to, Moved(tracked[job.id]))
    /\ Persist(Drop(row, job.id))
    /\ UNCHANGED <<chain, seen, job, restarts, taken>>

Save ==
    /\ pc = "save" /\ Resume
    /\ Persist(Put(row, job.to, tracked[job.to]))
    /\ UNCHANGED <<chain, tracked, seen, restarts, taken>>

-----------------------------------------------------------------------------
(* Stop and start                                                          *)

\* The boot loads the open rows; unless the listing fails it drops those whose
\* token is gone and adopts the tokens that have none (LiveExecution).
Restart ==
    /\ restarts < Restarts /\ restarts' = restarts + 1
    /\ pc' = "idle" /\ job' = NoJob /\ seen' = {} /\ taken' = [w \in Who |-> 0]
    /\ \/ tracked' = row
       \/ tracked' = [i \in DOMAIN nft |-> IF i \in DOMAIN row THEN row[i]
                                           ELSE [Fresh(nft[i].who) EXCEPT !.basis = 0]]
    /\ row' = tracked'
    /\ UNCHANGED chain

Next ==
    \/ \E i \in Id : Accrue(i) \/ Elapse(i) \/ Visit(i) \/ StartRebalance(i)
    \/ StartPass \/ EndPass \/ Collect \/ Book \/ Convert
    \/ Burn \/ Mint \/ Rekey \/ Save \/ Restart

Spec == Init /\ [][Next]_vars

-----------------------------------------------------------------------------
(* Properties                                                              *)

\* A position is harvested at most once in a pass, though compounding gives it a
\* new key that the iteration over the map has yet to reach.
HarvestedOnce == \A w \in Who : taken[w] <= 1

\* The fees on the books of a position that exists were paid out by the chain, once
\* each: neither re-keying nor a restart counts a claim twice.
FeesBacked ==
    \A i \in DOMAIN tracked \cap DOMAIN nft : tracked[i].fees <= paid[tracked[i].who]

\* "fixing the W2 reviewer finding where depositedUsd was inflated without adjusting
\* the value columns (which distorted PnL and the trailing stop)" (pnl.ts): what
\* compounding adds to the cost basis is in the position.
CompoundDeposited ==
    \A i \in DOMAIN tracked \cap DOMAIN nft :
        pc # "save" /\ tracked[i].basis > 0 => tracked[i].basis <= nft[i].worth

=============================================================================
