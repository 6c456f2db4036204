---------------------------- MODULE LiveExecution ----------------------------
(***************************************************************************)
(* Live entries, exits and rebalances of LP positions (executeLive and     *)
(* reconcilePositions in engine/program.ts), and what the engine knows of  *)
(* the wallet's positions (the enumeration in engine/adapter-service.ts).  *)
(*                                                                         *)
(* A position is an NFT in the wallet.  The engine tracks it in memory and *)
(* in the positions table, and writes an operation row around every entry  *)
(* and exit.  A transaction whose receipt it does not see may have landed, *)
(* may still land, or never will; the process may die between the chain    *)
(* and the database; the owner moves positions too.  A listing of the      *)
(* wallet, cached twice, is what brings the two back together.             *)
(***************************************************************************)
EXTENDS Naturals, FiniteSets

CONSTANTS MaxToken,     \* bound: positions ever minted
          MaxOp,        \* bound: execution_operations rows
          MaxFaults,    \* bound: failures, crashes, the owner's transactions
          V4            \* those of them that are Uniswap v4 positions, not v3

ASSUME LiveExecutionAssumption ==
    /\ MaxToken \in Nat
    /\ MaxOp \in Nat
    /\ MaxFaults \in Nat
    /\ V4 \subseteq 1 .. MaxToken

Token   == 1 .. MaxToken
NoToken == 0
Op      == 1 .. MaxOp
NoOp    == 0

VARIABLES
    \* the chain
    nft,        \* nft[t]: the position NFT
    lateMints,  \* mints nobody waits for any more that may still land
    lateBurns,  \* and burns
    \* the database
    row,        \* row[t]: the positions row, and whether it has a cost basis
    op,         \* op[i]: the execution_operations row
    \* the engine process
    mem,        \* trackedPositions
    pc, act, cur, old, new,
    todo,       \* positions the reconcile still has to adopt
    list,       \* enumerationCache: the last listing of the wallet
    ids,        \* v4OwnedIdsCache: the ids it was made from
    \* observation: operations a boot could not recover
    missed,
    faults

chain == <<nft, lateMints, lateBurns>>
regs  == <<act, cur, old, new>>
vars  == <<chain, row, op, mem, pc, regs, todo, list, ids, missed, faults>>

\* shell: its liquidity is gone but the NFT is not.
NftState == {"none", "live", "shell", "gone"}

\* own: opened by an entry, with the legs it deposited as its cost basis.
\* adopted: found in the wallet, depositedUsd 0.
Open == {"own", "adopted"}

NoList == [known |-> FALSE, all |-> {}, pool |-> {}, live |-> {}]
NoIds  == [known |-> FALSE, ids |-> {}, balance |-> 0]

Control == {"boot", "idle", "adopt", "decide", "gate", "mint", "minted", "save", "confirm",
            "exit", "burn", "burned", "probe", "close", "rekey", "resave"}

TypeOK ==
    /\ nft \in [Token -> NftState]
    /\ lateMints \subseteq Token /\ lateBurns \subseteq Token
    /\ row \in [Token -> Open \cup {"none", "closed"}]
    /\ op \in [Op -> [st : {"none", "planned", "confirmed", "failed"}, entry : Token \cup {NoToken}]]
    /\ mem \in [Token -> Open \cup {"none"}]
    /\ pc \in Control
    /\ act \in {"none", "enter", "exit", "rebalance"}
    /\ cur \in Op \cup {NoOp}
    /\ {old, new} \subseteq Token \cup {NoToken}
    /\ todo \subseteq Token
    /\ list \in [known : BOOLEAN, all : SUBSET Token, pool : SUBSET Token, live : SUBSET Token]
    /\ ids \in [known : BOOLEAN, ids : SUBSET Token, balance : 0 .. MaxToken]
    /\ missed \subseteq Op
    /\ faults \in 0 .. MaxFaults

Init ==
    /\ nft = [t \in Token |-> "none"]
    /\ lateMints = {} /\ lateBurns = {}
    /\ row = [t \in Token |-> "none"]
    /\ op = [i \in Op |-> [st |-> "none", entry |-> NoToken]]
    /\ mem = [t \in Token |-> "none"]
    /\ pc = "boot"
    /\ act = "none" /\ cur = NoOp /\ old = NoToken /\ new = NoToken
    /\ todo = {}
    /\ list = NoList /\ ids = NoIds
    /\ missed = {}
    /\ faults = 0

Fault   == faults < MaxFaults /\ faults' = faults + 1
NoFault == UNCHANGED faults

Tracked  == {t \in Token : mem[t] # "none"}
Owned    == {t \in Token : nft[t] \in {"live", "shell"}}
Received == {t \in Token : nft[t] # "none"}

SameVersion(t, u) == t \in V4 <=> u \in V4

\* The position the next mint makes: one that no mint under way is to make.
NextToken(t) ==
    LET Fresh == {u \in Token : nft[u] = "none"} \ (lateMints \cup {new})
    IN  t \in Fresh /\ \A u \in Fresh : SameVersion(t, u) => t <= u

-------------------------------------------------------------------------------
(* The listing of the wallet.                                              *)

\* v3 positions are read from the chain, v4 ones by v4OwnedTokenIds: the ids of
\* the last log scan while the balance is what it was then; a log query that
\* fails counts as one without events.
IdReads ==
    LET own == Owned \cap V4
        n   == Cardinality(own)
        Read(I, cache, fails) == [ids |-> I \cup (Owned \ V4), cache |-> cache, fails |-> fails]
        Scan(I, fails) == Read(I, [known |-> TRUE, ids |-> I, balance |-> n], fails)
    IN  IF n = 0 THEN {Read({}, ids, FALSE)}
        ELSE IF ids.known /\ ids.balance = n THEN {Read(ids.ids, ids, FALSE)}
        ELSE {Scan(own, FALSE), Scan({}, TRUE), Scan(Received \cap V4, TRUE)}

\* A burned id still lists, without liquidity and under no pool of ours.
Listed(I) == [known |-> TRUE, all |-> I, pool |-> I \cap Owned, live |-> {t \in I : nft[t] = "live"}]

\* positionsEnumeration: the cached listing, or a new one.
Reads ==
    IF list.known THEN {[list |-> list, cache |-> ids, fails |-> FALSE]}
    ELSE {[list |-> Listed(r.ids), cache |-> r.cache, fails |-> r.fails] : r \in IdReads}

Enumerate(r) == list' = r.list /\ ids' = r.cache /\ IF r.fails THEN Fault ELSE NoFault

\* A failed read of any position fails the whole enumeration.
EnumerateFails == ~ list.known /\ Fault /\ UNCHANGED <<list, ids>>

\* Mutant: a mint or burn of ours leaves the cached listing in place.
SentKeepingList == UNCHANGED <<list, ids>>

\* sendTx has a receipt: dropEnumerationCache.
Sent == list' = NoList /\ UNCHANGED ids

-------------------------------------------------------------------------------
(* The start of the process and of a cycle.                                *)

\* recoverStaleExecutionOperations, one operation.
Recovered(o) == IF o.st = "planned" THEN [o EXCEPT !.st = "failed"] ELSE o

\* The open rows are loaded, and the planned operations of a dead process are
\* closed unless they cannot be listed.
Boot ==
    /\ pc = "boot"
    /\ pc' = "idle"
    /\ mem' = [t \in Token |-> IF row[t] \in Open THEN row[t] ELSE "none"]
    /\ \/ /\ op' = [i \in Op |-> Recovered(op[i])]
          /\ missed' = {}
          /\ NoFault
       \/ /\ UNCHANGED op
          /\ missed' = {i \in Op : op[i].st = "planned"}
          /\ Fault
    /\ UNCHANGED <<chain, row, regs, todo, list, ids>>

\* Mutant: the row is deleted, the memory goes on tracking the position.
ForgetRowOnly(T) ==
    /\ UNCHANGED mem
    /\ row' = [t \in Token |-> IF t \in T THEN "none" ELSE row[t]]

Forget(T) ==
    /\ mem' = [t \in Token |-> IF t \in T THEN "none" ELSE mem[t]]
    /\ row' = [t \in Token |-> IF t \in T THEN "none" ELSE row[t]]

\* reconcilePositions drops what has no liquidity on chain, row and all, and
\* then adopts what it does not track.  (A crash among the deletes leaves some
\* of them to the next reconcile.)
Reconcile ==
    /\ pc = "idle"
    /\ \/ \E r \in Reads :
             /\ Enumerate(r)
             /\ Forget(Tracked \ r.list.live)
             /\ todo' = r.list.live \ Tracked
             /\ pc' = "adopt"
       \/ /\ EnumerateFails
          /\ pc' = "decide"
          /\ UNCHANGED <<row, mem, todo>>
    /\ UNCHANGED <<chain, op, regs, missed>>

\* The upsert clears closed_at: a closed row is open again.
Adopt(t) ==
    /\ pc = "adopt" /\ t \in todo
    /\ todo' = todo \ {t}
    /\ \/ /\ mem' = [mem EXCEPT ![t] = "adopted"]
          /\ row' = [row EXCEPT ![t] = "adopted"]
          /\ NoFault
       \/ /\ Fault            \* getPoolState fails
          /\ UNCHANGED <<mem, row>>
    /\ UNCHANGED <<chain, op, pc, regs, list, ids, missed>>

Reconciled ==
    /\ pc = "adopt" /\ todo = {}
    /\ pc' = "decide"
    /\ NoFault
    /\ UNCHANGED <<chain, row, op, mem, regs, todo, list, ids, missed>>

\* reconcileExternalClosesStage, in the evaluation of the position's pool.
\* Without a listing it leaves the position alone.
CheckPool(t) ==
    /\ pc = "decide" /\ t \in Tracked
    /\ \E r \in Reads : Enumerate(r) /\ Forget({t} \ r.list.pool)
    /\ UNCHANGED <<chain, op, pc, regs, todo, missed>>

EndCycle ==
    /\ pc = "decide"
    /\ pc' = "idle"
    /\ NoFault
    /\ UNCHANGED <<chain, row, op, mem, regs, todo, list, ids, missed>>

-------------------------------------------------------------------------------
(* executeLive: the plan and its gates.                                    *)

Plan(i, a) ==
    /\ pc = "decide"
    /\ op[i].st = "none" /\ \A k \in Op : k < i => op[k].st # "none"
    /\ op' = [op EXCEPT ![i].st = "planned"]
    /\ cur' = i
    /\ act' = a
    /\ NoFault
    /\ UNCHANGED <<chain, row, mem, todo, list, ids, missed>>

\* planLiveEntryOperation
PlanEntry(i) == Plan(i, "enter") /\ pc' = "gate" /\ UNCHANGED <<old, new>>

\* planLiveExitOperation
PlanExit(i, t) ==
    Plan(i, "exit") /\ t \in Tracked /\ old' = t /\ pc' = "exit" /\ UNCHANGED new

\* claimFeesForRebalance moves fees only; a rebalance has no operation row.
StartRebalance(t) ==
    /\ pc = "decide" /\ t \in Tracked
    /\ act' = "rebalance"
    /\ old' = t
    /\ pc' = "exit"
    /\ NoFault
    /\ UNCHANGED <<chain, row, op, mem, cur, new, todo, list, ids, missed>>

\* The execution is over: its operation, if it has one, ends as st.
Done(st) ==
    /\ op' = IF cur = NoOp THEN op ELSE [op EXCEPT ![cur].st = st]
    /\ pc' = "decide"
    /\ act' = "none" /\ cur' = NoOp /\ old' = NoToken /\ new' = NoToken

\* Mutant: the gate returns without closing the operation.
EntryRefusedOpen ==
    /\ pc = "gate"
    /\ pc' = "decide"
    /\ act' = "none" /\ cur' = NoOp
    /\ NoFault
    /\ UNCHANGED <<chain, row, op, mem, old, new, todo, list, ids, missed>>

\* readNativeBalanceGate, resolveLiveEnterRange, or enterPosition before it
\* broadcasts the mint; for a rebalance, what follows the burn.
EntryRefused ==
    /\ pc = "gate"
    /\ Done("failed")
    /\ NoFault
    /\ UNCHANGED <<chain, row, mem, todo, list, ids, missed>>

\* The gas gate before an exit.
ExitRefused ==
    /\ pc = "exit" /\ act = "exit"
    /\ Done("failed")
    /\ NoFault
    /\ UNCHANGED <<chain, row, mem, todo, list, ids, missed>>

-------------------------------------------------------------------------------
(* The mint.                                                               *)

Goto(from, to) ==
    /\ pc = from
    /\ pc' = to
    /\ NoFault
    /\ UNCHANGED <<row, op, mem, act, cur, old, todo, missed>>

\* In the pool of the plan; the engine learns the position from the receipt.
BroadcastMint(t) ==
    /\ Goto("gate", "mint")
    /\ NextToken(t)
    /\ act = "rebalance" => SameVersion(old, t)
    /\ new' = t
    /\ UNCHANGED <<chain, list, ids>>

MintLands ==
    /\ Goto("mint", "minted")
    /\ nft' = [nft EXCEPT ![new] = "live"]
    /\ UNCHANGED <<lateMints, lateBurns, new, list, ids>>

MintRead ==
    Goto("minted", IF act = "enter" THEN "save" ELSE "rekey") /\ Sent /\ UNCHANGED <<chain, new>>

\* It reverted, its receipt was not seen, it carries no token id, or the wait
\* was given up: an error, and nothing asks the chain what became of it.
MintFails ==
    /\ Fault
    /\ Done("failed")
    /\ \/ pc = "mint" /\ lateMints' \in {lateMints, lateMints \cup {new}}
       \/ pc = "minted" /\ UNCHANGED lateMints
    /\ UNCHANGED <<nft, lateBurns, row, mem, todo, list, ids, missed>>

\* Mutant: the operation is confirmed before the position is saved.
SaveEntryLast ==
    /\ Goto("save", "confirm")
    /\ UNCHANGED <<chain, new, list, ids>>

\* persistLiveEnterSuccess, up to the operation.
SaveEntry ==
    /\ pc = "save"
    /\ pc' = "confirm"
    /\ mem' = [mem EXCEPT ![new] = "own"]
    /\ row' = [row EXCEPT ![new] = "own"]
    /\ NoFault
    /\ UNCHANGED <<chain, op, regs, todo, list, ids, missed>>

ConfirmEntry ==
    /\ pc = "confirm"
    /\ op' = IF cur = NoOp THEN op ELSE [op EXCEPT ![cur] = [st |-> "confirmed", entry |-> new]]
    /\ pc' = "decide"
    /\ act' = "none" /\ cur' = NoOp /\ old' = NoToken /\ new' = NoToken
    /\ NoFault
    /\ UNCHANGED <<chain, row, mem, todo, list, ids, missed>>

-------------------------------------------------------------------------------
(* The burn, of an exit or of a rebalance.                                 *)

BroadcastBurn == Goto("exit", "burn") /\ UNCHANGED <<chain, new, list, ids>>

BurnLands ==
    /\ Goto("burn", "burned")
    /\ nft[old] \in {"live", "shell"}
    /\ nft' = [nft EXCEPT ![old] = "gone"]
    /\ UNCHANGED <<lateMints, lateBurns, new, list, ids>>

ExitBooked ==
    /\ op' = [op EXCEPT ![cur].st = "confirmed"]
    /\ pc' = "close"
    /\ UNCHANGED regs

\* The exit is executed; a rebalance goes on to the mint.
BurnRead ==
    /\ pc = "burned"
    /\ IF act = "exit" THEN ExitBooked ELSE pc' = "gate" /\ UNCHANGED <<op, regs>>
    /\ Sent
    /\ NoFault
    /\ UNCHANGED <<chain, row, mem, todo, missed>>

\* The dry run or the broadcast fails, the transaction reverts, its receipt is
\* not seen, the wait is given up, or the proceeds cannot be priced.
BurnFails ==
    /\ pc \in {"exit", "burn", "burned"}
    /\ IF pc # "burned" /\ old \notin Owned THEN NoFault ELSE Fault
    /\ IF act = "exit" THEN pc' = "probe" /\ UNCHANGED <<op, regs>> ELSE Done("failed")
    /\ \/ UNCHANGED lateBurns
       \/ pc = "burn" /\ lateBurns' = lateBurns \cup {old}
    /\ UNCHANGED <<nft, lateMints, row, mem, todo, list, ids, missed>>

\* probeMinedExit: the exit is booked if the position is not listed; a listing
\* that fails is taken for an empty one.
Probe ==
    /\ pc = "probe"
    /\ \/ \E r \in Reads :
             /\ Enumerate(r)
             /\ IF old \in r.list.all THEN Done("failed") ELSE ExitBooked
       \/ EnumerateFails /\ ExitBooked
    /\ UNCHANGED <<chain, row, mem, todo, missed>>

\* Mutant: the operation gets the status of the position.
CloseExitedAsRow ==
    /\ pc = "close"
    /\ row' = [row EXCEPT ![old] = "closed"]
    /\ mem' = [mem EXCEPT ![old] = "none"]
    /\ Done("closed")
    /\ NoFault
    /\ UNCHANGED <<chain, todo, list, ids, missed>>

\* settleAttemptedExit; its settlement jobs are in Settlement.tla.
CloseExited ==
    /\ pc = "close"
    /\ row' = [row EXCEPT ![old] = "closed"]
    /\ mem' = [mem EXCEPT ![old] = "none"]
    /\ Done("confirmed")
    /\ NoFault
    /\ UNCHANGED <<chain, todo, list, ids, missed>>

\* executeAtomicRebalance moves the identity: the old row goes ...
RekeyDelete ==
    /\ pc = "rekey"
    /\ row' = [row EXCEPT ![old] = "none"]
    /\ pc' = "resave"
    /\ NoFault
    /\ UNCHANGED <<chain, op, mem, regs, todo, list, ids, missed>>

\* ... and the new one is saved with its cost basis.
RekeySave ==
    /\ pc = "resave"
    /\ mem' = [mem EXCEPT ![old] = "none", ![new] = mem[old]]
    /\ row' = [row EXCEPT ![new] = mem[old]]
    /\ Done("confirmed")
    /\ NoFault
    /\ UNCHANGED <<chain, todo, list, ids, missed>>

-------------------------------------------------------------------------------
(* The environment.                                                        *)

\* The process dies; what it had broadcast may still land.
Crash ==
    /\ pc # "boot"
    /\ Fault
    /\ pc' = "boot"
    /\ mem' = [t \in Token |-> "none"]
    /\ act' = "none" /\ cur' = NoOp /\ old' = NoToken /\ new' = NoToken
    /\ todo' = {}
    /\ list' = NoList /\ ids' = NoIds
    /\ lateMints' = IF pc = "mint" THEN lateMints \cup {new} ELSE lateMints
    /\ lateBurns' = IF pc = "burn" THEN lateBurns \cup {old} ELSE lateBurns
    /\ UNCHANGED <<nft, row, op, missed>>

Chain(next, mints, burns) ==
    /\ nft' = next /\ lateMints' = mints /\ lateBurns' = burns
    /\ UNCHANGED <<row, op, mem, pc, regs, todo, list, ids, missed>>

LateMint(t) ==
    /\ t \in lateMints
    /\ Chain([nft EXCEPT ![t] = "live"], lateMints \ {t}, lateBurns)
    /\ NoFault

LateBurn(t) ==
    /\ t \in lateBurns /\ t \in Owned
    /\ Chain([nft EXCEPT ![t] = "gone"], lateMints, lateBurns \ {t})
    /\ NoFault

\* The owner mints, empties, or burns a position (a v3 one given away is read as
\* one burned; a v4 one given away is not modelled).
Owner(t) ==
    /\ \/ NextToken(t) /\ Chain([nft EXCEPT ![t] = "live"], lateMints, lateBurns)
       \/ nft[t] = "live" /\ Chain([nft EXCEPT ![t] = "shell"], lateMints, lateBurns)
       \/ t \in Owned /\ Chain([nft EXCEPT ![t] = "gone"], lateMints, lateBurns)
    /\ Fault

\* ENUMERATION_CACHE_TTL_MS and V4_OWNED_IDS_TTL_MS.
ExpireList ==
    /\ list.known
    /\ list' = NoList
    /\ NoFault
    /\ UNCHANGED <<chain, row, op, mem, pc, regs, todo, ids, missed>>

ExpireIds ==
    /\ ids.known
    /\ ids' = NoIds
    /\ NoFault
    /\ UNCHANGED <<chain, row, op, mem, pc, regs, todo, list, missed>>

-------------------------------------------------------------------------------
Engine ==
    \/ Boot \/ Reconcile \/ Reconciled \/ EndCycle
    \/ \E t \in Token : Adopt(t) \/ CheckPool(t) \/ StartRebalance(t) \/ BroadcastMint(t)
    \/ \E i \in Op : PlanEntry(i) \/ \E t \in Token : PlanExit(i, t)
    \/ EntryRefused \/ ExitRefused
    \/ MintLands \/ MintRead \/ MintFails \/ SaveEntry \/ ConfirmEntry
    \/ BroadcastBurn \/ BurnLands \/ BurnRead \/ BurnFails \/ Probe \/ CloseExited
    \/ RekeyDelete \/ RekeySave

Environment ==
    \/ Crash
    \/ \E t \in Token : LateMint(t) \/ LateBurn(t) \/ Owner(t)
    \/ ExpireList \/ ExpireIds

Next == Engine \/ Environment

Spec == Init /\ [][Next]_vars

\* The scheduler runs for ever, a cycle decides finitely often and ends, a
\* broadcast transaction is mined, and the caches have a time to live.
Fairness ==
    /\ WF_vars(Engine /\ NoFault)
    /\ SF_vars(EndCycle)
    /\ WF_vars(ExpireList) /\ WF_vars(ExpireIds)

FairSpec == Spec /\ Fairness

-------------------------------------------------------------------------------
\* An operation is planned only while the process that planned it is executing
\* it (or dead, or its listing at boot failed): every return of executeLive, and
\* every restart, closes it, and none is shown as pending for ever.
NoDanglingPlan ==
    \A i \in Op : op[i].st = "planned" => i = cur \/ pc = "boot" \/ i \in missed

\* The v3 position of a confirmed entry has a row for as long as it has
\* liquidity: no crash between the mint, the row and the operation, no reconcile
\* and no rebalance leaves the ledger with an entry and no position.
ConfirmedEntryHeld ==
    \A i \in Op : LET t == op[i].entry
                IN  t \notin V4 \cup {NoToken} /\ nft[t] = "live" => row[t] # "none"

Dropped(t) == nft[t] = "live" /\ row[t] \in Open /\ row'[t] = "none"

\* No transient failure, stale listing or crash makes the engine drop the row of
\* a position that still has liquidity (the policy the comments of v3PositionsOf
\* and v4PositionsOf state): it would be managed by nobody, and come back
\* without its cost basis.  The code keeps to it for v3 positions.
LiveNotDropped == [][\A t \in Token \ V4 : ~ Dropped(t)]_vars

\* The same for v4 positions (adapter-service.ts:3725-3728).
V4LiveNotDropped == [][\A t \in V4 : ~ Dropped(t)]_vars

\* What the engine tracks and what the wallet holds come together again,
\* whatever was lost, timed out or moved by the owner.
TrackingConverges ==
    \A t \in Token : (t \in Tracked) # (nft[t] = "live") ~> (t \in Tracked) = (nft[t] = "live")

\* The comment at program.ts:2215-2222: an exit without a receipt is booked "if
\* the position is gone".
BookedExitIsGone ==
    [][\A t \in Token : row[t] \in Open /\ row'[t] = "closed" => nft[t] = "gone"]_vars
===============================================================================
