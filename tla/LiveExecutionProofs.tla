------------------------- MODULE LiveExecutionProofs -------------------------
(***************************************************************************)
(* Proofs about LiveExecution for any number of positions, operations and  *)
(* failures, any mix of v3 and v4: no operation is left planned by a       *)
(* process that goes on, the v3 position of a confirmed entry keeps its    *)
(* row, and no v3 position with liquidity is ever dropped.                 *)
(***************************************************************************)
EXTENDS LiveExecution, FiniteSetTheorems, TLAPS

-------------------------------------------------------------------------------
(* Type correctness, and which registers are set at which place of an      *)
(* execution.                                                              *)

ListType == [known : BOOLEAN, all : SUBSET Token, pool : SUBSET Token, live : SUBSET Token]
IdsType  == [known : BOOLEAN, ids : SUBSET Token, balance : 0 .. MaxToken]
OpType   == [st : {"none", "planned", "confirmed", "failed"}, entry : Token \cup {NoToken}]

Chains ==
    /\ nft \in [Token -> NftState]
    /\ lateMints \subseteq Token /\ lateBurns \subseteq Token

Ledger ==
    /\ row \in [Token -> Open \cup {"none", "closed"}]
    /\ op \in [Op -> OpType]
    /\ mem \in [Token -> Open \cup {"none"}]

Place ==
    /\ pc \in Control
    /\ act \in {"none", "enter", "exit", "rebalance"}
    /\ cur \in Op \cup {NoOp}
    /\ old \in Token \cup {NoToken} /\ new \in Token \cup {NoToken}

Known ==
    /\ todo \subseteq Token /\ missed \subseteq Op
    /\ list \in ListType
    /\ ids \in IdsType

Faulty == faults \in 0 .. MaxFaults

\* Where the engine is in an execution, which one it is and what of.
Stage ==
    /\ pc \in {"boot", "idle", "adopt", "decide"} => act = "none" /\ cur = NoOp
    /\ pc \in {"gate", "mint", "minted"} => act \in {"enter", "rebalance"}
    /\ pc \in {"exit", "burn", "burned"} => act \in {"exit", "rebalance"}
    /\ pc \in {"probe", "close"} => act = "exit"
    /\ pc \in {"rekey", "resave"} => act = "rebalance"
    /\ act \in {"exit", "rebalance"} => old \in Token /\ mem[old] # "none"
    /\ pc \in {"mint", "minted", "save", "confirm", "rekey", "resave"} => new \in Token

TypeInv == Chains /\ Ledger /\ Place /\ Known /\ Faulty /\ Stage

LEMMA TypeInvImplies == TypeInv => TypeOK
  BY DEF TypeInv, Chains, Ledger, Place, Known, Faulty, TypeOK, ListType, IdsType, OpType

LEMMA ListedType ==
    ASSUME NEW I \in SUBSET Token
    PROVE  /\ Listed(I) \in ListType /\ Listed(I).known
           /\ Listed(I).live = {t \in I : nft[t] = "live"}
           /\ Listed(I).live \subseteq Listed(I).pool
  BY DEF Listed, ListType, Owned

\* A listing is of positions of ours, and every v3 position is in a fresh one.
LEMMA IdReadsType ==
    ASSUME Known, NEW r \in IdReads
    PROVE  /\ r.ids \in SUBSET Token /\ r.cache \in IdsType /\ r.fails \in BOOLEAN
           /\ Owned \ V4 \subseteq r.ids
<1> DEFINE own == Owned \cap V4
           n   == Cardinality(own)
<1>1. n \in 0 .. MaxToken
  <2>1. IsFiniteSet(1 .. MaxToken) /\ Cardinality(1 .. MaxToken) = MaxToken
    BY FS_Interval, LiveExecutionAssumption
  <2>2. own \subseteq 1 .. MaxToken
    BY DEF Owned, Token
  <2>3. IsFiniteSet(own) /\ n <= MaxToken
    BY <2>1, <2>2, FS_Subset
  <2> QED  BY <2>3, FS_CardinalityType, LiveExecutionAssumption
<1>2. Owned \subseteq Token /\ Received \subseteq Token
  BY DEF Owned, Received
<1> HIDE DEF n
<1>3. PICK I \in SUBSET Token, c \in IdsType, f \in BOOLEAN :
         r = [ids |-> I \cup (Owned \ V4), cache |-> c, fails |-> f]
  <2>1. ids.ids \in SUBSET Token
    BY DEF Known, IdsType
  <2> DEFINE Read(I, c, f) == [ids |-> I \cup (Owned \ V4), cache |-> c, fails |-> f]
             Scanned(I) == [known |-> TRUE, ids |-> I, balance |-> n]
  <2>2. \A I \in SUBSET Token : Scanned(I) \in IdsType
    BY <1>1 DEF IdsType
  <2>3. \/ r = Read({}, ids, FALSE)
        \/ r = Read(ids.ids, ids, FALSE)
        \/ r = Read(own, Scanned(own), FALSE)
        \/ r = Read({}, Scanned({}), TRUE)
        \/ r = Read(Received \cap V4, Scanned(Received \cap V4), TRUE)
    BY DEF IdReads, n
  <2> HIDE DEF Scanned
  <2>4. own \in SUBSET Token /\ Received \cap V4 \in SUBSET Token /\ {} \in SUBSET Token
    BY <1>2
  <2>5. ids \in IdsType /\ Scanned(own) \in IdsType /\ Scanned({}) \in IdsType
        /\ Scanned(Received \cap V4) \in IdsType
    <3>1. Scanned(own) \in IdsType
      BY <2>2, <2>4
    <3>2. Scanned({}) \in IdsType
      BY <2>2, <2>4
    <3>3. Scanned(Received \cap V4) \in IdsType
      BY <2>2, <2>4
    <3> QED  BY <3>1, <3>2, <3>3 DEF Known
  <2> HIDE DEF Read, own
  <2>6. \E I \in SUBSET Token, c \in IdsType, f \in BOOLEAN : r = Read(I, c, f)
    BY <2>1, <2>3, <2>4, <2>5
  <2> QED  BY <2>6 DEF Read
<1> QED  BY <1>2, <1>3

LEMMA ReadsType ==
    ASSUME Known, NEW r \in Reads
    PROVE  r.list \in ListType /\ r.cache \in IdsType /\ r.fails \in BOOLEAN
<1>1. CASE list.known
  <2>1. r = [list |-> list, cache |-> ids, fails |-> FALSE]
    BY <1>1 DEF Reads
  <2>2. r.list = list /\ r.cache = ids /\ r.fails = FALSE
    BY <2>1
  <2> QED  BY <2>2 DEF Known
<1>2. CASE ~ list.known
  <2>1. PICK q \in IdReads : r = [list |-> Listed(q.ids), cache |-> q.cache, fails |-> q.fails]
    BY <1>2 DEF Reads
  <2>2. q.ids \in SUBSET Token /\ q.cache \in IdsType /\ q.fails \in BOOLEAN
    BY IdReadsType
  <2> QED  BY <2>1, <2>2, ListedType
<1> QED  BY <1>1, <1>2

LEMMA EnumerateType ==
    ASSUME Known, Faulty, (\E r \in Reads : Enumerate(r)) \/ EnumerateFails
    PROVE  list' \in ListType /\ ids' \in IdsType /\ Faulty'
  BY ReadsType, LiveExecutionAssumption
  DEF Enumerate, EnumerateFails, Known, Faulty, Fault, NoFault

LEMMA FaultsType ==
    ASSUME Faulty, Fault \/ NoFault
    PROVE  Faulty'
  BY LiveExecutionAssumption DEF Faulty, Fault, NoFault

LEMMA NoListType == NoList \in ListType /\ NoIds \in IdsType
  BY LiveExecutionAssumption DEF NoList, NoIds, ListType, IdsType

LEMMA InitType == Init => TypeInv
<1> SUFFICES ASSUME Init PROVE TypeInv  OBVIOUS
<1>1. Chains /\ Ledger
  BY DEF Init, Chains, Ledger, NftState, Open, OpType, NoToken
<1>2. Place /\ Known /\ Stage
  BY NoListType DEF Init, Place, Known, Stage, Control, NoOp, NoToken
<1>3. Faulty
  BY LiveExecutionAssumption DEF Init, Faulty
<1> QED  BY <1>1, <1>2, <1>3 DEF TypeInv

\* What a cycle does between the executions.
LEMMA CycleType ==
    ASSUME TypeInv,
           \/ Boot \/ Reconcile \/ Reconciled \/ EndCycle
           \/ \E t \in Token : Adopt(t) \/ CheckPool(t)
    PROVE  TypeInv'
<1> USE DEF TypeInv
<1>1. Chains' /\ missed' \subseteq Op
  BY DEF Boot, Reconcile, Reconciled, EndCycle, Adopt, CheckPool, chain, Chains, Known
<1>2. Ledger'
  <2>1. CASE Boot
    <3>1. \A o \in OpType : Recovered(o) \in OpType
      BY DEF Recovered, OpType
    <3> QED  BY <2>1, <3>1 DEF Boot, Ledger
  <2>2. CASE Reconcile \/ \E t \in Token : CheckPool(t)
    BY <2>2 DEF Reconcile, CheckPool, Forget, Ledger
  <2>3. CASE \E t \in Token : Adopt(t)
    BY <2>3 DEF Adopt, Ledger, Open
  <2> QED  BY <2>1, <2>2, <2>3 DEF Reconciled, EndCycle, Ledger
<1>3. Place' /\ Stage'
  BY DEF Boot, Reconcile, Reconciled, EndCycle, Adopt, CheckPool, regs, Place, Stage, Control
<1>4. todo' \subseteq Token /\ list' \in ListType /\ ids' \in IdsType
  <2>1. CASE Reconcile
    <3>1. \A r \in Reads : r.list.live \subseteq Token
      BY ReadsType DEF ListType
    <3> QED  BY <2>1, <3>1, EnumerateType DEF Reconcile, Known
  <2>2. CASE \E t \in Token : CheckPool(t)
    BY <2>2, EnumerateType DEF CheckPool, Known
  <2> QED  BY <2>1, <2>2 DEF Boot, Reconciled, EndCycle, Adopt, Known
<1>5. Faulty'
  BY FaultsType, EnumerateType
  DEF Boot, Reconcile, Reconciled, EndCycle, Adopt, CheckPool
<1> QED  BY <1>1, <1>2, <1>3, <1>4, <1>5 DEF Known

\* The plan of an execution, and its refusal.
LEMMA PlanType ==
    ASSUME TypeInv,
           \/ \E i \in Op : PlanEntry(i) \/ \E t \in Token : PlanExit(i, t)
           \/ \E t \in Token : StartRebalance(t)
           \/ EntryRefused \/ ExitRefused
    PROVE  TypeInv'
<1> USE DEF TypeInv
<1>1. Chains' /\ Known' /\ Faulty'
  BY DEF PlanEntry, PlanExit, Plan, StartRebalance, EntryRefused, ExitRefused, NoFault,
         chain, Chains, Known, Faulty
<1>2. Ledger'
  BY DEF PlanEntry, PlanExit, Plan, StartRebalance, EntryRefused, ExitRefused, Done,
         Ledger, OpType
<1>3. Place' /\ Stage'
  BY DEF PlanEntry, PlanExit, Plan, StartRebalance, EntryRefused, ExitRefused, Done, Tracked,
         Place, Stage, Control, NoOp, NoToken
<1> QED  BY <1>1, <1>2, <1>3

\* The mint.
LEMMA MintType ==
    ASSUME TypeInv,
           \/ \E t \in Token : BroadcastMint(t)
           \/ MintLands \/ MintRead \/ MintFails \/ SaveEntry \/ ConfirmEntry
    PROVE  TypeInv'
<1> USE DEF TypeInv
<1>1. Chains'
  BY DEF BroadcastMint, MintLands, MintRead, MintFails, SaveEntry, ConfirmEntry, Goto,
         chain, Chains, Stage, NftState
<1>2. Ledger'
  BY DEF BroadcastMint, MintLands, MintRead, MintFails, SaveEntry, ConfirmEntry, Goto, Done,
         Ledger, Stage, Place, OpType, Open
<1>3. Place'
  BY DEF BroadcastMint, MintLands, MintRead, MintFails, SaveEntry, ConfirmEntry, Goto, Done,
         Place, Control, NoOp, NoToken, regs
<1>4. Stage'
  <2>1. CASE SaveEntry
    BY <2>1 DEF SaveEntry, Ledger, Stage, regs
  <2> QED
    BY <2>1 DEF BroadcastMint, MintLands, MintRead, MintFails, ConfirmEntry, Goto, Done,
           Stage, NoOp
<1>5. Known' /\ Faulty'
  BY NoListType, FaultsType
  DEF BroadcastMint, MintLands, MintRead, MintFails, SaveEntry, ConfirmEntry, Goto, Done,
      Sent, Known
<1> QED  BY <1>1, <1>2, <1>3, <1>4, <1>5

\* The burn.
LEMMA BurnType ==
    ASSUME TypeInv,
           \/ BroadcastBurn \/ BurnLands \/ BurnRead \/ BurnFails \/ Probe \/ CloseExited
           \/ RekeyDelete \/ RekeySave
    PROVE  TypeInv'
<1> USE DEF TypeInv
<1>1. Chains'
  BY DEF BroadcastBurn, BurnLands, BurnRead, BurnFails, Probe, CloseExited, RekeyDelete,
         RekeySave, Goto, chain, Chains, Stage, NftState
<1>2. Ledger'
  <2>1. CASE BurnRead \/ BurnFails \/ Probe \/ BroadcastBurn \/ BurnLands
    BY <2>1 DEF BroadcastBurn, BurnLands, BurnRead, BurnFails, Probe, ExitBooked, Goto, Done,
           Ledger, OpType
  <2>2. CASE CloseExited \/ RekeyDelete
    BY <2>2 DEF CloseExited, RekeyDelete, Done, Ledger, OpType
  <2>3. CASE RekeySave
    <3>1. mem[old] \in Open
      BY <2>3 DEF RekeySave, Ledger, Stage
    <3> QED  BY <2>3, <3>1 DEF RekeySave, Done, Ledger, OpType
  <2> QED  BY <2>1, <2>2, <2>3
<1>3. Place'
  BY DEF BroadcastBurn, BurnLands, BurnRead, BurnFails, Probe, CloseExited, RekeyDelete,
         RekeySave, ExitBooked, Goto, Done, Place, Control, NoOp, NoToken, regs
<1>4. Stage'
  BY DEF BroadcastBurn, BurnLands, BurnRead, BurnFails, Probe, CloseExited, RekeyDelete,
         RekeySave, ExitBooked, Goto, Done, Stage, NoOp, regs
<1>5. Known' /\ Faulty'
  BY NoListType, FaultsType, EnumerateType
  DEF BroadcastBurn, BurnLands, BurnRead, BurnFails, Probe, CloseExited, RekeyDelete,
      RekeySave, Goto, Sent, Known
<1> QED  BY <1>1, <1>2, <1>3, <1>4, <1>5

LEMMA EnvironmentType ==
    ASSUME TypeInv, Environment
    PROVE  TypeInv'
<1> USE DEF TypeInv
<1>1. CASE Crash
  <2>1. Chains'
    BY <1>1 DEF Crash, Chains, Stage
  <2>2. Ledger' /\ Place' /\ Stage' /\ Known'
    BY <1>1, NoListType
    DEF Crash, Ledger, Place, Stage, Known, Control, NoOp, NoToken, Open
  <2> QED  BY <1>1, <2>1, <2>2, FaultsType DEF Crash
<1>2. CASE \E t \in Token : LateMint(t) \/ LateBurn(t) \/ Owner(t)
  <2>1. Chains'
    BY <1>2 DEF LateMint, LateBurn, Owner, Chain, Chains, NftState
  <2>2. Ledger' /\ Place' /\ Stage' /\ Known'
    BY <1>2 DEF LateMint, LateBurn, Owner, Chain, Ledger, Place, Stage, Known, regs
  <2> QED  BY <1>2, <2>1, <2>2, FaultsType DEF LateMint, LateBurn, Owner
<1>3. CASE ExpireList \/ ExpireIds
  BY <1>3, NoListType, FaultsType
  DEF ExpireList, ExpireIds, Chains, Ledger, Place, Stage, Known, chain, regs
<1> QED  BY <1>1, <1>2, <1>3 DEF Environment

LEMMA StutterType ==
    ASSUME TypeInv, UNCHANGED vars
    PROVE  TypeInv'
  BY DEF vars, chain, regs, TypeInv, Chains, Ledger, Place, Stage, Known, Faulty

LEMMA NextType == TypeInv /\ [Next]_vars => TypeInv'
  BY CycleType, PlanType, MintType, BurnType, EnvironmentType, StutterType DEF Next, Engine

THEOREM TypeInvariant == Spec => []TypeInv
  BY InitType, NextType, PTL DEF Spec

\* Every variable keeps its type, whatever the number of positions,
\* operations and failures.
THEOREM TypeCorrect == Spec => []TypeOK
  BY TypeInvariant, TypeInvImplies, PTL
-------------------------------------------------------------------------------
(* No dangling plan: the one operation that is planned is the current one, *)
(* and every way out of an execution closes it.                            *)

LEMMA DonePlan ==
    ASSUME TypeInv, NoDanglingPlan, NEW st \in {"confirmed", "failed"}, Done(st),
           pc # "boot", UNCHANGED missed
    PROVE  NoDanglingPlan'
  BY DEF TypeInv, Ledger, Place, OpType, NoDanglingPlan, Done, NoOp

LEMMA PlanPlan ==
    ASSUME TypeInv, NoDanglingPlan, NEW i \in Op, NEW a, Plan(i, a)
    PROVE  NoDanglingPlan'
  BY DEF TypeInv, Ledger, OpType, Stage, NoDanglingPlan, Plan, Op, NoOp

LEMMA NextPlan == TypeInv /\ NoDanglingPlan /\ [Next]_vars => NoDanglingPlan'
<1> SUFFICES ASSUME TypeInv, NoDanglingPlan, [Next]_vars PROVE NoDanglingPlan'  OBVIOUS
<1> USE DEF NoDanglingPlan
<1>1. CASE Boot
  <2>1. CASE op' = [i \in Op |-> Recovered(op[i])]
    <3>1. \A o \in OpType : Recovered(o).st # "planned"
      BY DEF Recovered, OpType
    <3> QED  BY <2>1, <3>1 DEF TypeInv, Ledger
  <2>2. CASE missed' = {i \in Op : op[i].st = "planned"} /\ UNCHANGED op
    BY <2>2
  <2> QED  BY <1>1, <2>1, <2>2 DEF Boot
<1>2. CASE \/ Reconcile \/ Reconciled \/ EndCycle
           \/ \E t \in Token : Adopt(t) \/ CheckPool(t) \/ StartRebalance(t)
  BY <1>2 DEF Reconcile, Reconciled, EndCycle, Adopt, CheckPool, StartRebalance, regs
<1>3. CASE \E i \in Op : PlanEntry(i) \/ \E t \in Token : PlanExit(i, t)
  BY <1>3, PlanPlan DEF PlanEntry, PlanExit
<1>4. CASE EntryRefused \/ ExitRefused \/ MintFails \/ CloseExited \/ RekeySave
  BY <1>4, DonePlan DEF EntryRefused, ExitRefused, MintFails, CloseExited, RekeySave
<1>5. CASE (\E t \in Token : BroadcastMint(t)) \/ MintLands \/ MintRead \/ BroadcastBurn \/ BurnLands
  BY <1>5 DEF BroadcastMint, MintLands, MintRead, BroadcastBurn, BurnLands, Goto
<1>6. CASE SaveEntry \/ RekeyDelete
  BY <1>6 DEF SaveEntry, RekeyDelete, regs
<1>7. CASE ConfirmEntry
  BY <1>7 DEF ConfirmEntry, TypeInv, Ledger, Place, OpType, NoOp
<1>8. CASE BurnRead \/ BurnFails \/ Probe
  <2>1. CASE ExitBooked /\ UNCHANGED missed /\ pc # "boot"
    <3>1. \A i \in Op : op'[i].st = "planned" => op[i].st = "planned"
      BY <2>1 DEF ExitBooked, TypeInv, Ledger, OpType
    <3> QED  BY <2>1, <3>1 DEF ExitBooked, regs
  <2>2. CASE UNCHANGED <<op, regs, missed>> /\ pc # "boot"
    BY <2>2 DEF regs
  <2>3. CASE Done("failed") /\ UNCHANGED missed /\ pc # "boot"
    BY <2>3, DonePlan
  <2> QED  BY <1>8, <2>1, <2>2, <2>3 DEF BurnRead, BurnFails, Probe
<1>9. CASE Environment
  BY <1>9 DEF Environment, Crash, LateMint, LateBurn, Owner, Chain, ExpireList, ExpireIds, regs
<1>10. CASE UNCHANGED vars
  BY <1>10 DEF vars, regs
<1> QED
  BY <1>1, <1>2, <1>3, <1>4, <1>5, <1>6, <1>7, <1>8, <1>9, <1>10 DEF Next, Engine

\* An operation is planned only while the process that planned it executes it,
\* until the next boot closes it, or after a boot that could not list it.
THEOREM PlansAreClosed == Spec => []NoDanglingPlan
<1>1. Init => NoDanglingPlan
  BY DEF Init, NoDanglingPlan
<1> QED  BY <1>1, NextPlan, TypeInvariant, PTL DEF Spec

-------------------------------------------------------------------------------
(* What was minted: a position that is known anywhere has been minted, one *)
(* that is to be minted is known nowhere, and none is minted twice.        *)

Minted ==
    /\ \A t \in lateMints : nft[t] = "none"
    /\ pc = "mint" => nft[new] = "none" /\ new \notin lateMints
    /\ pc \in {"minted", "save", "confirm", "rekey", "resave"} => nft[new] # "none"
    /\ \A t \in Token :
          mem[t] # "none" \/ row[t] \in Open \/ t \in todo \/ t \in list.live => nft[t] # "none"
    /\ \A i \in Op : op[i].entry # NoToken => nft[op[i].entry] # "none"
    /\ act = "rebalance" /\ pc \notin {"exit", "burn"} => nft[old] = "gone"

\* A listing holds only minted positions.
LEMMA ReadsMinted ==
    ASSUME TypeInv, Minted, NEW r \in Reads
    PROVE  \A t \in r.list.live : t \in Token /\ nft[t] # "none"
<1>1. CASE list.known
  <2>1. r = [list |-> list, cache |-> ids, fails |-> FALSE]
    BY <1>1 DEF Reads
  <2>2. r.list = list /\ list.live \subseteq Token
    BY <2>1 DEF TypeInv, Known, ListType
  <2> QED  BY <2>2 DEF Minted
<1>2. CASE ~ list.known
  <2>1. PICK q \in IdReads : r = [list |-> Listed(q.ids), cache |-> q.cache, fails |-> q.fails]
    BY <1>2 DEF Reads
  <2>2. q.ids \in SUBSET Token
    BY IdReadsType DEF TypeInv
  <2> QED  BY <2>1, <2>2, ListedType
<1> QED  BY <1>1, <1>2

LEMMA EnumerateMinted ==
    ASSUME TypeInv, Minted, (\E r \in Reads : Enumerate(r)) \/ EnumerateFails
    PROVE  \A t \in list'.live : t \in Token /\ nft[t] # "none"
<1>1. CASE \E r \in Reads : Enumerate(r)
  BY <1>1, ReadsMinted DEF Enumerate
<1>2. CASE EnumerateFails
  BY <1>2 DEF EnumerateFails, Minted, TypeInv, Known, ListType
<1> QED  BY <1>1, <1>2

LEMMA CycleMinted ==
    ASSUME TypeInv, Minted,
           \/ Boot \/ Reconcile \/ Reconciled \/ EndCycle
           \/ \E t \in Token : Adopt(t) \/ CheckPool(t)
    PROVE  Minted'
<1> USE DEF TypeInv, Minted
<1>1. CASE Boot
  BY <1>1 DEF Boot, Recovered, Ledger, OpType, Stage, chain, regs
<1>2. CASE Reconcile
  <2>1. \A t \in list'.live : t \in Token /\ nft[t] # "none"
    BY <1>2, EnumerateMinted DEF Reconcile
  <2>2. \A t \in todo' : nft[t] # "none"
    BY <1>2, ReadsMinted DEF Reconcile, Known
  <2>3. \A t \in Token : mem'[t] # "none" \/ row'[t] \in Open => mem[t] # "none" \/ row[t] \in Open
    BY <1>2 DEF Reconcile, Forget, Open
  <2>4. UNCHANGED <<nft, lateMints, op, act, old, new>> /\ pc' \in {"adopt", "decide"}
    BY <1>2 DEF Reconcile, chain, regs
  <2> QED  BY <1>2, <2>1, <2>2, <2>3, <2>4 DEF Reconcile, Stage
<1>3. CASE \E t \in Token : CheckPool(t)
  <2>1. \A t \in list'.live : t \in Token /\ nft[t] # "none"
    BY <1>3, EnumerateMinted DEF CheckPool
  <2>2. \A t \in Token : mem'[t] # "none" \/ row'[t] \in Open => mem[t] # "none" \/ row[t] \in Open
    BY <1>3 DEF CheckPool, Forget, Open
  <2>3. UNCHANGED <<nft, lateMints, op, act, old, new, pc, todo>>
    BY <1>3 DEF CheckPool, chain, regs
  <2> QED  BY <2>1, <2>2, <2>3
<1>4. CASE Reconciled \/ EndCycle
  BY <1>4 DEF Reconciled, EndCycle, Stage, chain, regs
<1>5. CASE \E t \in Token : Adopt(t)
  BY <1>5 DEF Adopt, Ledger, Stage, chain, regs
<1> QED  BY <1>1, <1>2, <1>3, <1>4, <1>5

LEMMA PlanMinted ==
    ASSUME TypeInv, Minted,
           \/ \E i \in Op : PlanEntry(i) \/ \E t \in Token : PlanExit(i, t)
           \/ \E t \in Token : StartRebalance(t)
           \/ EntryRefused \/ ExitRefused
    PROVE  Minted'
<1> USE DEF TypeInv, Minted
<1>1. \A i \in Op : op'[i].entry = op[i].entry
  BY DEF PlanEntry, PlanExit, Plan, StartRebalance, EntryRefused, ExitRefused, Done, Ledger, OpType
<1> QED
  BY <1>1 DEF PlanEntry, PlanExit, Plan, StartRebalance, EntryRefused, ExitRefused, Done,
              Stage, chain

LEMMA MintMinted ==
    ASSUME TypeInv, Minted,
           \/ \E t \in Token : BroadcastMint(t)
           \/ MintLands \/ MintRead \/ MintFails \/ SaveEntry \/ ConfirmEntry
    PROVE  Minted'
<1> USE DEF TypeInv, Minted
<1>1. CASE \E t \in Token : BroadcastMint(t)
  BY <1>1 DEF BroadcastMint, Goto, NextToken, Stage, chain
<1>2. CASE MintLands
  <2>1. new \in Token /\ nft[new] = "none" /\ new \notin lateMints /\ nft'[new] = "live"
    BY <1>2 DEF MintLands, Goto, Chains, Stage
  <2>2. \A t \in Token \ {new} : nft'[t] = nft[t]
    BY <1>2 DEF MintLands, Chains
  <2>3. act = "rebalance" => old \in Token \ {new}
    BY <1>2, <2>1 DEF MintLands, Goto, Stage
  <2>4. \A i \in Op : op[i].entry \in Token \cup {NoToken}
    BY DEF Ledger, OpType
  <2>5. lateMints \subseteq Token
    BY DEF Chains
  <2>6. UNCHANGED <<lateMints, new, mem, row, todo, list, op, act, old>> /\ pc = "mint" /\ pc' = "minted"
    BY <1>2 DEF MintLands, Goto
  <2> HIDE DEF TypeInv
  <2> QED  BY <2>1, <2>2, <2>3, <2>4, <2>5, <2>6
<1>3. CASE MintRead
  BY <1>3 DEF MintRead, Goto, Sent, NoList, chain
<1>4. CASE MintFails
  <2>1. \A i \in Op : op'[i].entry = op[i].entry
    BY <1>4 DEF MintFails, Done, Ledger, OpType
  <2> QED  BY <1>4, <2>1 DEF MintFails, Done
<1>5. CASE SaveEntry
  BY <1>5 DEF SaveEntry, Ledger, Stage, chain, regs
<1>6. CASE ConfirmEntry
  <2>1. \A i \in Op : op'[i].entry \in {op[i].entry, new}
    BY <1>6 DEF ConfirmEntry, Ledger, OpType
  <2> QED  BY <1>6, <2>1 DEF ConfirmEntry, chain
<1> QED  BY <1>1, <1>2, <1>3, <1>4, <1>5, <1>6

LEMMA BurnMinted ==
    ASSUME TypeInv, Minted,
           \/ BroadcastBurn \/ BurnLands \/ BurnRead \/ BurnFails \/ Probe \/ CloseExited
           \/ RekeyDelete \/ RekeySave
    PROVE  Minted'
<1> USE DEF TypeInv, Minted
<1>1. CASE BroadcastBurn
  BY <1>1 DEF BroadcastBurn, Goto, chain
<1>2. CASE BurnLands
  <2>1. old \in Token /\ nft[old] # "none" /\ nft'[old] = "gone"
    BY <1>2 DEF BurnLands, Goto, Chains, Stage
  <2>2. \A t \in Token \ {old} : nft'[t] = nft[t]
    BY <1>2 DEF BurnLands, Chains
  <2>3. \A i \in Op : op[i].entry \in Token \cup {NoToken}
    BY DEF Ledger, OpType
  <2>4. lateMints \subseteq Token
    BY DEF Chains
  <2>5. UNCHANGED <<lateMints, new, mem, row, todo, list, op, act, old>> /\ pc = "burn" /\ pc' = "burned"
    BY <1>2 DEF BurnLands, Goto
  <2> HIDE DEF TypeInv
  <2> QED  BY <2>1, <2>2, <2>3, <2>4, <2>5
<1>3. CASE BurnRead \/ BurnFails \/ Probe
  <2>1. \A i \in Op : op'[i].entry = op[i].entry
    BY <1>3 DEF BurnRead, BurnFails, Probe, ExitBooked, Done, Ledger, OpType
  <2>2. \A t \in list'.live : t \in Token /\ nft[t] # "none"
    <3>1. CASE BurnRead
      BY <3>1 DEF BurnRead, Sent, NoList
    <3>2. CASE BurnFails
      BY <3>2 DEF BurnFails, Known, ListType
    <3>3. CASE Probe
      BY <3>3, EnumerateMinted DEF Probe
    <3> QED  BY <1>3, <3>1, <3>2, <3>3
  <2>3. UNCHANGED <<nft, lateMints, mem, row, todo>>
    BY <1>3 DEF BurnRead, BurnFails, Probe, chain
  <2>4. /\ pc' \notin {"mint", "minted", "save", "confirm", "rekey", "resave"}
        /\ act' = "rebalance" => act = "rebalance" /\ old' = old /\ pc = "burned"
    BY <1>3 DEF BurnRead, BurnFails, Probe, ExitBooked, Done, Stage, regs
  <2> QED  BY <2>1, <2>2, <2>3, <2>4
<1>4. CASE CloseExited
  <2>1. \A i \in Op : op'[i].entry = op[i].entry
    BY <1>4 DEF CloseExited, Done, Ledger, OpType
  <2> QED  BY <1>4, <2>1 DEF CloseExited, Done, Ledger, Stage, Open, chain
<1>5. CASE RekeyDelete
  BY <1>5 DEF RekeyDelete, Ledger, Open, chain, regs
<1>6. CASE RekeySave
  <2>1. \A i \in Op : op'[i].entry = op[i].entry
    BY <1>6 DEF RekeySave, Done, Ledger, OpType
  <2> QED  BY <1>6, <2>1 DEF RekeySave, Done, Ledger, Stage, chain
<1> QED  BY <1>1, <1>2, <1>3, <1>4, <1>5, <1>6

\* A change of one position on the chain that does not undo a mint.
LEMMA ChainMinted ==
    ASSUME TypeInv, Minted, NEW t \in Token, NEW s \in NftState \ {"none"},
           nft' = [nft EXCEPT ![t] = s], lateMints' \subseteq lateMints, t \notin lateMints',
           nft[t] = "none" => (pc = "mint" => t # new),
           nft[t] = "gone" => s = "gone",
           UNCHANGED <<row, op, mem, pc, regs, todo, list>>
    PROVE  Minted'
<1>1. nft'[t] = s /\ \A u \in Token \ {t} : nft'[u] = nft[u]
  BY DEF TypeInv, Chains
<1>2. \A i \in Op : op[i].entry \in Token \cup {NoToken}
  BY DEF TypeInv, Ledger, OpType
<1>3. lateMints \subseteq Token
  BY DEF TypeInv, Chains
<1>4. pc \in {"mint", "minted", "save", "confirm", "rekey", "resave"} => new \in Token
  BY DEF TypeInv, Stage
<1>5. act = "rebalance" => old \in Token
  BY DEF TypeInv, Stage
<1>6. pc = "mint" => t # new
  <2>1. CASE nft[t] = "none"
    BY <2>1
  <2>2. CASE nft[t] # "none"
    BY <2>2 DEF Minted
  <2> QED  BY <2>1, <2>2
<1>7. s # "none"
  OBVIOUS
<1> QED  BY <1>1, <1>2, <1>3, <1>4, <1>5, <1>6, <1>7 DEF Minted, regs

LEMMA EnvironmentMinted ==
    ASSUME TypeInv, Minted, Environment
    PROVE  Minted'
<1>1. CASE Crash
  BY <1>1 DEF Crash, TypeInv, Stage, Minted, NoList
<1>2. CASE \E t \in Token : LateMint(t)
  <2>1. PICK t \in Token : LateMint(t)
    BY <1>2
  <2>2. nft[t] = "none" /\ (pc = "mint" => t # new)
    BY <2>1 DEF LateMint, Minted
  <2>3. "live" \in NftState \ {"none"}
    BY DEF NftState
  <2> QED  BY <2>1, <2>2, <2>3, ChainMinted DEF LateMint, Chain
<1>3. CASE \E t \in Token : LateBurn(t)
  <2>1. PICK t \in Token : LateBurn(t)
    BY <1>3
  <2>2. nft[t] # "none" /\ nft[t] # "gone" /\ t \notin lateMints
    BY <2>1 DEF LateBurn, Owned, Minted
  <2>3. "gone" \in NftState \ {"none"}
    BY DEF NftState
  <2> QED  BY <2>1, <2>2, <2>3, ChainMinted DEF LateBurn, Chain
<1>4. CASE \E t \in Token : Owner(t)
  <2>1. PICK t \in Token : Owner(t)
    BY <1>4
  <2>2. t \notin lateMints /\ nft[t] # "gone" /\ (nft[t] = "none" => t # new)
    BY <2>1 DEF Owner, NextToken, Owned, Minted
  <2>3. \E s \in {"live", "shell", "gone"} :
           nft' = [nft EXCEPT ![t] = s] /\ UNCHANGED <<lateMints, row, op, mem, pc, regs, todo, list>>
    BY <2>1 DEF Owner, Chain
  <2>4. {"live", "shell", "gone"} \subseteq NftState \ {"none"}
    BY DEF NftState
  <2> QED  BY <2>2, <2>3, <2>4, ChainMinted
<1>5. CASE ExpireList \/ ExpireIds
  BY <1>5 DEF ExpireList, ExpireIds, Minted, NoList, chain, regs
<1> QED  BY <1>1, <1>2, <1>3, <1>4, <1>5 DEF Environment

LEMMA NextMinted == TypeInv /\ Minted /\ [Next]_vars => Minted'
<1> SUFFICES ASSUME TypeInv, Minted, UNCHANGED vars PROVE Minted'
  BY CycleMinted, PlanMinted, MintMinted, BurnMinted, EnvironmentMinted DEF Next, Engine
<1> QED  BY DEF vars, chain, regs, Minted

THEOREM MintedInvariant == Spec => []Minted
<1>1. Init => Minted
  BY DEF Init, Minted, NoList, Open
<1> QED  BY <1>1, NextMinted, TypeInvariant, PTL DEF Spec
-------------------------------------------------------------------------------
(* What a listing says of the v3 positions that are tracked: all of those  *)
(* with liquidity are in it, fresh or cached, because a transaction of the *)
(* engine drops the cached one before its position is tracked.             *)

Seen(L) == \A t \in Token \ V4 : mem[t] # "none" /\ nft[t] = "live" => t \in L.live

Listing ==
    /\ list.live \subseteq list.pool
    /\ pc \in {"boot", "save", "rekey", "resave"} => ~ list.known
    /\ pc = "adopt" /\ list.known => todo \subseteq list.live
    /\ list.known => Seen(list)

LEMMA ReadsSeen ==
    ASSUME TypeInv, Listing, NEW r \in Reads
    PROVE  r.list.live \subseteq r.list.pool /\ Seen(r.list)
<1>1. CASE list.known
  <2>1. r = [list |-> list, cache |-> ids, fails |-> FALSE]
    BY <1>1 DEF Reads
  <2>2. r.list = list
    BY <2>1
  <2> QED  BY <1>1, <2>2 DEF Listing
<1>2. CASE ~ list.known
  <2>1. PICK q \in IdReads : r = [list |-> Listed(q.ids), cache |-> q.cache, fails |-> q.fails]
    BY <1>2 DEF Reads
  <2>2. q.ids \in SUBSET Token /\ Owned \ V4 \subseteq q.ids
    BY IdReadsType DEF TypeInv
  <2>3. r.list = Listed(q.ids)
    BY <2>1
  <2> QED  BY <2>2, <2>3, ListedType DEF Seen, Owned
<1> QED  BY <1>1, <1>2

\* No transaction brings a position back to life.
LEMMA ChainStep ==
    ASSUME TypeInv, Minted, [Next]_vars, NEW t \in Token, nft[t] # "none", nft'[t] = "live"
    PROVE  nft[t] = "live"
<1>1. CASE MintLands
  BY <1>1 DEF MintLands, Goto, Minted, TypeInv, Chains, Stage
<1>2. CASE BurnLands
  BY <1>2 DEF BurnLands, TypeInv, Chains
<1>3. CASE \E u \in Token : LateMint(u) \/ LateBurn(u)
  BY <1>3 DEF LateMint, LateBurn, Chain, Minted, TypeInv, Chains
<1>4. CASE \E u \in Token : Owner(u)
  BY <1>4 DEF Owner, NextToken, Chain, TypeInv, Chains
<1>5. CASE UNCHANGED nft
  BY <1>5
<1>6. CASE Boot \/ Reconcile \/ Reconciled \/ EndCycle \/ \E u \in Token : Adopt(u) \/ CheckPool(u)
  BY <1>6, <1>5 DEF Boot, Reconcile, Reconciled, EndCycle, Adopt, CheckPool, chain
<1>7. CASE \/ \E u \in Token : StartRebalance(u) \/ BroadcastMint(u)
           \/ \E i \in Op : PlanEntry(i) \/ \E u \in Token : PlanExit(i, u)
           \/ EntryRefused \/ ExitRefused \/ MintRead \/ MintFails \/ SaveEntry \/ ConfirmEntry
  BY <1>7, <1>5
  DEF StartRebalance, BroadcastMint, PlanEntry, PlanExit, Plan, EntryRefused, ExitRefused,
      MintRead, MintFails, SaveEntry, ConfirmEntry, chain
<1>8. CASE \/ BroadcastBurn \/ BurnRead \/ BurnFails \/ Probe \/ CloseExited \/ RekeyDelete
           \/ RekeySave
  BY <1>8, <1>5 DEF BroadcastBurn, BurnRead, BurnFails, Probe, CloseExited, RekeyDelete, RekeySave,
      chain
<1>9. CASE Crash \/ ExpireList \/ ExpireIds \/ UNCHANGED vars
  BY <1>9, <1>5 DEF Crash, ExpireList, ExpireIds, vars, chain
<1> QED
  BY <1>1, <1>2, <1>3, <1>4, <1>6, <1>7, <1>8, <1>9 DEF Next, Engine, Environment

\* A step that leaves the listing, or forgets it, leaves what it shows.
LEMMA KeepListing ==
    ASSUME TypeInv, Minted, Listing, [Next]_vars,
           list' = list \/ list' = NoList,
           pc' \in {"boot", "save", "rekey", "resave"} =>
               list' = NoList \/ pc \in {"boot", "save", "rekey", "resave"},
           pc' # "adopt" \/ (pc = "adopt" /\ todo' \subseteq todo),
           list.known /\ list' = list =>
               \A t \in Token \ V4 : mem[t] = "none" =>
                   mem'[t] = "none" \/ t \in list.live \/ nft'[t] # "live"
    PROVE  Listing'
<1>1. CASE list' = NoList
  BY <1>1 DEF NoList, Listing
<1>2. CASE list' = list
  <2>1. list.known => \A t \in Token \ V4 : mem'[t] # "none" /\ nft'[t] = "live" => t \in list.live
    <3> SUFFICES ASSUME list.known, NEW t \in Token \ V4, mem'[t] # "none", nft'[t] = "live",
                        t \notin list.live
                 PROVE  FALSE
      OBVIOUS
    <3>1. mem[t] # "none"
      BY <1>2
    <3>2. nft[t] = "live"
      BY <3>1, ChainStep DEF Minted
    <3> QED  BY <3>1, <3>2 DEF Listing, Seen
  <2> QED  BY <1>2, <2>1 DEF Listing, Seen, NoList
<1> QED  BY <1>1, <1>2

\* A step that makes a listing.
LEMMA EnumerateListing ==
    ASSUME TypeInv, Listing, NEW r \in Reads, Enumerate(r), UNCHANGED nft,
           \A t \in Token : mem[t] = "none" => mem'[t] = "none",
           pc' \notin {"boot", "save", "rekey", "resave"},
           pc' = "adopt" => todo' \subseteq r.list.live
    PROVE  Listing'
  BY ReadsSeen DEF Enumerate, Listing, Seen

LEMMA NextListing == TypeInv /\ Minted /\ Listing /\ [Next]_vars => Listing'
<1> SUFFICES ASSUME TypeInv, Minted, Listing, [Next]_vars PROVE Listing'  OBVIOUS
<1>1. CASE Boot
  <2>1. ~ list.known
    BY <1>1 DEF Boot, Listing
  <2> QED  BY <1>1, <2>1, KeepListing DEF Boot
<1>2. CASE Reconcile
  <2>1. CASE EnumerateFails /\ pc' = "decide" /\ UNCHANGED mem
    BY <2>1, KeepListing DEF EnumerateFails
  <2>2. CASE \E r \in Reads : Enumerate(r) /\ Forget(Tracked \ r.list.live)
                              /\ todo' = r.list.live \ Tracked /\ pc' = "adopt"
    <3>1. \A t \in Token : mem[t] = "none" => mem'[t] = "none"
      BY <2>2 DEF Forget
    <3> QED  BY <1>2, <2>2, <3>1, EnumerateListing DEF Reconcile, chain
  <2> QED  BY <1>2, <2>1, <2>2 DEF Reconcile
<1>3. CASE \E t \in Token : CheckPool(t)
  <2>1. \A t \in Token : mem[t] = "none" => mem'[t] = "none"
    BY <1>3 DEF CheckPool, Forget
  <2> QED  BY <1>3, <2>1, EnumerateListing DEF CheckPool, chain
<1>4. CASE \E t \in Token : Adopt(t)
  <2>1. PICK t \in Token : Adopt(t)
    BY <1>4
  <2>2. \A u \in Token : mem[u] = "none" => mem'[u] = "none" \/ u = t
    BY <2>1 DEF Adopt, TypeInv, Ledger
  <2>3. list.known => t \in list.live
    BY <2>1 DEF Adopt, Listing
  <2> QED  BY <2>1, <2>2, <2>3, KeepListing DEF Adopt
<1>5. CASE Reconciled \/ EndCycle
  BY <1>5, KeepListing DEF Reconciled, EndCycle
<1>6. CASE \/ \E i \in Op : PlanEntry(i) \/ \E t \in Token : PlanExit(i, t)
           \/ \E t \in Token : StartRebalance(t)
           \/ EntryRefused \/ ExitRefused
  <2>1. UNCHANGED <<list, mem>> /\ pc' \in {"gate", "exit", "decide"}
    BY <1>6 DEF PlanEntry, PlanExit, Plan, StartRebalance, EntryRefused, ExitRefused, Done
  <2> QED  BY <2>1, KeepListing
<1>7. CASE (\E t \in Token : BroadcastMint(t)) \/ MintLands \/ MintFails \/ BroadcastBurn \/ BurnLands
  <2>1. UNCHANGED <<list, mem>> /\ pc' \in {"mint", "minted", "decide", "burn", "burned"}
    BY <1>7 DEF BroadcastMint, MintLands, MintFails, BroadcastBurn, BurnLands, Goto, Done
  <2> QED  BY <2>1, KeepListing
<1>8. CASE MintRead \/ BurnRead
  <2>1. list' = NoList /\ pc' # "adopt"
    BY <1>8 DEF MintRead, BurnRead, Sent, Goto, ExitBooked
  <2> QED  BY <2>1 DEF Listing, NoList
<1>9. CASE SaveEntry \/ RekeyDelete \/ RekeySave
  <2>1. ~ list.known /\ list' = list /\ pc' \in {"confirm", "resave", "decide"}
    BY <1>9 DEF SaveEntry, RekeyDelete, RekeySave, Done, Listing
  <2> QED  BY <2>1 DEF Listing
<1>10. CASE ConfirmEntry \/ BurnFails
  <2>1. UNCHANGED <<list, mem>> /\ pc' \in {"decide", "probe"}
    BY <1>10 DEF ConfirmEntry, BurnFails, Done
  <2> QED  BY <2>1, KeepListing
<1>11. CASE Probe
  <2>1. UNCHANGED <<nft, mem>> /\ pc' \in {"decide", "close"}
    BY <1>11 DEF Probe, ExitBooked, Done, chain
  <2>2. CASE EnumerateFails
    BY <2>1, <2>2, KeepListing DEF EnumerateFails
  <2>3. CASE \E r \in Reads : Enumerate(r)
    BY <2>1, <2>3, EnumerateListing
  <2> QED  BY <1>11, <2>2, <2>3 DEF Probe
<1>12. CASE CloseExited
  <2>1. list' = list /\ pc' = "decide" /\ \A t \in Token : mem[t] = "none" => mem'[t] = "none"
    BY <1>12 DEF CloseExited, Done, TypeInv, Ledger
  <2> QED  BY <2>1, KeepListing
<1>13. CASE Crash
  BY <1>13 DEF Crash, Listing, NoList
<1>14. CASE \E t \in Token : LateMint(t) \/ LateBurn(t) \/ Owner(t)
  <2>1. UNCHANGED <<list, mem, pc, todo>>
    BY <1>14 DEF LateMint, LateBurn, Owner, Chain
  <2> QED  BY <2>1, KeepListing
<1>15. CASE ExpireList \/ ExpireIds
  BY <1>15, KeepListing DEF ExpireList, ExpireIds
<1>16. CASE UNCHANGED vars
  BY <1>16, KeepListing DEF vars
<1> QED
  BY <1>1, <1>2, <1>3, <1>4, <1>5, <1>6, <1>7, <1>8, <1>9, <1>10, <1>11, <1>12, <1>13, <1>14,
     <1>15, <1>16
  DEF Next, Engine, Environment

THEOREM ListingInvariant == Spec => []Listing
<1>1. Init => Listing
  BY DEF Init, Listing, NoList
<1> QED  BY <1>1, NextListing, TypeInvariant, MintedInvariant, PTL DEF Spec

-------------------------------------------------------------------------------
(* The row of a v3 position with liquidity stays.                          *)

LEMMA RowStep ==
    ASSUME TypeInv, Minted, Listing, [Next]_vars,
           NEW t \in Token \ V4, nft[t] = "live", row[t] # "none"
    PROVE  row'[t] # "none"
<1>1. CASE Reconcile
  <2>1. CASE UNCHANGED row
    BY <2>1
  <2>2. CASE \E r \in Reads : Forget(Tracked \ r.list.live)
    BY <2>2, ReadsSeen DEF Forget, Seen, Tracked
  <2> QED  BY <1>1, <2>1, <2>2 DEF Reconcile
<1>2. CASE \E u \in Token : CheckPool(u)
  <2>1. PICK u \in Token, r \in Reads : u \in Tracked /\ Forget({u} \ r.list.pool)
    BY <1>2 DEF CheckPool
  <2>2. u = t => t \in r.list.pool
    BY <2>1, ReadsSeen DEF Seen, Tracked
  <2> QED  BY <2>1, <2>2 DEF Forget
<1>3. CASE RekeyDelete
  BY <1>3 DEF RekeyDelete, Minted, TypeInv, Stage, Ledger
<1>4. CASE RekeySave
  <2>1. mem[old] # "none"
    BY <1>4 DEF RekeySave, TypeInv, Stage
  <2> QED  BY <1>4, <2>1 DEF RekeySave, TypeInv, Ledger
<1>5. CASE SaveEntry \/ CloseExited \/ \E u \in Token : Adopt(u)
  BY <1>5 DEF SaveEntry, CloseExited, Adopt, TypeInv, Ledger
<1>6. CASE UNCHANGED row
  BY <1>6
<1>7. CASE Boot \/ Reconciled \/ EndCycle
  BY <1>7, <1>6 DEF Boot, Reconciled, EndCycle
<1>8. CASE \/ \E u \in Token : StartRebalance(u) \/ BroadcastMint(u)
           \/ \E i \in Op : PlanEntry(i) \/ \E u \in Token : PlanExit(i, u)
           \/ EntryRefused \/ ExitRefused \/ MintLands \/ MintRead \/ MintFails \/ ConfirmEntry
  BY <1>8, <1>6
  DEF StartRebalance, BroadcastMint, PlanEntry, PlanExit, Plan, EntryRefused, ExitRefused,
      MintLands, MintRead, MintFails, ConfirmEntry, Goto
<1>9. CASE BroadcastBurn \/ BurnLands \/ BurnRead \/ BurnFails \/ Probe
  BY <1>9, <1>6 DEF BroadcastBurn, BurnLands, BurnRead, BurnFails, Probe, Goto
<1>10. CASE Environment
  BY <1>10, <1>6
  DEF Environment, Crash, LateMint, LateBurn, Owner, Chain, ExpireList, ExpireIds
<1>11. CASE UNCHANGED vars
  BY <1>11, <1>6 DEF vars
<1> QED
  BY <1>1, <1>2, <1>3, <1>4, <1>5, <1>7, <1>8, <1>9, <1>10, <1>11 DEF Next, Engine

\* No lost receipt, stale listing, late transaction or crash makes the engine
\* drop the row of a v3 position that has liquidity.
THEOREM LiveIsKept == Spec => LiveNotDropped
<1>1. TypeInv /\ Minted /\ Listing /\ [Next]_vars => [\A t \in Token \ V4 : ~ Dropped(t)]_vars
  BY RowStep DEF Dropped, Open
<1> QED
  BY <1>1, TypeInvariant, MintedInvariant, ListingInvariant, PTL DEF Spec, LiveNotDropped

\* Only the end of an entry writes the position of an operation.
LEMMA EntryStep ==
    ASSUME TypeInv, [Next]_vars, NEW i \in Op, op'[i].entry # op[i].entry
    PROVE  ConfirmEntry /\ op'[i].entry = new
<1> USE DEF TypeInv, Ledger, OpType
<1>1. ~ Boot
  <2>1. \A o \in OpType : Recovered(o).entry = o.entry
    BY DEF Recovered
  <2> QED  BY <2>1 DEF Boot
<1>2. ~ (Reconcile \/ Reconciled \/ EndCycle \/ \E t \in Token : Adopt(t) \/ CheckPool(t))
  BY DEF Reconcile, Reconciled, EndCycle, Adopt, CheckPool
<1>3. ~ (\/ \E k \in Op : PlanEntry(k) \/ \E t \in Token : PlanExit(k, t)
         \/ \E t \in Token : StartRebalance(t)
         \/ EntryRefused \/ ExitRefused)
  BY DEF PlanEntry, PlanExit, Plan, StartRebalance, EntryRefused, ExitRefused, Done
<1>4. ~ (\/ \E t \in Token : BroadcastMint(t)
         \/ MintLands \/ MintRead \/ MintFails \/ SaveEntry)
  BY DEF BroadcastMint, MintLands, MintRead, MintFails, SaveEntry, Goto, Done
<1>5. ~ (\/ BroadcastBurn \/ BurnLands \/ BurnRead \/ BurnFails \/ Probe \/ CloseExited
         \/ RekeyDelete \/ RekeySave)
  BY DEF BroadcastBurn, BurnLands, BurnRead, BurnFails, Probe, CloseExited, RekeyDelete,
         RekeySave, ExitBooked, Goto, Done
<1>6. ~ (Environment \/ UNCHANGED vars)
  BY DEF Environment, Crash, LateMint, LateBurn, Owner, Chain, ExpireList, ExpireIds, vars
<1>7. ConfirmEntry
  BY <1>1, <1>2, <1>3, <1>4, <1>5, <1>6 DEF Next, Engine
<1> QED  BY <1>7 DEF ConfirmEntry

\* Between its save and its confirmation the new position has its row.
Saved == pc = "confirm" => row[new] # "none"

LEMMA NextSaved == TypeInv /\ Saved /\ [Next]_vars => Saved'
<1> SUFFICES ASSUME TypeInv, Saved, [Next]_vars, pc' = "confirm" PROVE row'[new'] # "none"
  BY DEF Saved
<1>1. CASE SaveEntry
  BY <1>1 DEF SaveEntry, TypeInv, Ledger, Stage, regs
<1>2. CASE UNCHANGED <<pc, row, new>>
  BY <1>2 DEF Saved
<1>3. ~ (Boot \/ Reconcile \/ Reconciled \/ EndCycle \/ \E t \in Token : Adopt(t) \/ CheckPool(t))
  BY DEF Boot, Reconcile, Reconciled, EndCycle, Adopt, CheckPool
<1>4. ~ (\/ \E k \in Op : PlanEntry(k) \/ \E t \in Token : PlanExit(k, t)
         \/ \E t \in Token : StartRebalance(t)
         \/ EntryRefused \/ ExitRefused)
  BY DEF PlanEntry, PlanExit, Plan, StartRebalance, EntryRefused, ExitRefused, Done
<1>5. ~ (\/ \E t \in Token : BroadcastMint(t)
         \/ MintLands \/ MintRead \/ MintFails \/ ConfirmEntry)
  BY DEF BroadcastMint, MintLands, MintRead, MintFails, ConfirmEntry, Goto, Done
<1>6. ~ (\/ BroadcastBurn \/ BurnLands \/ BurnRead \/ BurnFails \/ Probe \/ CloseExited
         \/ RekeyDelete \/ RekeySave)
  BY DEF BroadcastBurn, BurnLands, BurnRead, BurnFails, Probe, CloseExited, RekeyDelete,
         RekeySave, ExitBooked, Goto, Done
<1>7. CASE Environment \/ UNCHANGED vars
  BY <1>7, <1>2
  DEF Environment, Crash, LateMint, LateBurn, Owner, Chain, ExpireList, ExpireIds, vars, regs
<1> QED
  BY <1>1, <1>3, <1>4, <1>5, <1>6, <1>7 DEF Next, Engine

LEMMA NextHeld ==
    TypeInv /\ Minted /\ Listing /\ Saved /\ ConfirmedEntryHeld /\ [Next]_vars
    => ConfirmedEntryHeld'
<1> SUFFICES ASSUME TypeInv, Minted, Listing, Saved, ConfirmedEntryHeld, [Next]_vars,
                    NEW i \in Op, op'[i].entry \notin V4 \cup {NoToken},
                    nft'[op'[i].entry] = "live"
             PROVE  row'[op'[i].entry] # "none"
  BY DEF ConfirmedEntryHeld
<1>1. CASE op'[i].entry # op[i].entry
  <2>1. ConfirmEntry /\ op'[i].entry = new
    BY <1>1, EntryStep
  <2> QED  BY <2>1 DEF ConfirmEntry, Saved
<1>2. CASE op'[i].entry = op[i].entry
  <2>1. op[i].entry \in Token \ V4
    BY <1>2 DEF TypeInv, Ledger, OpType
  <2>2. nft[op[i].entry] # "none"
    BY <1>2 DEF Minted
  <2>3. nft[op[i].entry] = "live"
    BY <1>2, <2>1, <2>2, ChainStep
  <2>4. row[op[i].entry] # "none"
    BY <1>2, <2>3 DEF ConfirmedEntryHeld
  <2> QED  BY <1>2, <2>1, <2>3, <2>4, RowStep
<1> QED  BY <1>1, <1>2

\* The v3 position of a confirmed entry has a row for as long as it has
\* liquidity.
THEOREM EntriesAreHeld == Spec => []ConfirmedEntryHeld
<1>1. Init => ConfirmedEntryHeld /\ Saved
  BY DEF Init, ConfirmedEntryHeld, Saved
<1> QED
  BY <1>1, NextHeld, NextSaved, TypeInvariant, MintedInvariant, ListingInvariant, PTL DEF Spec
==============================================================================
