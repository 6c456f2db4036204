--------------------------- MODULE SettlementProofs ---------------------------
(***************************************************************************)
(* Proofs about Settlement, for every set of positions, jobs and tokens    *)
(* and every bound: type correctness, the finalized groups, the sale       *)
(* behind every confirmed job, the refinement of the ledger, and then what *)
(* no step may do: sell over a recorded sale that may still land, lose its *)
(* signature, or change what was finalized.                                *)
(***************************************************************************)
EXTENDS Settlement, TLAPS

\* The tuples of variables an action leaves alone are always expanded.
USE DEF dbVars, chainVars, nftVars, regVars, listVars, ghostVars

\* What each way of rewriting a job row returns: a row with the same signature
\* and finalization, in one of a few states.
LEMMA RowUpdates ==
    ASSUME NEW r \in Row
    PROVE  /\ \A kind \in ErrorKind :
                 /\ RetryableJob(r, kind) \in Row
                 /\ RetryableJob(r, kind).status \in {"retryable", "terminal"}
                 /\ RetryableJob(r, kind).sig = r.sig
                 /\ RetryableJob(r, kind).fin = r.fin
           /\ /\ ReconciliationJob(r) \in Row
              /\ ReconciliationJob(r).status = "prepared"
              /\ ReconciliationJob(r).sig = r.sig
              /\ ReconciliationJob(r).fin = r.fin
           /\ /\ ConfirmedJob(r) \in Row
              /\ ConfirmedJob(r).status = "confirmed"
              /\ ConfirmedJob(r).sig = r.sig
              /\ ConfirmedJob(r).fin = r.fin
           /\ /\ NotFoundJob(r) \in Row
              /\ NotFoundJob(r).status \in {"submitted", "terminal"}
              /\ NotFoundJob(r).sig = r.sig
              /\ NotFoundJob(r).fin = r.fin
           /\ /\ Enqueued(r) \in Row
              /\ Enqueued(r).status = "pending"
              /\ Enqueued(r).sig = r.sig
              /\ Enqueued(r).fin = r.fin
  BY DEF Row, Status, Active, RetryableJob, ReconciliationJob, ConfirmedJob, NotFoundJob, Enqueued

\* The end of a job's turn keeps every type.
LEMMA FinishJobType ==
    ASSUME TypeOK, NEW j \in Job, NEW r \in Row, FinishJob(j, r),
           tx' \in [Tx -> TxRecord], kept' \subseteq Job, faults' \in 0 .. MaxFaults
    PROVE  TypeOK'
  BY DEF TypeOK, FinishJob, Control

LEMMA FaultType ==
    ASSUME TypeOK, Fault \/ NoFault
    PROVE  faults' \in 0 .. MaxFaults
  BY SettlementAssumption DEF TypeOK, Fault, NoFault

LEMMA SentTxType ==
    ASSUME TypeOK, NEW t \in Tx, NEW j \in Job, NEW event \in Events
    PROVE  SentTx(t, j, event) \in [Tx -> TxRecord]
  BY SettlementAssumption DEF TypeOK, SentTx, TxRecord, TxStatus

-------------------------------------------------------------------------------
(* Type correctness.                                                       *)

\* Every engine step keeps the types; `cur', `hash' and `fly' are a job and two
\* transactions wherever they are used.
CurInv ==
    /\ pc \in {"swap", "wait", "sold"} => cur \in Job
    /\ pc \in {"wait", "sold"} => hash \in Tx /\ fly \in Tx

TypeInv == TypeOK /\ CurInv

LEMMA InitType == Init => TypeInv
<1> SUFFICES ASSUME Init PROVE TypeInv
  OBVIOUS
<1>1. row \in [Job -> Row] /\ pos \in [Position -> PosStatus] /\ tx \in [Tx -> TxRecord]
  BY DEF Init, Row, Status, Absent, PosStatus, TxRecord, TxStatus
<1>2. copies \in [Job -> 0 .. 2] /\ heard \in {{}, Job}
  BY DEF Init
<1>3. faults \in 0 .. MaxFaults
  BY SettlementAssumption DEF Init
<1> QED  BY <1>1, <1>2, <1>3 DEF Init, TypeInv, TypeOK, CurInv, Control

LEMMA JobStepType ==
    ASSUME TypeInv, NEW j \in Job, JobStep(j)
    PROVE  TypeInv'
<1> USE DEF TypeInv
<1>1. /\ row[j] \in Row
      /\ Fresh \in Row
  BY DEF TypeOK, Row, Status, Active, Fresh
<1>2. CASE ProbeConfirmed(j)
  BY <1>1, <1>2, RowUpdates, FinishJobType, FaultType DEF ProbeConfirmed, TypeOK, CurInv, FinishJob
<1>3. CASE ProbeNotFound(j)
  BY <1>1, <1>3, RowUpdates, FinishJobType, FaultType DEF ProbeNotFound, TypeOK, CurInv, FinishJob
<1>4. CASE RefuseUnresolved(j)
  BY <1>1, <1>4, RowUpdates, FinishJobType, FaultType
     DEF RefuseUnresolved, ErrorKind, TypeOK, CurInv, FinishJob
<1>5. CASE QuoteFails(j)
  BY <1>1, <1>5, RowUpdates, FinishJobType, FaultType DEF QuoteFails, TypeOK, CurInv, FinishJob
<1>6. CASE BookUnsold(j)
  BY <1>1, <1>6, RowUpdates, FinishJobType, FaultType DEF BookUnsold, TypeOK, CurInv, FinishJob
<1>7. CASE SavePrepared(j)
  BY <1>1, <1>7, FaultType
     DEF SavePrepared, TypeOK, CurInv, Row, Status, Active, Control
<1>8. CASE RecordJob(j)
  BY <1>1, <1>8, FaultType
     DEF RecordJob, TypeOK, CurInv, Control
<1> QED  BY <1>2, <1>3, <1>4, <1>5, <1>6, <1>7, <1>8 DEF JobStep

LEMMA SwapType ==
    ASSUME TypeInv,
           \/ SwapNotSent \/ SendFails \/ RecordSignature \/ ConfirmSold \/ ReconcileSold
           \/ \E t \in Tx : Broadcast(t) \/ Rebroadcast(t)
    PROVE  TypeInv'
<1> USE DEF TypeInv
<1>1. cur \in Job /\ row[cur] \in Row
  BY DEF CurInv, TypeOK, SwapNotSent, SendFails, RecordSignature, ConfirmSold, ReconcileSold,
         Broadcast, Rebroadcast
<1>2. CASE SwapNotSent
  <2>1. tx' \in [Tx -> TxRecord]
    BY <1>1, <1>2, SentTxType DEF SwapNotSent, TypeOK
  <2>2. PICK kind \in ErrorKind : FinishJob(cur, RetryableJob(row[cur], kind))
    BY <1>2 DEF SwapNotSent
  <2>3. RetryableJob(row[cur], kind) \in Row
    BY <1>1, RowUpdates
  <2>4. kept' \subseteq Job /\ faults' \in 0 .. MaxFaults
    BY <1>2, FaultType DEF SwapNotSent, TypeOK
  <2>5. TypeOK'
    BY <1>1, <2>1, <2>2, <2>3, <2>4, FinishJobType
  <2> QED
    BY <2>2, <2>5 DEF FinishJob, CurInv
<1>3. CASE SendFails
  <2>1. PICK kind \in ErrorKind : FinishJob(cur, RetryableJob(row[cur], kind))
    BY <1>3 DEF SendFails, ErrorKind
  <2>2. RetryableJob(row[cur], kind) \in Row
    BY <1>1, RowUpdates
  <2>3. /\ tx' \in [Tx -> TxRecord] /\ kept' \subseteq Job
        /\ faults' \in 0 .. MaxFaults
    BY <1>3, FaultType DEF SendFails, TypeOK
  <2>4. TypeOK'
    BY <1>1, <2>1, <2>2, <2>3, FinishJobType
  <2> QED
    BY <2>1, <2>4 DEF FinishJob, CurInv
<1>4. CASE RecordSignature
  BY <1>1, <1>4, FaultType
     DEF RecordSignature, TypeOK, CurInv, Row, Status, Active, Control
<1>5. CASE ConfirmSold
  BY <1>1, <1>5, RowUpdates, FinishJobType, FaultType DEF ConfirmSold, TypeOK, CurInv, FinishJob
<1>6. CASE ReconcileSold
  BY <1>1, <1>6, RowUpdates, FinishJobType, FaultType DEF ReconcileSold, TypeOK, CurInv, FinishJob
<1>7. ASSUME NEW t \in Tx, Broadcast(t) PROVE TypeInv'
  BY <1>1, <1>7, SentTxType, FaultType DEF Broadcast, TypeOK, CurInv, Control
<1>8. ASSUME NEW t \in Tx, Rebroadcast(t) PROVE TypeInv'
  <2>1. tx[fly].event \in BOOLEAN /\ fly \in Tx
    BY <1>1, <1>8 DEF Rebroadcast, TypeOK, TxRecord, CurInv
  <2>2. SentTx(t, cur, tx[fly].event) \in [Tx -> TxRecord]
    BY <1>1, <2>1 DEF TypeOK, SentTx, TxRecord, TxStatus
  <2>3. tx' \in [Tx -> TxRecord]
    BY <1>8, <2>1, <2>2 DEF Rebroadcast, TxRecord, TxStatus
  <2> QED
    BY <1>1, <1>8, <2>3, FaultType DEF Rebroadcast, TypeOK, CurInv, Control
<1> QED  BY <1>2, <1>3, <1>4, <1>5, <1>6, <1>7, <1>8

LEMMA CycleType ==
    ASSUME TypeInv,
           \/ Reconcile \/ StartPhase \/ FinishWork
           \/ \E p \in Position : SaveTracked(p) \/ Finalize(p) \/ Exit(p) \/ ProbedExit(p)
           \/ EndPhase \/ ClosePosition \/ EndCycle \/ Crash
    PROVE  TypeInv'
<1> USE DEF TypeInv
<1>1. faults' \in 0 .. MaxFaults
  BY FaultType DEF Reconcile, StartPhase, FinishWork, SaveTracked, Finalize, Exit, ProbedExit,
                   EndPhase, ClosePosition, EndCycle, Crash
<1>2. CASE Reconcile
  BY <1>1, <1>2 DEF Reconcile, TypeOK, CurInv, PosStatus, Control
<1>3. CASE StartPhase
  <2>1. PICK listed \in {{}, Job}, known \in {{}, Job}, unread \in SUBSET Position :
          \E S \in SUBSET {j \in Job : Sweepable(j, known, unread)} :
            row' = Swept(S) /\ copies' = Copies(listed, S) /\ heard' = listed
    BY <1>3 DEF StartPhase
  <2>2. row' \in [Job -> Row] /\ copies' \in [Job -> 0 .. 2]
    BY <2>1, RowUpdates DEF Swept, Copies, TypeOK
  <2>3. heard' \in {{}, Job}
    BY <2>1
  <2> QED  BY <1>1, <1>3, <2>2, <2>3 DEF StartPhase, TypeOK, CurInv, Control
<1>4. CASE FinishWork \/ EndPhase \/ EndCycle
  BY <1>1, <1>4 DEF FinishWork, EndPhase, EndCycle, TypeOK, CurInv, Control
<1>5. ASSUME NEW p \in Position, Finalize(p) PROVE TypeInv'
  <2>1. row' \in [Job -> Row]
    <3>1. /\ row \in [Job -> Row]
          /\ row' = [j \in Job |-> IF j \in Listed(p) THEN [row[j] EXCEPT !.fin = TRUE] ELSE row[j]]
      BY <1>5 DEF Finalize, TypeOK
    <3>2. ASSUME NEW r \in Row PROVE [r EXCEPT !.fin = TRUE] \in Row
      BY DEF Row
    <3> QED BY <3>1, <3>2
  <2>2. pos' \in [Position -> PosStatus]
    BY <1>5 DEF Finalize, Rows, TypeOK, PosStatus
  <2> QED BY <1>1, <1>5, <2>1, <2>2 DEF Finalize, Blind, TypeOK, CurInv
<1>6. ASSUME NEW p \in Position, SaveTracked(p) \/ Exit(p) \/ ProbedExit(p) PROVE TypeInv'
  <2>1. pos' \in [Position -> PosStatus]
    BY <1>6 DEF SaveTracked, Exit, ProbedExit, Rows, TypeOK, PosStatus
  <2>2. onChain' \subseteq Position /\ burned' \subseteq Position /\ tracked' \subseteq Position
    BY <1>6 DEF SaveTracked, Exit, ProbedExit, Burn, TypeOK
  <2> QED
    BY <1>1, <1>6, <2>1, <2>2 DEF SaveTracked, Exit, ProbedExit, TypeOK, CurInv, Control
<1>7. CASE ClosePosition
  <2>1. pos' \in [Position -> PosStatus]
    BY <1>7 DEF ClosePosition, Rows, TypeOK, PosStatus
  <2> QED  BY <1>1, <1>7, <2>1 DEF ClosePosition, TypeOK, CurInv, Control
<1>8. CASE Crash
  BY <1>1, <1>8 DEF Crash, TypeOK, CurInv, Control
<1> QED  BY <1>2, <1>3, <1>4, <1>5, <1>6, <1>7, <1>8

LEMMA EnvironmentType ==
    ASSUME TypeInv, Chain \/ Clock
    PROVE  TypeInv'
<1> USE DEF TypeInv
<1>1. ASSUME NEW t \in Tx, Mine(t) \/ Revert(t) \/ Drop(t) PROVE TypeInv'
  BY <1>1, FaultType DEF Mine, Revert, Drop, TxMoves, TypeOK, CurInv, TxRecord, TxStatus
<1>2. ASSUME NEW j \in Job, BackoffElapses(j) \/ WindowElapses(j) PROVE TypeInv'
  <2>1. /\ [row[j] EXCEPT !.due = TRUE] \in Row
        /\ [row[j] EXCEPT !.late = TRUE] \in Row
    BY DEF TypeOK, Row
  <2> QED
    BY <1>2, <2>1, FaultType DEF BackoffElapses, WindowElapses, TimePasses, TypeOK, CurInv
<1>3. ASSUME NEW p \in Position, OwnerMoves(p) PROVE TypeInv'
  BY <1>3, FaultType DEF OwnerMoves, Burn, TypeOK, CurInv
<1> QED  BY <1>1, <1>2, <1>3 DEF Chain, Clock

LEMMA NextType == TypeInv /\ [Next]_vars => TypeInv'
<1> SUFFICES ASSUME TypeInv, [Next]_vars PROVE TypeInv'
  OBVIOUS
<1>1. CASE UNCHANGED vars
  BY <1>1 DEF TypeInv, TypeOK, CurInv, vars
<1>2. CASE Next
  BY <1>2, JobStepType, SwapType, CycleType, EnvironmentType DEF Next, Engine
<1> QED  BY <1>1, <1>2

\* Every reachable state has the types TypeOK states.
THEOREM TypeCorrect == Spec => []TypeOK
<1>1. Spec => []TypeInv
  BY InitType, NextType, PTL DEF Spec
<1>2. TypeInv => TypeOK
  BY DEF TypeInv
<1> QED  BY <1>1, <1>2, PTL

-------------------------------------------------------------------------------
(* The inductive invariant behind the safety theorems.                     *)

\* The jobs a cycle works on are active, the one being sold included.
WorkInv ==
    /\ pc \in {"work", "swap", "wait", "sold"} => \A j \in todo : row[j].status \in Active
    /\ pc \in {"swap", "wait", "sold"} => row[cur].status \in Active

\* An exit saves jobs that do not exist yet, of a tracked and open position whose
\* NFT it has burned.
ExitInv ==
    pc = "record" =>
        /\ who \in Position /\ who \in burned /\ who \in tracked
        /\ pos[who] = "open"
        /\ \A j \in todo : Owner[j] = who /\ row[j].status = "absent"

\* A settlement job is of a position an exit has burned, and so is a booked row;
\* what is burned never holds liquidity again.
ChainInv ==
    /\ burned \cap onChain = {}
    /\ \A j \in Job : row[j].status # "absent" /\ Owner[j] \in Position => Owner[j] \in burned
    /\ \A p \in Position : pos[p] = "final" => p \in burned

\* A recorded signature is one of the job's own transactions, and so is the
\* hash that is about to be recorded.
Mined(t) == tx[t].st = "mined"
OwnTx(t, j) == tx[t].job = j /\ tx[t].st # "unused"

SigInv ==
    /\ \A j \in Job : row[j].sig # NoTx => OwnTx(row[j].sig, j)
    /\ pc \in {"wait", "sold"} => OwnTx(hash, cur) /\ OwnTx(fly, cur)
    /\ pc = "sold" => Mined(fly)

FinInv == \A j \in Job : row[j].fin => row[j].status = "confirmed"

\* The list of a phase that could list the jobs holds every one of them.
ListInv ==
    /\ pc \notin {"work", "swap", "wait", "sold", "close"} => heard = {}
    /\ \A j \in Job : j \in heard /\ row[j].status # "absent" => copies[j] > 0

GroupInv == FinalGroupSettled /\ ListInv

Inv ==
    /\ TypeInv /\ WorkInv /\ ExitInv /\ ChainInv /\ SigInv /\ FinInv
    /\ GroupInv
    /\ ConfirmedIsSold

\* What no step takes back from the chain.
TxKeeps ==
    \A t \in Tx : tx[t].st # "unused" =>
        /\ tx'[t].job = tx[t].job
        /\ tx'[t].st # "unused"
        /\ tx[t].st = "mined" => tx'[t].st = "mined"

LEMMA NextTxKeeps ==
    ASSUME Inv, Next
    PROVE  TxKeeps
<1> USE DEF Inv, TypeInv
<1>1. CASE UNCHANGED tx
  BY <1>1 DEF TxKeeps
<1>2. CASE SwapNotSent
  <2>1. cur \in Job
    BY <1>2 DEF SwapNotSent, CurInv
  <2>2. ASSUME NEW t \in Tx, NEW event \in Events, NextTx(t), tx' = SentTx(t, cur, event)
        PROVE  TxKeeps
    <3>1. (\A u \in Tx : u # t => tx'[u] = tx[u]) /\ tx[t].st = "unused"
      BY <2>1, <2>2 DEF TypeOK, SentTx, NextTx
    <3> QED
      BY <3>1 DEF TxKeeps
  <2> QED
    BY <1>1, <1>2, <2>2 DEF SwapNotSent
<1>3. ASSUME NEW t \in Tx, Broadcast(t) PROVE TxKeeps
  <2>1. cur \in Job
    BY <1>3 DEF Broadcast, CurInv
  <2>2. PICK event \in Events : tx' = SentTx(t, cur, event)
    BY <1>3 DEF Broadcast
  <2>3. (\A u \in Tx : u # t => tx'[u] = tx[u]) /\ tx[t].st = "unused"
    BY <1>3, <2>1, <2>2 DEF Broadcast, TypeOK, SentTx, NextTx
  <2> QED
    BY <2>3 DEF TxKeeps
<1>4. ASSUME NEW t \in Tx, Rebroadcast(t) PROVE TxKeeps
  <2>1. cur \in Job /\ fly \in Tx
    BY <1>4 DEF Rebroadcast, CurInv
  <2>2. fly # t
    BY <1>4 DEF Rebroadcast, NextTx
  <2>3. \A u \in Tx \ {t, fly} : tx'[u] = tx[u]
    BY <1>4, <2>1 DEF Rebroadcast, TypeOK, SentTx
  <2>4. tx'[fly].job = tx[fly].job /\ tx'[fly].st = "gone"
    BY <1>4, <2>1, <2>2 DEF Rebroadcast, TypeOK, SentTx, TxRecord
  <2> QED
    BY <1>4, <2>1, <2>2, <2>3, <2>4 DEF Rebroadcast, NextTx, TxKeeps
<1>5. ASSUME NEW t \in Tx, Mine(t) \/ Revert(t) \/ Drop(t) PROVE TxKeeps
  BY <1>5 DEF Mine, Revert, Drop, TxMoves, TxKeeps, TypeOK, TxRecord
<1>6. CASE Clock
  BY <1>1, <1>6 DEF Clock, BackoffElapses, WindowElapses, TimePasses
<1>7. CASE Crash
  BY <1>1, <1>7 DEF Crash
<1>8. ASSUME NEW j \in Job, JobStep(j) PROVE TxKeeps
  BY <1>1, <1>8 DEF JobStep, ProbeConfirmed, ProbeNotFound, RefuseUnresolved, QuoteFails,
                    BookUnsold, SavePrepared, RecordJob
<1>9. CASE \/ Reconcile \/ StartPhase \/ SendFails \/ RecordSignature
           \/ ConfirmSold \/ ReconcileSold \/ FinishWork
           \/ EndPhase \/ ClosePosition \/ EndCycle
  BY <1>1, <1>9 DEF Reconcile, StartPhase, SendFails, RecordSignature, ConfirmSold,
                    ReconcileSold, FinishWork, EndPhase, ClosePosition, EndCycle
<1>10. ASSUME NEW p \in Position,
              SaveTracked(p) \/ Finalize(p) \/ Exit(p) \/ ProbedExit(p) \/ OwnerMoves(p)
       PROVE  TxKeeps
  BY <1>1, <1>10 DEF SaveTracked, Finalize, Exit, ProbedExit, OwnerMoves
<1> QED
  BY <1>2, <1>3, <1>4, <1>5, <1>6, <1>7, <1>8, <1>9, <1>10 DEF Next, Engine, Chain

\* What was sold stays sold.
LEMMA SoldKeeps ==
    ASSUME TxKeeps, NEW j \in Job, Sold(j)
    PROVE  Sold(j)'
  BY DEF TxKeeps, Sold

\* The rewritten rows a turn may end with, and what confirming one takes.
TurnResult(j, r) ==
    /\ r \in Row
    /\ r.status \in {"retryable", "terminal", "prepared", "submitted", "confirmed"}
    /\ r.sig = row[j].sig
    /\ r.fin = row[j].fin
    /\ r.status = "confirmed" => j \in kept' \/ Sold(j)'

\* A step that leaves the position rows and the liquidity alone and rewrites at
\* most the row of one active job, as TurnResult allows, keeps the invariant.
LEMMA TurnInv ==
    ASSUME Inv, TypeInv', TxKeeps, NEW j \in Job, NEW r,
           row[j].status \in Active, TurnResult(j, r), FinishJob(j, r),
           pc \in {"work", "swap", "wait", "sold"}, kept \subseteq kept'
    PROVE  Inv'
<1> USE DEF Inv, TypeInv
<1>1. /\ \A k \in Job \ {j} : row'[k] = row[k]
      /\ row'[j] = r
      /\ pc' = "work" /\ todo' = todo \ {j}
      /\ UNCHANGED <<pos, onChain, burned, copies, heard, blind>>
  BY DEF TypeOK, FinishJob
<1>2. WorkInv'
  BY <1>1 DEF WorkInv, TypeOK
<1>3. ExitInv'
  BY <1>1 DEF ExitInv
<1>4. ChainInv'
  BY <1>1 DEF ChainInv, Active
<1>5. SigInv'
  <2>1. \A k \in Job : row'[k].sig = row[k].sig
    BY <1>1 DEF TurnResult
  <2>2. \A k \in Job : row[k].sig \in Tx \cup {NoTx}
    BY DEF TypeOK, Row
  <2> QED
    BY <1>1, <2>1, <2>2 DEF SigInv, OwnTx, TxKeeps
<1>6. FinInv'
  BY <1>1 DEF FinInv, TurnResult, Active
<1>7. GroupInv'
  BY <1>1 DEF GroupInv, ListInv, FinalGroupSettled, Group, TurnResult, Active, FinInv
<1>8. ConfirmedIsSold'
  BY <1>1, SoldKeeps DEF ConfirmedIsSold, TurnResult
<1> QED  BY <1>2, <1>3, <1>4, <1>5, <1>6, <1>7, <1>8

\* A step that leaves the rows of the database alone keeps everything but
\* SigInv, which speaks of the registers.
LEMMA FrameInv ==
    ASSUME Inv, TypeInv', TxKeeps, UNCHANGED <<row, pos, kept, blind>>,
           burned \subseteq burned', burned' \cap onChain' = {},
           WorkInv', ExitInv', SigInv', ListInv'
    PROVE  Inv'
<1> USE DEF Inv
<1>1. ChainInv' /\ FinInv' /\ GroupInv'
  BY DEF ChainInv, FinInv, GroupInv, FinalGroupSettled, Group
<1>2. ConfirmedIsSold'
  BY SoldKeeps DEF ConfirmedIsSold
<1> QED  BY <1>1, <1>2

\* Recorded signatures stay the job's own as long as no signature changes.
LEMMA SigFrame ==
    ASSUME Inv, TxKeeps, \A j \in Job : row'[j].sig = row[j].sig
    PROVE  \A j \in Job : (row[j].sig # NoTx => OwnTx(row[j].sig, j))'
<1>1. \A j \in Job : row[j].sig \in Tx \cup {NoTx}
  BY DEF Inv, TypeInv, TypeOK, Row
<1> QED  BY <1>1 DEF Inv, SigInv, OwnTx, TxKeeps

LEMMA InitInv == Init => Inv
<1>1. Init => WorkInv /\ ExitInv /\ ChainInv /\ SigInv /\ FinInv
  BY DEF Init, WorkInv, ExitInv, ChainInv, SigInv, FinInv, Absent
<1>2. Init => GroupInv /\ ConfirmedIsSold
  BY DEF Init, GroupInv, ListInv, FinalGroupSettled, ConfirmedIsSold, Absent
<1> QED  BY <1>1, <1>2, InitType DEF Inv

LEMMA JobStepInv ==
    ASSUME Inv, TypeInv', TxKeeps, NEW j \in Job, JobStep(j)
    PROVE  Inv'
<1> USE DEF Inv, TypeInv
<1>1. row[j] \in Row
  BY DEF TypeOK
<1>2. pc = "work" /\ j \in todo => row[j].status \in Active
  BY DEF WorkInv
<1>3. CASE ProbeConfirmed(j)
  <2>1. PICK r \in {ConfirmedJob(row[j]), ReconciliationJob(row[j])} : FinishJob(j, r)
    BY <1>3 DEF ProbeConfirmed
  <2>2. Sold(j)'
    BY <1>3, SoldKeeps DEF ProbeConfirmed, SigInv, OwnTx, Sold, TypeOK, Row
  <2>3. TurnResult(j, r)
    BY <1>1, <2>1, <2>2, RowUpdates DEF TurnResult
  <2> QED
    BY <1>2, <1>3, <2>1, <2>3, TurnInv DEF ProbeConfirmed, Working
<1>4. CASE ProbeNotFound(j)
  <2>1. FinishJob(j, NotFoundJob(row[j])) /\ TurnResult(j, NotFoundJob(row[j]))
    BY <1>1, <1>4, RowUpdates DEF ProbeNotFound, TurnResult
  <2> QED
    BY <1>2, <1>4, <2>1, TurnInv DEF ProbeNotFound, Working
<1>5. CASE RefuseUnresolved(j) \/ QuoteFails(j)
  <2>1. PICK kind \in ErrorKind : FinishJob(j, RetryableJob(row[j], kind))
    BY <1>5 DEF RefuseUnresolved, QuoteFails, ErrorKind
  <2>2. TurnResult(j, RetryableJob(row[j], kind))
    <3>1. /\ RetryableJob(row[j], kind) \in Row
          /\ RetryableJob(row[j], kind).status \in {"retryable", "terminal"}
          /\ RetryableJob(row[j], kind).sig = row[j].sig
          /\ RetryableJob(row[j], kind).fin = row[j].fin
      BY <1>1, <2>1, RowUpdates, Zenon
    <3> QED BY <3>1 DEF TurnResult
  <2> QED
    BY <1>2, <1>5, <2>1, <2>2, TurnInv DEF RefuseUnresolved, QuoteFails, Working
<1>6. CASE BookUnsold(j)
  <2>1. FinishJob(j, ConfirmedJob(row[j])) /\ TurnResult(j, ConfirmedJob(row[j]))
    BY <1>1, <1>6, RowUpdates DEF BookUnsold, TurnResult
  <2> QED
    BY <1>2, <1>6, <2>1, TurnInv DEF BookUnsold, Working
<1>7. CASE SavePrepared(j)
  <2>1. /\ \A k \in Job \ {j} : row'[k] = row[k]
        /\ row'[j].status = "prepared" /\ row'[j].sig = row[j].sig /\ row'[j].fin = row[j].fin
        /\ row[j].status \in Active
    BY <1>1, <1>2, <1>7 DEF SavePrepared, TypeOK, Row, Working
  <2>2. WorkInv'
    BY <1>7, <2>1 DEF SavePrepared, Working, WorkInv, TypeOK, Active
  <2>3. ExitInv' /\ ChainInv' /\ FinInv'
    BY <1>7, <2>1 DEF SavePrepared, Working, ExitInv, ChainInv, FinInv, Active
  <2>4. SigInv'
    BY <1>7, <2>1, SigFrame DEF SavePrepared, SigInv
  <2>5. GroupInv'
    BY <1>7, <2>1 DEF SavePrepared, GroupInv, ListInv, FinalGroupSettled, Group, FinInv, Active
  <2>6. ConfirmedIsSold'
    BY <1>7, <2>1, SoldKeeps DEF SavePrepared, ConfirmedIsSold
  <2> QED  BY <2>2, <2>3, <2>4, <2>5, <2>6
<1>8. CASE RecordJob(j)
  <2>1. /\ \A k \in Job \ {j} : row'[k] = row[k]
        /\ row'[j] = Fresh
        /\ Owner[j] = who /\ who \in Position /\ who \in burned /\ pos[who] = "open"
        /\ UNCHANGED <<pos, onChain, burned, pc, who, tracked, heard>> /\ pc = "record"
    BY <1>8 DEF RecordJob, TypeOK, ExitInv
  <2>2. WorkInv' /\ ExitInv' /\ ChainInv' /\ FinInv'
    BY <1>8, <2>1
       DEF RecordJob, WorkInv, ExitInv, ChainInv, FinInv, Fresh
  <2>3. \A k \in Job : row'[k].sig # NoTx => k # j /\ row'[k].sig = row[k].sig
    BY <2>1 DEF Fresh
  <2>4. SigInv'
    BY <1>8, <2>3 DEF RecordJob, SigInv, OwnTx
  <2>5. GroupInv'
    BY <1>8, <2>1 DEF RecordJob, GroupInv, ListInv, FinalGroupSettled, Group
  <2>6. ConfirmedIsSold'
    BY <1>8, <2>1, SoldKeeps DEF RecordJob, ConfirmedIsSold, Fresh
  <2> QED  BY <2>2, <2>4, <2>5, <2>6
<1> QED  BY <1>3, <1>4, <1>5, <1>6, <1>7, <1>8 DEF JobStep

LEMMA SwapInv ==
    ASSUME Inv, TypeInv', TxKeeps,
           \/ SwapNotSent \/ SendFails \/ RecordSignature \/ ConfirmSold \/ ReconcileSold
           \/ \E t \in Tx : Broadcast(t) \/ Rebroadcast(t)
    PROVE  Inv'
<1> USE DEF Inv, TypeInv
<1>1. cur \in Job /\ row[cur] \in Row /\ row[cur].status \in Active
  BY DEF CurInv, WorkInv, TypeOK, SwapNotSent, SendFails, RecordSignature, ConfirmSold,
         ReconcileSold, Broadcast, Rebroadcast
<1>2. CASE SwapNotSent \/ SendFails
  <2>1. PICK kind \in ErrorKind : FinishJob(cur, RetryableJob(row[cur], kind))
    BY <1>2 DEF SwapNotSent, SendFails, ErrorKind
  <2>2. TurnResult(cur, RetryableJob(row[cur], kind))
    BY <1>1, RowUpdates DEF TurnResult
  <2> QED
    BY <1>1, <1>2, <2>1, <2>2, TurnInv DEF SwapNotSent, SendFails
<1>3. CASE ConfirmSold \/ ReconcileSold
  <2>1. PICK j \in Job : j = cur
    BY <1>1
  <2>2. PICK r \in {ConfirmedJob(row[j]), ReconciliationJob(row[j])} : FinishJob(j, r)
    BY <1>3, <2>1 DEF ConfirmSold, ReconcileSold
  <2>3. Sold(j)
    BY <1>3, <2>1 DEF ConfirmSold, ReconcileSold, SigInv, CurInv, OwnTx, Mined, Sold
  <2>4. TurnResult(j, r)
    BY <1>1, <2>1, <2>2, <2>3, SoldKeeps, RowUpdates DEF TurnResult
  <2> QED
    BY <1>1, <1>3, <2>1, <2>2, <2>4, TurnInv DEF ConfirmSold, ReconcileSold
<1>4. CASE RecordSignature
  <2>1. /\ \A k \in Job \ {cur} : row'[k] = row[k]
        /\ row'[cur].status = "submitted" /\ row'[cur].sig = hash
        /\ row'[cur].fin = row[cur].fin
    BY <1>1, <1>4 DEF RecordSignature, TypeOK, Row
  <2>2. WorkInv'
    BY <1>1, <1>4, <2>1 DEF RecordSignature, WorkInv, TypeOK, Active
  <2>3. ExitInv' /\ ChainInv' /\ FinInv'
    <3>1. ExitInv'
      BY <1>1, <1>4, <2>1 DEF RecordSignature, ExitInv, Active
    <3>2. ChainInv'
      BY <1>1, <1>4, <2>1 DEF RecordSignature, ChainInv, Active
    <3>3. FinInv'
      BY <1>1, <1>4, <2>1 DEF RecordSignature, FinInv, Active
    <3> QED BY <3>1, <3>2, <3>3
  <2>4. SigInv'
    <3>1. UNCHANGED <<tx, hash, fly, cur>> /\ pc = "wait" /\ pc' = "sold" /\ Mined(fly)
      BY <1>4 DEF RecordSignature, Mined
    <3>2. OwnTx(hash, cur) /\ OwnTx(fly, cur)
      BY <3>1 DEF SigInv
    <3>3. \A k \in Job : row'[k].sig # NoTx => OwnTx(row'[k].sig, k)
      BY <1>1, <2>1, <3>2 DEF SigInv
    <3> QED
      BY <3>1, <3>2, <3>3 DEF SigInv, OwnTx, Mined
  <2>5. GroupInv'
    <3>1. \A p \in Position : pos'[p] = pos[p]
      BY <1>4 DEF RecordSignature
    <3>2. \A k \in Job : row'[k].status # "absent" <=> row[k].status # "absent"
      BY <1>1, <2>1 DEF Active
    <3>3. \A p \in Position : pos[p] = "final" /\ p \notin blind => cur \notin Group(p)
      BY <1>1 DEF GroupInv, FinalGroupSettled, Active
    <3>4. UNCHANGED blind /\ \A p \in Position : Group(p)' = Group(p)
      BY <1>4, <3>2 DEF RecordSignature, Group
    <3>5. FinalGroupSettled'
      BY <2>1, <3>1, <3>3, <3>4 DEF GroupInv, FinalGroupSettled, Group
    <3>6. ListInv'
      BY <1>4, <3>2 DEF RecordSignature, GroupInv, ListInv
    <3> QED  BY <3>5, <3>6 DEF GroupInv
  <2>6. ConfirmedIsSold'
    BY <1>1, <1>4, <2>1, SoldKeeps DEF RecordSignature, ConfirmedIsSold
  <2> QED  BY <2>2, <2>3, <2>4, <2>5, <2>6
<1>5. ASSUME NEW t \in Tx, Broadcast(t) PROVE Inv'
  <2>1. PICK event \in Events : tx' = SentTx(t, cur, event)
    BY <1>5 DEF Broadcast
  <2>2. OwnTx(hash, cur)' /\ OwnTx(fly, cur)'
    BY <1>1, <1>5, <2>1 DEF Broadcast, SentTx, OwnTx, TypeOK
  <2>3. SigInv'
    BY <1>5, <2>2, SigFrame DEF Broadcast, SigInv
  <2> QED
    BY <1>5, <2>3, FrameInv DEF Broadcast, WorkInv, ExitInv, ChainInv, GroupInv, ListInv
<1>6. ASSUME NEW t \in Tx, Rebroadcast(t) PROVE Inv'
  <2>1. fly \in Tx /\ fly # t /\ hash = fly
    BY <1>6 DEF Rebroadcast, CurInv, NextTx
  <2>2. /\ tx'[t].job = cur /\ tx'[t].st = "pending"
        /\ tx'[fly].job = tx[fly].job /\ tx'[fly].st = "gone"
    BY <1>1, <1>6, <2>1 DEF Rebroadcast, SentTx, TypeOK, TxRecord
  <2>3. OwnTx(hash, cur)' /\ OwnTx(fly, cur)'
    BY <1>6, <2>1, <2>2 DEF Rebroadcast, SigInv, OwnTx
  <2>4. SigInv'
    BY <1>6, <2>3, SigFrame DEF Rebroadcast, SigInv
  <2> QED
    BY <1>6, <2>4, FrameInv DEF Rebroadcast, WorkInv, ExitInv, ChainInv, GroupInv, ListInv
<1> QED  BY <1>2, <1>3, <1>4, <1>5, <1>6

\* What the start of a phase does to the rows and the list.
StartPhaseWith(S) ==
    /\ pc = "ready" /\ pc' = "work" /\ UNCHANGED <<pos, onChain, burned, tx, kept, blind>>
    /\ \A j \in S : /\ row'[j].status = "pending" /\ row'[j].sig = row[j].sig
                    /\ row'[j].fin = row[j].fin
                    /\ row[j].status \in {"terminal", "absent"}
                    /\ row[j].status = "absent" => Owner[j] = NoPosition
    /\ \A j \in Job \ S : row'[j] = row[j]
    /\ \A j \in todo' : j \in Job /\ Processable(row'[j])
    /\ ListInv'

LEMMA StartPhaseStep ==
    ASSUME TypeOK, StartPhase
    PROVE  \E S \in SUBSET Job : StartPhaseWith(S)
<1>1. PICK listed \in {{}, Job}, known \in {{}, Job}, unread \in SUBSET Position :
        \E S \in SUBSET {j \in Job : Sweepable(j, known, unread)} :
          row' = Swept(S) /\ copies' = Copies(listed, S) /\ heard' = listed
  BY DEF StartPhase
<1>2. PICK S \in SUBSET {j \in Job : Sweepable(j, known, unread)} :
          row' = Swept(S) /\ copies' = Copies(listed, S) /\ heard' = listed
  BY <1>1
<1>3. ASSUME NEW j \in S
      PROVE  /\ row'[j].status = "pending" /\ row'[j].sig = row[j].sig
             /\ row'[j].fin = row[j].fin
             /\ \/ row[j].status = "terminal"
                \/ row[j].status = "absent" /\ Owner[j] = NoPosition
  BY <1>2, <1>3, RowUpdates DEF TypeOK, Sweepable, SiglessTerminal, Swept
<1>4. \A j \in Job \ S : row'[j] = row[j]
  BY <1>2 DEF Swept
<1>5. ListInv'
  <2>1. ASSUME NEW j \in Job, j \in listed, row'[j].status # "absent" PROVE copies'[j] > 0
    BY <1>2, <1>4, <2>1 DEF Copies
  <2> QED  BY <1>2, <2>1 DEF StartPhase, ListInv
<1> QED  BY <1>3, <1>4, <1>5 DEF StartPhase, StartPhaseWith

\* The group that is finalized is the whole one.
LEMMA WholeGroup ==
    ASSUME Inv, heard = Job, NEW p \in Position
    PROVE  Listed(p) = Group(p)
  BY DEF Inv, GroupInv, ListInv, Listed, Group

\* Only a booking makes a row final, and it is the only step that changes what
\* was booked blindly.
LEMMA RowsInv ==
    ASSUME Inv, TypeInv', TxKeeps, UNCHANGED <<row, tx, kept, blind>>,
           burned \subseteq burned', burned' \cap onChain' = {},
           \A p \in Position : pos'[p] = "final" => pos[p] = "final",
           pc' \in {"idle", "ready", "decide", "record"}, heard' = {}, ExitInv'
    PROVE  Inv'
<1> USE DEF Inv
<1>1. WorkInv' /\ ChainInv' /\ FinInv'
  BY DEF WorkInv, ChainInv, FinInv
<1>2. SigInv'
  BY SigFrame DEF SigInv
<1>3. GroupInv' /\ ConfirmedIsSold'
  BY SoldKeeps DEF GroupInv, ListInv, FinalGroupSettled, ConfirmedIsSold, Group
<1> QED  BY <1>1, <1>2, <1>3

LEMMA CycleInv ==
    ASSUME Inv, TypeInv', TxKeeps,
           \/ Reconcile \/ StartPhase \/ FinishWork
           \/ \E p \in Position : SaveTracked(p) \/ Finalize(p) \/ Exit(p) \/ ProbedExit(p)
           \/ EndPhase \/ ClosePosition \/ EndCycle \/ Crash
    PROVE  Inv'
<1> USE DEF Inv, TypeInv
<1>0. pc \in {"idle", "ready", "decide", "record"} => heard = {}
  BY DEF GroupInv, ListInv
<1>1. CASE Reconcile
  <2>1. UNCHANGED <<row, tx, onChain, burned, heard, kept, blind>> /\ pc = "idle" /\ pc' = "ready"
    BY <1>1 DEF Reconcile
  <2>2. \A p \in Position : pos'[p] = "final" => pos[p] = "final"
    BY <1>1 DEF Reconcile
  <2> QED  BY <1>0, <2>1, <2>2, RowsInv DEF ExitInv, ChainInv
<1>2. CASE StartPhase
  <2>1. PICK S \in SUBSET Job : StartPhaseWith(S)
    BY <1>2, StartPhaseStep
  <2> USE <2>1 DEF StartPhaseWith
  <2>2. WorkInv' /\ ExitInv'
    BY DEF WorkInv, ExitInv, Processable
  <2>3. ChainInv'
    BY SettlementAssumption DEF ChainInv, TypeOK
  <2>4. SigInv'
    BY SigFrame DEF SigInv
  <2>5. FinInv'
    BY DEF FinInv
  <2>6. FinalGroupSettled'
    <3>1. ASSUME NEW p \in Position, pos[p] = "final", p \notin blind, NEW j \in Job,
                 Owner[j] = p, j \in S
          PROVE  FALSE
      BY <3>1, SettlementAssumption DEF GroupInv, FinalGroupSettled, Group
    <3> QED
      BY <3>1 DEF GroupInv, FinalGroupSettled, Group
  <2>7. GroupInv'
    BY <2>6 DEF GroupInv
  <2>8. ConfirmedIsSold'
    BY SoldKeeps DEF ConfirmedIsSold
  <2> QED  BY <2>2, <2>3, <2>4, <2>5, <2>7, <2>8
<1>3. CASE FinishWork \/ EndPhase \/ EndCycle \/ Crash
  <2>1. /\ UNCHANGED <<row, pos, onChain, burned, tx, kept, blind>>
        /\ pc' \in {"decide", "close", "idle"}
    BY <1>3 DEF FinishWork, EndPhase, EndCycle, Crash
  <2>2. WorkInv' /\ ExitInv' /\ SigInv'
    BY <2>1, SigFrame DEF WorkInv, ExitInv, SigInv
  <2>3. ListInv'
    BY <1>0, <1>3 DEF FinishWork, EndPhase, EndCycle, Crash, GroupInv, ListInv
  <2> QED
    BY <2>1, <2>2, <2>3, FrameInv DEF ChainInv
<1>4. ASSUME NEW p \in Position, Finalize(p) PROVE Inv'
  <2>1. /\ UNCHANGED <<onChain, burned, tx, pc, kept, todo, copies, heard>> /\ pc = "close"
        /\ \A q \in Position : pos'[q] = IF q = p THEN "final" ELSE pos[q]
        /\ \A j \in Listed(p) : row[j].status = "confirmed"
        /\ Listed(p) # {}
        /\ \A q \in Position \ {p} : q \notin blind' => q \notin blind
        /\ p \notin blind' => heard = Job
    BY <1>4 DEF Finalize, Complete, Rows, Blind
  <2>2. \A j \in Job : /\ row'[j].status = row[j].status
                       /\ row'[j].sig = row[j].sig
                       /\ j \in Listed(p) => row'[j].fin
                       /\ j \notin Listed(p) => row'[j] = row[j]
    BY <1>4 DEF Finalize, TypeOK, Row
  <2>3. WorkInv' /\ ExitInv'
    BY <2>1, <2>2 DEF WorkInv, ExitInv
  <2>4. ChainInv'
    <3>1. p \in burned
      BY <2>1 DEF Listed, Group, ChainInv
    <3> QED  BY <2>1, <2>2, <3>1 DEF ChainInv
  <2>5. FinInv' /\ SigInv'
    BY <2>1, <2>2, SigFrame DEF FinInv, SigInv
  <2>6. GroupInv'
    <3>1. heard = Job => Listed(p) = Group(p)
      BY WholeGroup
    <3>2. ListInv'
      BY <2>1, <2>2 DEF GroupInv, ListInv
    <3>3. \A q \in Position : Group(q)' = Group(q)
      BY <2>2 DEF Group
    <3>4. ASSUME NEW q \in Position, pos'[q] = "final", q \notin blind', NEW j \in Group(q)
          PROVE  row'[j].status = "confirmed" /\ row'[j].fin
      <4>1. CASE q = p
        BY <2>1, <2>2, <3>1, <3>4, <4>1 DEF Group
      <4>2. CASE q # p
        BY <2>1, <2>2, <3>4, <4>2 DEF GroupInv, FinalGroupSettled, Group
      <4> QED  BY <4>1, <4>2
    <3> QED  BY <3>2, <3>3, <3>4 DEF GroupInv, FinalGroupSettled
  <2>7. ConfirmedIsSold'
    BY <2>1, <2>2, SoldKeeps DEF ConfirmedIsSold
  <2> QED  BY <2>3, <2>4, <2>5, <2>6, <2>7
<1>5. ASSUME NEW p \in Position, SaveTracked(p) \/ ProbedExit(p) PROVE Inv'
  <2>1. /\ UNCHANGED <<row, tx, pc, heard, kept, blind>> /\ pc \in {"ready", "decide"}
        /\ burned \subseteq burned' /\ burned' \cap onChain' = {}
    BY <1>5 DEF SaveTracked, ProbedExit, Burn, ChainInv
  <2>2. \A q \in Position : pos'[q] = "final" => pos[q] = "final"
    BY <1>5 DEF SaveTracked, ProbedExit, Rows
  <2> QED  BY <1>0, <2>1, <2>2, RowsInv DEF ExitInv
<1>6. ASSUME NEW p \in Position, Exit(p) PROVE Inv'
  <2>1. /\ UNCHANGED <<row, tx, heard, kept, blind, tracked>> /\ pc = "decide" /\ pc' = "record"
        /\ who' = p /\ p \in burned' /\ p \in tracked
        /\ burned \subseteq burned' /\ burned' \cap onChain' = {}
        /\ todo' \subseteq {j \in Job : Owner[j] = p /\ row[j].status = "absent"}
    BY <1>6 DEF Exit, Burn, ChainInv
  <2>2. \A q \in Position : pos'[q] = IF q = p THEN "open" ELSE pos[q]
    BY <1>6 DEF Exit, Rows
  <2>3. ExitInv'
    BY <2>1, <2>2 DEF ExitInv
  <2> QED  BY <1>0, <2>1, <2>2, <2>3, RowsInv
<1>7. CASE ClosePosition
  <2>1. /\ UNCHANGED <<row, onChain, burned, tx, heard, kept, blind>>
        /\ pc = "record" /\ pc' = "decide"
    BY <1>7 DEF ClosePosition
  <2>2. \A q \in Position : pos'[q] = "final" => pos[q] = "final"
    BY <1>7 DEF ClosePosition, Rows
  <2> QED  BY <1>0, <2>1, <2>2, RowsInv DEF ExitInv, ChainInv
<1> QED  BY <1>1, <1>2, <1>3, <1>4, <1>5, <1>6, <1>7

LEMMA EnvironmentInv ==
    ASSUME Inv, TypeInv', TxKeeps, Chain \/ Clock
    PROVE  Inv'
<1> USE DEF Inv, TypeInv
<1>1. CASE Chain
  <2>1. UNCHANGED <<row, pos, pc, cur, who, hash, fly, tracked, todo, copies, heard, kept, blind>>
    BY <1>1 DEF Chain, Mine, Revert, Drop, TxMoves, OwnerMoves
  <2>2. burned \subseteq burned' /\ burned' \cap onChain' = {}
    BY <1>1 DEF Chain, Mine, Revert, Drop, TxMoves, OwnerMoves, Burn, ChainInv
  <2>3. SigInv'
    <3>1. pc = "sold" => Mined(fly)'
      BY <2>1 DEF SigInv, Mined, CurInv, TxKeeps
    <3>2. pc \in {"wait", "sold"} => OwnTx(hash, cur)' /\ OwnTx(fly, cur)'
      BY <2>1 DEF SigInv, OwnTx, CurInv, TxKeeps
    <3> QED
      BY <2>1, <3>1, <3>2, SigFrame DEF SigInv
  <2>4. WorkInv' /\ ExitInv' /\ ListInv'
    BY <2>1, <2>2 DEF WorkInv, ExitInv, GroupInv, ListInv
  <2> QED
    BY <2>1, <2>2, <2>3, <2>4, FrameInv
<1>2. CASE Clock
  <2>1. /\ UNCHANGED <<pos, onChain, burned, tx, pc, cur, who, hash, fly, tracked, todo, copies,
                       heard, kept, blind>>
        /\ pc = "idle"
    BY <1>2 DEF Clock, BackoffElapses, WindowElapses, TimePasses
  <2>2. \A j \in Job : /\ row'[j].status = row[j].status
                       /\ row'[j].sig = row[j].sig
                       /\ row'[j].fin = row[j].fin
    BY <1>2 DEF Clock, BackoffElapses, WindowElapses, TimePasses, TypeOK, Row
  <2>3. WorkInv' /\ ExitInv' /\ ChainInv' /\ FinInv'
    BY <2>1, <2>2 DEF WorkInv, ExitInv, ChainInv, FinInv
  <2>4. SigInv'
    BY <2>1, <2>2, SigFrame DEF SigInv
  <2>5. GroupInv' /\ ConfirmedIsSold'
    BY <2>1, <2>2, SoldKeeps DEF GroupInv, ListInv, FinalGroupSettled, ConfirmedIsSold, Group
  <2> QED  BY <2>3, <2>4, <2>5
<1> QED  BY <1>1, <1>2

LEMMA NextInv == Inv /\ [Next]_vars => Inv'
<1> SUFFICES ASSUME Inv, [Next]_vars PROVE Inv'
  OBVIOUS
<1>1. TypeInv'
  BY NextType DEF Inv
<1>2. CASE UNCHANGED vars
  <2>1. TxKeeps /\ SigInv' /\ WorkInv' /\ ExitInv' /\ ListInv'
    BY <1>2 DEF vars, Inv, TxKeeps, SigInv, OwnTx, Mined, WorkInv, ExitInv, GroupInv, ListInv
  <2> QED
    BY <1>1, <1>2, <2>1, FrameInv DEF vars, Inv, ChainInv
<1>3. CASE Next
  BY <1>1, <1>3, NextTxKeeps, JobStepInv, SwapInv, CycleInv, EnvironmentInv DEF Next, Engine
<1> QED  BY <1>2, <1>3

LEMMA Invariance == Spec => []Inv
  BY InitInv, NextInv, PTL DEF Spec

\* Whatever was lost, timed out or crashed, a confirmed job had a swap of its
\* own mined, or was booked at value without one.
THEOREM ConfirmedSold == Spec => []ConfirmedIsSold
<1>1. Inv => ConfirmedIsSold
  BY DEF Inv
<1> QED  BY <1>1, Invariance, PTL

\* A position's PnL is booked only with every job saved for it confirmed and
\* marked, whatever fails: only a phase that could not list the jobs books less.
THEOREM FinalGroup == Spec => []FinalGroupSettled
<1>1. Inv => FinalGroupSettled
  BY DEF Inv, GroupInv
<1> QED  BY <1>1, Invariance, PTL

-------------------------------------------------------------------------------
(* Settlement implements SettlementLedger.                                 *)

\* A step that moves no job from one stage of the ledger to another.
LEMMA LedgerStutter ==
    ASSUME UNCHANGED <<pos, blind>>,
           \A j \in Job : /\ row'[j].fin = row[j].fin
                          /\ \/ row'[j].status = row[j].status
                             \/ row[j].status \in Active /\ row'[j].status \in Active
    PROVE  UNCHANGED Ledger!ledger
<1>1. ledgerJob' = ledgerJob
  BY DEF ledgerJob, Active
<1>2. ledgerPaid' = ledgerPaid
  BY DEF ledgerPaid
<1> QED  BY <1>1, <1>2 DEF Ledger!ledger

\* The end of a job's turn settles what is owed for it, or moves nothing.
LEMMA LedgerTurn ==
    ASSUME Inv, NEW j \in Job, NEW r, row[j].status \in Active, TurnResult(j, r), FinishJob(j, r)
    PROVE  [Ledger!Next]_Ledger!ledger
<1>1. UNCHANGED <<pos, blind>> /\ row'[j] = r /\ \A k \in Job \ {j} : row'[k] = row[k]
  BY DEF Inv, TypeInv, TypeOK, FinishJob
<1>2. CASE r.status \in Active
  BY <1>1, <1>2, LedgerStutter DEF TurnResult
<1>3. ASSUME NEW result \in {"booked", "givenUp"},
             r.status = IF result = "booked" THEN "confirmed" ELSE "terminal"
      PROVE  Ledger!Settle(j, result)
  <2>1. ledgerJob[j] = "owed"
    BY DEF ledgerJob, Active
  <2>2. ledgerJob' = [ledgerJob EXCEPT ![j] = result]
    BY <1>1, <1>3 DEF ledgerJob
  <2>3. ledgerPaid' = ledgerPaid
    BY <1>1 DEF ledgerPaid, TurnResult
  <2> QED  BY <1>1, <2>1, <2>2, <2>3 DEF Ledger!Settle
<1>4. CASE r.status \in {"confirmed", "terminal"}
  <2>1. PICK result \in {"booked", "givenUp"} :
             r.status = IF result = "booked" THEN "confirmed" ELSE "terminal"
    BY <1>4
  <2>2. Ledger!Settle(j, result)
    BY <1>3, <2>1
  <2> QED  BY <2>2 DEF Ledger!Next
<1> QED  BY <1>2, <1>4 DEF TurnResult, Active

\* The jobs a position owes are its group.
LEMMA LedgerGroup == \A p \in Position : Ledger!Jobs(p) = Group(p)
  BY DEF Ledger!Jobs, Group, ledgerJob

LEMMA LedgerInit == Init => Ledger!Init
  BY DEF Init, Ledger!Init, ledgerJob, ledgerPaid, Absent

LEMMA LedgerSweep ==
    ASSUME Inv, StartPhase
    PROVE  Ledger!Next
<1> USE DEF Inv, TypeInv
<1>1. PICK S \in SUBSET Job : StartPhaseWith(S)
  BY StartPhaseStep
<1> USE <1>1 DEF StartPhaseWith
<1>2. \A j \in S : Owner[j] \in Position \ blind => pos[Owner[j]] # "final"
  BY SettlementAssumption DEF GroupInv, FinalGroupSettled, Group
<1>3. \A j \in S : ledgerJob[j] \in {"none", "givenUp"}
  BY DEF ledgerJob
<1>4. ledgerJob' = [j \in Job |-> IF j \in S THEN "owed" ELSE ledgerJob[j]]
  BY DEF ledgerJob
<1>5. ledgerPaid' = ledgerPaid
  BY DEF ledgerPaid
<1>6. Ledger!Owe(S)
  BY <1>2, <1>3, <1>4, <1>5 DEF Ledger!Owe
<1> QED  BY <1>6 DEF Ledger!Next

LEMMA LedgerRecord ==
    ASSUME Inv, NEW j \in Job, RecordJob(j)
    PROVE  Ledger!Next
<1>1. /\ row' = [row EXCEPT ![j] = Fresh] /\ UNCHANGED <<pos, blind>>
      /\ row[j].status = "absent" /\ ~ row[j].fin
      /\ Owner[j] = who /\ pos[who] = "open"
  BY DEF RecordJob, Inv, ExitInv, FinInv
<1>2. ledgerJob' = [k \in Job |-> IF k \in {j} THEN "owed" ELSE ledgerJob[k]]
  BY <1>1 DEF Inv, TypeInv, TypeOK, ledgerJob, Fresh
<1>3. ledgerPaid' = ledgerPaid
  BY <1>1 DEF Inv, TypeInv, TypeOK, ledgerPaid, Fresh
<1>4. Ledger!Owe({j})
  BY <1>1, <1>2, <1>3 DEF Ledger!Owe, ledgerJob
<1> QED  BY <1>4 DEF Ledger!Next

LEMMA LedgerFinalize ==
    ASSUME Inv, NEW p \in Position, Finalize(p)
    PROVE  Ledger!Next
<1>1. Listed(p) # {} /\ Listed(p) \subseteq Group(p)
  BY DEF Finalize, Complete, Listed
<1>2. /\ pos[p] # "deleted" /\ pos' = [pos EXCEPT ![p] = "final"]
      /\ \A j \in Listed(p) : row[j].status = "confirmed"
      /\ \A j \in Job : /\ row'[j].status = row[j].status
                        /\ row'[j].fin <=> row[j].fin \/ j \in Listed(p)
  <2>1. pos' = [pos EXCEPT ![p] = "final"]
    BY DEF Finalize, Rows, Inv, TypeInv, TypeOK
  <2>2. pos[p] # "deleted" /\ \A j \in Listed(p) : row[j].status = "confirmed"
    BY DEF Finalize, Complete
  <2>3. ASSUME NEW j \in Job
        PROVE  row'[j].status = row[j].status /\ (row'[j].fin <=> row[j].fin \/ j \in Listed(p))
    <3>1. row'[j] = IF j \in Listed(p) THEN [row[j] EXCEPT !.fin = TRUE] ELSE row[j]
      BY DEF Finalize
    <3>2. row[j] \in Row
      BY DEF Inv, TypeInv, TypeOK
    <3> QED  BY <3>1, <3>2 DEF Row
  <2> QED
    BY <2>1, <2>2, <2>3
<1>3. ledgerJob' = ledgerJob
  BY <1>2 DEF ledgerJob
<1>4. ledgerPaid' = ledgerPaid \cup Listed(p)
  BY <1>2 DEF ledgerPaid, Listed, Group
<1>5. \A j \in Listed(p) : ledgerJob[j] = "booked"
  BY <1>1, <1>2 DEF ledgerJob, Group
<1>6. Ledger!BookWith(p, Listed(p))
  BY <1>1, <1>2, <1>3, <1>4, <1>5 DEF Ledger!BookWith
<1>7. CASE heard = Job
  <2>1. Listed(p) = Ledger!Jobs(p)
    BY <1>7, WholeGroup, LedgerGroup
  <2>2. blind' = blind \ {p}
    BY <1>7 DEF Finalize, Blind
  <2>3. Ledger!BookPosition(p)
    BY <1>6, <2>1, <2>2 DEF Ledger!BookPosition
  <2> QED  BY <2>3 DEF Ledger!Next
<1>8. CASE heard # Job
  <2>1. Listed(p) \in SUBSET Ledger!Jobs(p)
    BY <1>1, LedgerGroup
  <2>2. blind' = blind \cup {p}
    BY <1>8 DEF Finalize, Blind
  <2>3. Ledger!BookPartly(p)
    BY <1>6, <2>1, <2>2 DEF Ledger!BookPartly
  <2> QED  BY <2>3 DEF Ledger!Next
<1> QED  BY <1>7, <1>8

\* Every other write of position rows books nothing.
LEMMA LedgerRows ==
    ASSUME Inv,
           \/ Reconcile \/ ClosePosition
           \/ \E p \in Position : SaveTracked(p) \/ Exit(p) \/ ProbedExit(p)
    PROVE  [Ledger!Next]_Ledger!ledger
<1> USE DEF Inv, TypeInv, TypeOK
<1>1. UNCHANGED <<ledgerJob, ledgerPaid, blind>>
  BY DEF Reconcile, ClosePosition, SaveTracked, Exit, ProbedExit, ledgerJob, ledgerPaid
<1>2. ASSUME NEW P \in SUBSET Position, NEW Q \in SUBSET Position, NEW to \in {"open", "closed"},
             pos' = [p \in Position |->
                        IF p \in P THEN "deleted" ELSE IF p \in Q THEN to ELSE pos[p]]
      PROVE  Ledger!Next
  <2>1. Ledger!WriteRows(P, Q, to)
    BY <1>1, <1>2 DEF Ledger!WriteRows
  <2> QED  BY <2>1 DEF Ledger!Next
<1>3. ASSUME NEW p \in Position, NEW to \in {"open", "closed"}, pos' = Rows({p}, to)
      PROVE  Ledger!Next
  <2>1. pos' = [q \in Position |->
                   IF q \in {} THEN "deleted" ELSE IF q \in {p} THEN to ELSE pos[q]]
    BY <1>3 DEF Rows
  <2>2. {} \in SUBSET Position /\ {p} \in SUBSET Position
    OBVIOUS
  <2> QED  BY <1>2, <2>1, <2>2, Zenon
<1>4. CASE Reconcile
  <2>1. CASE UNCHANGED pos
    BY <1>1, <2>1 DEF Ledger!ledger
  <2>2. ASSUME NEW found \in SUBSET (onChain \ tracked),
               pos' = [p \in Position |-> CASE p \in tracked \ onChain -> "deleted"
                                            [] p \in found -> "open"
                                            [] OTHER -> pos[p]]
        PROVE  Ledger!Next
    <3>1. pos' = [p \in Position |->
                     IF p \in tracked \ onChain THEN "deleted"
                     ELSE IF p \in found THEN "open" ELSE pos[p]]
      BY <2>2
    <3>2. tracked \ onChain \in SUBSET Position /\ found \in SUBSET Position
      OBVIOUS
    <3> QED  BY <1>2, <3>1, <3>2
  <2> QED  BY <1>4, <2>1, <2>2 DEF Reconcile
<1>5. CASE ClosePosition
  <2>1. who \in Position /\ pos' = Rows({who}, "closed")
    BY <1>5 DEF ClosePosition, ExitInv
  <2> QED  BY <1>3, <2>1
<1>6. ASSUME NEW p \in Position, SaveTracked(p) \/ Exit(p) \/ ProbedExit(p)
      PROVE  Ledger!Next
  <2>1. pos' = Rows({p}, "open") \/ pos' = Rows({p}, "closed")
    BY <1>6 DEF SaveTracked, Exit, ProbedExit
  <2> QED  BY <1>3, <2>1
<1> QED  BY <1>4, <1>5, <1>6

LEMMA LedgerJobStep ==
    ASSUME Inv, TxKeeps, NEW j \in Job, JobStep(j)
    PROVE  [Ledger!Next]_Ledger!ledger
<1> USE DEF Inv, TypeInv
<1>1. row[j] \in Row /\ (Working(j) => row[j].status \in Active)
  BY DEF TypeOK, WorkInv, Working
<1>2. CASE ProbeConfirmed(j)
  <2>1. PICK r \in {ConfirmedJob(row[j]), ReconciliationJob(row[j])} : FinishJob(j, r)
    BY <1>2 DEF ProbeConfirmed
  <2>2. Sold(j)'
    BY <1>2, SoldKeeps DEF ProbeConfirmed, SigInv, OwnTx, Sold, TypeOK, Row
  <2>3. TurnResult(j, r)
    BY <1>1, <2>1, <2>2, RowUpdates DEF TurnResult
  <2> QED  BY <1>1, <1>2, <2>1, <2>3, LedgerTurn DEF ProbeConfirmed
<1>3. CASE ProbeNotFound(j) \/ RefuseUnresolved(j) \/ QuoteFails(j) \/ BookUnsold(j)
  <2>1. PICK r \in {NotFoundJob(row[j]), ConfirmedJob(row[j])}
                      \cup {RetryableJob(row[j], kind) : kind \in ErrorKind} :
             FinishJob(j, r) /\ (r.status = "confirmed" => j \in kept')
    BY <1>1, <1>3, RowUpdates
       DEF ProbeNotFound, RefuseUnresolved, QuoteFails, BookUnsold, ErrorKind
  <2>2. TurnResult(j, r)
    <3>1. CASE r = NotFoundJob(row[j])
      BY <1>1, <3>1, RowUpdates DEF TurnResult
    <3>2. CASE r = ConfirmedJob(row[j])
      BY <1>1, <2>1, <3>2, RowUpdates DEF TurnResult
    <3>3. CASE r \in {RetryableJob(row[j], kind) : kind \in ErrorKind}
      BY <1>1, <3>3, RowUpdates DEF TurnResult
    <3> QED  BY <2>1, <3>1, <3>2, <3>3
  <2>3. row[j].status \in Active
    BY <1>1, <1>3 DEF ProbeNotFound, RefuseUnresolved, QuoteFails, BookUnsold
  <2> QED
    BY <2>1, <2>2, <2>3, LedgerTurn
<1>4. CASE SavePrepared(j)
  <2>1. row' = [row EXCEPT ![j].status = "prepared"] /\ UNCHANGED <<pos, blind>> /\ row[j].status \in Active
    BY <1>1, <1>4 DEF SavePrepared
  <2> QED
    BY <1>1, <2>1, LedgerStutter DEF TypeOK, Row, Active
<1>5. CASE RecordJob(j)
  BY <1>5, LedgerRecord
<1> QED  BY <1>2, <1>3, <1>4, <1>5 DEF JobStep

LEMMA LedgerSwap ==
    ASSUME Inv, TxKeeps, SwapNotSent \/ SendFails \/ RecordSignature \/ ConfirmSold \/ ReconcileSold
    PROVE  [Ledger!Next]_Ledger!ledger
<1> USE DEF Inv, TypeInv
<1>1. PICK j \in Job : j = cur
  BY DEF CurInv, SwapNotSent, SendFails, RecordSignature, ConfirmSold, ReconcileSold
<1>2. row[j] \in Row /\ row[j].status \in Active
  BY <1>1 DEF TypeOK, WorkInv, SwapNotSent, SendFails, RecordSignature, ConfirmSold, ReconcileSold
<1>3. CASE SwapNotSent \/ SendFails
  <2>1. PICK kind \in ErrorKind : FinishJob(j, RetryableJob(row[j], kind))
    BY <1>1, <1>3 DEF SwapNotSent, SendFails, ErrorKind
  <2>2. TurnResult(j, RetryableJob(row[j], kind))
    BY <1>2, RowUpdates DEF TurnResult
  <2> QED  BY <1>2, <2>1, <2>2, LedgerTurn
<1>4. CASE ConfirmSold \/ ReconcileSold
  <2>1. PICK r \in {ConfirmedJob(row[j]), ReconciliationJob(row[j])} : FinishJob(j, r)
    BY <1>1, <1>4 DEF ConfirmSold, ReconcileSold
  <2>2. Sold(j)
    BY <1>1, <1>4 DEF ConfirmSold, ReconcileSold, SigInv, CurInv, OwnTx, Mined, Sold
  <2>3. TurnResult(j, r)
    BY <1>2, <2>1, <2>2, SoldKeeps, RowUpdates DEF TurnResult
  <2> QED  BY <1>2, <2>1, <2>3, LedgerTurn
<1>5. CASE RecordSignature
  <2>1. /\ UNCHANGED <<pos, blind>>
        /\ \A k \in Job \ {j} : row'[k] = row[k]
        /\ row'[j].status = "submitted" /\ row'[j].fin = row[j].fin
    BY <1>1, <1>2, <1>5 DEF RecordSignature, TypeOK, Row
  <2> QED  BY <1>2, <2>1, LedgerStutter DEF Active
<1> QED  BY <1>3, <1>4, <1>5

\* Every step either takes one step of the ledger or leaves it alone.
LEMMA LedgerStep == Inv /\ [Next]_vars => [Ledger!Next]_Ledger!ledger
<1> SUFFICES ASSUME Inv, [Next]_vars PROVE [Ledger!Next]_Ledger!ledger
  OBVIOUS
<1>1. CASE UNCHANGED <<row, pos, blind>>
  BY <1>1, LedgerStutter
<1>2. CASE Clock
  <2>1. /\ UNCHANGED <<pos, blind>>
        /\ \A j \in Job : row'[j].status = row[j].status /\ row'[j].fin = row[j].fin
    BY <1>2, SMTT(30) DEF Clock, BackoffElapses, WindowElapses, TimePasses, Inv, TypeInv,
       TypeOK, Row
  <2> QED  BY <2>1, LedgerStutter
<1>3. ASSUME \/ FinishWork \/ EndPhase \/ EndCycle \/ Crash \/ Chain
             \/ \E t \in Tx : Broadcast(t) \/ Rebroadcast(t)
      PROVE  UNCHANGED <<row, pos, blind>>
  BY <1>3 DEF FinishWork, EndPhase, EndCycle, Crash, Chain, Mine, Revert, Drop, OwnerMoves,
              TxMoves, Broadcast, Rebroadcast
<1>4. ASSUME NEW j \in Job, JobStep(j) PROVE [Ledger!Next]_Ledger!ledger
  BY <1>4, LedgerJobStep, NextTxKeeps DEF Next, Engine
<1>5. CASE SwapNotSent \/ SendFails \/ RecordSignature \/ ConfirmSold \/ ReconcileSold
  BY <1>5, LedgerSwap, NextTxKeeps DEF Next, Engine
<1>6. CASE \/ StartPhase \/ Reconcile \/ ClosePosition
           \/ \E p \in Position : Finalize(p) \/ SaveTracked(p) \/ Exit(p) \/ ProbedExit(p)
  BY <1>6, LedgerSweep, LedgerRows, LedgerFinalize
<1>7. CASE UNCHANGED vars
  BY <1>1, <1>7 DEF vars
<1> QED
  BY <1>1, <1>2, <1>3, <1>4, <1>5, <1>6, <1>7 DEF Next, Engine

\* The settlement keeps the promises of SettlementLedger: every one of its
\* behaviours, read through ledgerJob and ledgerPaid, is one of the ledger's.
THEOREM SettlementRefinesLedger == Spec => ImplementsLedger
<1>1. Spec => Ledger!Spec
  BY LedgerInit, LedgerStep, Invariance, PTL DEF Spec, Ledger!Spec
<1> QED  BY <1>1 DEF ImplementsLedger

-----------------------------------------------------------------------------
(* What no step may do                                                     *)

\* A job that does not exist has no signature.
AbsentInv == \A j \in Job : row[j].status = "absent" => row[j].sig = NoTx

\* From the moment a sale is prepared until its signature is recorded, the job has
\* no recorded sale that may land.
SellInv == pc \in {"swap", "wait"} => ~ MayLand(cur)

StepsInv == Inv /\ AbsentInv /\ SellInv

-------------------------------------------------------------------------------
(* What a step may do to a row.                                            *)

RowChange(j) ==
    \/ row'[j] = row[j]
    \/ /\ row[j].status \in Active \cup {"terminal"}
       /\ row'[j].status # "absent" /\ row'[j].sig = row[j].sig
    \/ row[j].status = "absent" /\ row'[j].sig = NoTx
    \/ row[j].status = "confirmed" /\ row'[j] = [row[j] EXCEPT !.fin = TRUE]
    \/ /\ pc = "wait" /\ j = cur
       /\ row[j].status \in Active /\ row'[j].status # "absent"

\* A rewritten row keeps its signature and exists.
LEMMA Rewrites ==
    ASSUME NEW r \in Row
    PROVE  \A u \in {ReconciliationJob(r), ConfirmedJob(r), NotFoundJob(r)}
                        \cup {RetryableJob(r, kind) : kind \in ErrorKind} :
              u.status # "absent" /\ u.sig = r.sig
<1>1. \A kind \in ErrorKind :
          RetryableJob(r, kind).status # "absent" /\ RetryableJob(r, kind).sig = r.sig
  BY RowUpdates
<1>2. \A u \in {ReconciliationJob(r), ConfirmedJob(r), NotFoundJob(r)} :
          u.status # "absent" /\ u.sig = r.sig
  BY RowUpdates
<1> QED  BY <1>1, <1>2

\* The end of a job's turn is a change of one active row.
LEMMA FinishChange ==
    ASSUME StepsInv, NEW j \in Job, NEW r, FinishJob(j, r), row[j].status \in Active,
           r.status # "absent", r.sig = row[j].sig
    PROVE  \A k \in Job : RowChange(k)
  BY DEF FinishJob, RowChange, StepsInv, Inv, TypeInv, TypeOK

LEMMA JobStepChange ==
    ASSUME StepsInv, NEW j \in Job, JobStep(j)
    PROVE  \A k \in Job : RowChange(k)
<1> USE DEF StepsInv, Inv, TypeInv
<1>1. row[j] \in Row
  BY DEF TypeOK
<1>2. Working(j) => row[j].status \in Active
  BY DEF WorkInv, Working
<1>3. CASE ProbeConfirmed(j)
  BY <1>1, <1>2, <1>3, Rewrites, FinishChange DEF ProbeConfirmed
<1>4. CASE ProbeNotFound(j)
  BY <1>1, <1>2, <1>4, Rewrites, FinishChange DEF ProbeNotFound
<1>5. CASE RefuseUnresolved(j) \/ QuoteFails(j)
  <2>1. PICK kind \in ErrorKind : Working(j) /\ FinishJob(j, RetryableJob(row[j], kind))
    BY <1>5 DEF RefuseUnresolved, QuoteFails, ErrorKind
  <2> QED
    BY <1>1, <1>2, <2>1, Rewrites, FinishChange
<1>6. CASE BookUnsold(j)
  BY <1>1, <1>2, <1>6, Rewrites, FinishChange DEF BookUnsold
<1>7. CASE SavePrepared(j)
  BY <1>1, <1>2, <1>7 DEF SavePrepared, RowChange, TypeOK, Row
<1>8. CASE RecordJob(j)
  BY <1>8 DEF RecordJob, ExitInv, RowChange, TypeOK, Fresh
<1> QED  BY <1>3, <1>4, <1>5, <1>6, <1>7, <1>8 DEF JobStep

LEMMA NextChange ==
    ASSUME StepsInv, Next
    PROVE  \A k \in Job : RowChange(k)
<1> USE DEF StepsInv, Inv, TypeInv
<1>1. CASE UNCHANGED row
  BY <1>1 DEF RowChange
<1>2. ASSUME NEW j \in Job, JobStep(j) PROVE \A k \in Job : RowChange(k)
  BY <1>2, JobStepChange
<1>3. CASE SwapNotSent \/ SendFails \/ ConfirmSold \/ ReconcileSold
  <2>1. cur \in Job /\ row[cur] \in Row /\ row[cur].status \in Active
    BY <1>3 DEF SwapNotSent, SendFails, ConfirmSold, ReconcileSold, CurInv, WorkInv, TypeOK
  <2>2. PICK r \in {ReconciliationJob(row[cur]), ConfirmedJob(row[cur])}
                      \cup {RetryableJob(row[cur], kind) : kind \in ErrorKind} : FinishJob(cur, r)
    BY <1>3 DEF SwapNotSent, SendFails, ConfirmSold, ReconcileSold, ErrorKind
  <2> QED
    BY <2>1, <2>2, Rewrites, FinishChange
<1>4. CASE RecordSignature
  BY <1>4 DEF RecordSignature, CurInv, WorkInv, RowChange, TypeOK, Row
<1>5. CASE StartPhase
  <2>1. PICK S \in SUBSET Job : /\ row' = Swept(S)
                                /\ \A j \in S : row[j].status \in {"terminal", "absent"}
    BY <1>5 DEF StartPhase, Sweepable, SiglessTerminal
  <2>2. ASSUME NEW k \in Job, k \notin S PROVE row'[k] = row[k]
    BY <2>1, <2>2 DEF Swept
  <2>3. ASSUME NEW k \in Job, k \in S PROVE RowChange(k)
    <3>1. row[k] \in Row /\ row[k].status \in {"terminal", "absent"}
      BY <2>1, <2>3 DEF TypeOK
    <3>2. row'[k] = Enqueued(row[k])
      BY <2>1, <2>3 DEF Swept
    <3>3. row'[k].status = "pending" /\ row'[k].sig = row[k].sig
      BY <3>1, <3>2 DEF Enqueued, Row
    <3> QED BY <3>1, <3>3 DEF RowChange, AbsentInv
  <2> QED
    BY <2>2, <2>3 DEF RowChange
<1>6. ASSUME NEW p \in Position, Finalize(p) PROVE \A k \in Job : RowChange(k)
  BY <1>6 DEF Finalize, Complete, RowChange
<1>7. ASSUME NEW j \in Job, BackoffElapses(j) \/ WindowElapses(j)
      PROVE  \A k \in Job : RowChange(k)
  BY <1>7 DEF BackoffElapses, WindowElapses, TimePasses, RowChange, TypeOK, Row, Active
<1>8. CASE Reconcile \/ FinishWork \/ EndPhase \/ ClosePosition \/ EndCycle \/ Crash
  BY <1>1, <1>8 DEF Reconcile, FinishWork, EndPhase, ClosePosition, EndCycle, Crash
<1>9. ASSUME NEW t \in Tx, Broadcast(t) \/ Rebroadcast(t) \/ Mine(t) \/ Revert(t) \/ Drop(t)
      PROVE  \A k \in Job : RowChange(k)
  BY <1>1, <1>9 DEF Broadcast, Rebroadcast, Mine, Revert, Drop, TxMoves
<1>10. ASSUME NEW p \in Position, SaveTracked(p) \/ Exit(p) \/ ProbedExit(p) \/ OwnerMoves(p)
       PROVE  \A k \in Job : RowChange(k)
  BY <1>1, <1>10 DEF SaveTracked, Exit, ProbedExit, OwnerMoves
<1> QED
  BY <1>2, <1>3, <1>4, <1>5, <1>6, <1>7, <1>8, <1>9, <1>10 DEF Next, Engine, Chain, Clock

-------------------------------------------------------------------------------
(* The invariant.                                                          *)

\* What moves a transaction.
LEMMA TxFrame ==
    ASSUME StepsInv, Next
    PROVE  \/ SwapNotSent
           \/ \E t \in Tx : Broadcast(t) \/ Rebroadcast(t)
           \/ \E t \in Tx : Mine(t) \/ Revert(t) \/ Drop(t)
           \/ UNCHANGED tx
<1>1. ASSUME NEW j \in Job, JobStep(j) \/ BackoffElapses(j) \/ WindowElapses(j)
      PROVE  UNCHANGED tx
  BY <1>1 DEF JobStep, ProbeConfirmed, ProbeNotFound, RefuseUnresolved, QuoteFails, BookUnsold,
              SavePrepared, RecordJob, BackoffElapses, WindowElapses, TimePasses
<1>2. ASSUME \/ Reconcile \/ StartPhase \/ SendFails \/ RecordSignature \/ ConfirmSold
             \/ ReconcileSold \/ FinishWork \/ EndPhase \/ ClosePosition \/ EndCycle \/ Crash
      PROVE  UNCHANGED tx
  BY <1>2 DEF Reconcile, StartPhase, SendFails, RecordSignature, ConfirmSold, ReconcileSold,
              FinishWork, EndPhase, ClosePosition, EndCycle, Crash
<1>3. ASSUME NEW p \in Position,
             SaveTracked(p) \/ Finalize(p) \/ Exit(p) \/ ProbedExit(p) \/ OwnerMoves(p)
      PROVE  UNCHANGED tx
  BY <1>3 DEF SaveTracked, Finalize, Exit, ProbedExit, OwnerMoves
<1> QED  BY <1>1, <1>2, <1>3 DEF Next, Engine, Chain, Clock

\* A transaction that reverted stays reverted.
LEMMA RevertedStays ==
    ASSUME StepsInv, Next, NEW t \in Tx, tx[t].st = "reverted"
    PROVE  tx'[t].st = "reverted"
<1> USE DEF StepsInv, Inv, TypeInv, TypeOK, SentTx, NextTx
<1>1. CASE SwapNotSent
  BY <1>1 DEF SwapNotSent
<1>2. ASSUME NEW u \in Tx, Broadcast(u) PROVE tx'[t].st = "reverted"
  BY <1>2 DEF Broadcast
<1>3. ASSUME NEW u \in Tx, Rebroadcast(u) PROVE tx'[t].st = "reverted"
  <2>1. t # u /\ t # fly
    BY <1>3 DEF Rebroadcast
  <2> QED
    BY <1>3, <2>1 DEF Rebroadcast
<1>4. ASSUME NEW u \in Tx, Mine(u) \/ Revert(u) \/ Drop(u) PROVE tx'[t].st = "reverted"
  BY <1>4 DEF Mine, Revert, Drop, TxMoves
<1> QED  BY <1>1, <1>2, <1>3, <1>4, TxFrame

\* A sale begins with SavePrepared; until its signature is recorded its job and
\* the rows stay as they are.
LEMMA SaleFrame ==
    ASSUME StepsInv, Next, pc' \in {"swap", "wait"}
    PROVE  \/ \E j \in Job : SavePrepared(j)
           \/ pc \in {"swap", "wait"} /\ cur' = cur /\ row' = row
<1>1. ASSUME NEW j \in Job, JobStep(j)
      PROVE  SavePrepared(j) \/ pc' = "work" \/ pc' = "record"
  BY <1>1 DEF JobStep, ProbeConfirmed, ProbeNotFound, RefuseUnresolved, QuoteFails, BookUnsold,
              RecordJob, FinishJob
<1>2. ASSUME NEW t \in Tx, Broadcast(t) \/ Rebroadcast(t) \/ Mine(t) \/ Revert(t) \/ Drop(t)
      PROVE  pc \in {"swap", "wait"} /\ cur' = cur /\ row' = row
  BY <1>2 DEF Broadcast, Rebroadcast, Mine, Revert, Drop, TxMoves
<1>3. ASSUME NEW j \in Job, BackoffElapses(j) \/ WindowElapses(j) PROVE pc' = "idle"
  BY <1>3 DEF BackoffElapses, WindowElapses, TimePasses
<1>4. ASSUME \/ Reconcile \/ StartPhase \/ SwapNotSent \/ SendFails \/ RecordSignature
             \/ ConfirmSold \/ ReconcileSold \/ FinishWork \/ EndPhase \/ ClosePosition
             \/ EndCycle \/ Crash
      PROVE  pc' \notin {"swap", "wait"}
  BY <1>4 DEF Reconcile, StartPhase, SwapNotSent, SendFails, RecordSignature, ConfirmSold,
              ReconcileSold, FinishWork, EndPhase, ClosePosition, EndCycle, Crash, FinishJob
<1>5. ASSUME NEW p \in Position, SaveTracked(p) \/ Finalize(p) \/ Exit(p) \/ ProbedExit(p)
      PROVE  pc' \in {"ready", "decide", "close", "record"}
  BY <1>5 DEF SaveTracked, Finalize, Exit, ProbedExit
<1>6. ASSUME NEW p \in Position, OwnerMoves(p)
      PROVE  pc \in {"swap", "wait"} /\ cur' = cur /\ row' = row
  BY <1>6 DEF OwnerMoves
<1> QED  BY <1>1, <1>2, <1>3, <1>4, <1>5, <1>6 DEF Next, Engine, Chain, Clock

LEMMA InitSteps == Init => StepsInv
  BY InitInv DEF Init, StepsInv, AbsentInv, SellInv, Absent

LEMMA NextSteps == StepsInv /\ [Next]_vars => StepsInv'
<1> SUFFICES ASSUME StepsInv, [Next]_vars PROVE StepsInv'
  OBVIOUS
<1>1. Inv'
  BY NextInv DEF StepsInv
<1>2. CASE UNCHANGED vars
  BY <1>1, <1>2 DEF vars, StepsInv, AbsentInv, SellInv, MayLand
<1>3. CASE Next
  <2>1. AbsentInv'
    <3>1. SUFFICES ASSUME NEW j \in Job, row'[j].status = "absent" PROVE row'[j].sig = NoTx
      BY DEF AbsentInv
    <3>2. row[j] \in Row
      BY DEF StepsInv, Inv, TypeInv, TypeOK
    <3>3. RowChange(j)
      BY <1>3, NextChange
    <3> QED
      BY <3>1, <3>2, <3>3 DEF RowChange, StepsInv, AbsentInv, Row
  <2>2. SellInv'
    <3>1. SUFFICES ASSUME pc' \in {"swap", "wait"}, MayLand(cur)' PROVE FALSE
      BY DEF SellInv
    <3>2. ~ MayLand(cur') /\ cur' \in Job /\ row'[cur'].sig = row[cur'].sig
      <4>1. CASE pc \in {"swap", "wait"} /\ cur' = cur /\ row' = row
        BY <1>1, <3>1, <4>1 DEF Inv, TypeInv, CurInv, StepsInv, SellInv
      <4>2. ASSUME NEW j \in Job, SavePrepared(j)
            PROVE  ~ MayLand(cur') /\ cur' \in Job /\ row'[cur'].sig = row[cur'].sig
        BY <4>2 DEF SavePrepared, CanSell, MayLand, StepsInv, Inv, TypeInv, TypeOK, Row
      <4> QED
        BY <1>3, <3>1, <4>1, <4>2, SaleFrame
    <3> QED
      BY <1>3, <3>1, <3>2, RevertedStays DEF MayLand, StepsInv, Inv, TypeInv, TypeOK, Row
  <2> QED
    BY <1>1, <2>1, <2>2 DEF StepsInv
<1> QED  BY <1>2, <1>3

LEMMA StepsInvariance == Spec => []StepsInv
  BY InitSteps, NextSteps, PTL DEF Spec

-------------------------------------------------------------------------------
(* The theorems.                                                           *)

\* A recorded signature whose transaction has landed or may still land survives
\* every later write of its row: retries, reconciliations, revivals, restarts.
THEOREM SignatureIsKept == Spec => SignatureKept
<1>1. ASSUME StepsInv, Next, NEW j \in Job, MayLand(j) PROVE row'[j].sig = row[j].sig
  <2>1. RowChange(j) /\ row[j] \in Row
    BY <1>1, NextChange DEF StepsInv, Inv, TypeInv, TypeOK
  <2>2. ~ (pc = "wait" /\ j = cur)
    BY <1>1 DEF StepsInv, SellInv
  <2> QED
    BY <1>1, <2>1, <2>2 DEF RowChange, StepsInv, AbsentInv, MayLand, Row
<1>2. StepsInv /\ [Next]_vars => [\A j \in Job : MayLand(j) => row'[j].sig = row[j].sig]_vars
  BY <1>1
<1> QED  BY <1>2, StepsInvariance, PTL DEF Spec, SignatureKept

\* The engine never broadcasts a swap of a job over a recorded sale that may still
\* land.
THEOREM NoResubmit == Spec => NoBlindResubmit
<1>1. ASSUME StepsInv, Next, NEW t \in Tx, tx[t].st = "unused", tx'[t].st # "unused"
      PROVE  ~ MayLand(tx'[t].job)
  <2> USE DEF StepsInv, Inv, TypeInv, TypeOK
  <2>1. SUFFICES tx'[t].job = cur /\ pc \in {"swap", "wait"}
    BY <1>1 DEF SellInv, MayLand
  <2>2. CASE SwapNotSent
    BY <1>1, <2>2 DEF SwapNotSent, SentTx
  <2>3. ASSUME NEW u \in Tx, Broadcast(u) PROVE tx'[t].job = cur /\ pc \in {"swap", "wait"}
    <3>1. PICK event \in Events : tx' = SentTx(u, cur, event)
      BY <2>3 DEF Broadcast
    <3> QED
      BY <1>1, <2>3, <3>1 DEF Broadcast, SentTx
  <2>4. ASSUME NEW u \in Tx, Rebroadcast(u) PROVE tx'[t].job = cur /\ pc \in {"swap", "wait"}
    <3>1. fly \in Tx /\ tx[fly].st # "unused"
      BY <1>1, <2>4 DEF Rebroadcast, CurInv
    <3>2. t = u
      BY <1>1, <2>4, <3>1 DEF Rebroadcast, SentTx
    <3> QED
      BY <2>4, <3>1, <3>2, <1>1 DEF Rebroadcast, SentTx
  <2>5. ASSUME NEW u \in Tx, Mine(u) \/ Revert(u) \/ Drop(u) PROVE FALSE
    BY <1>1, <2>5 DEF Mine, Revert, Drop, TxMoves
  <2> QED
    BY <1>1, <2>2, <2>3, <2>4, <2>5, TxFrame
<1>2. StepsInv /\ [Next]_vars =>
        [\A t \in Tx : tx[t].st = "unused" /\ tx'[t].st # "unused" => ~ MayLand(tx'[t].job)]_vars
  BY <1>1 DEF MayLand, vars
<1> QED  BY <1>2, StepsInvariance, PTL DEF Spec, NoBlindResubmit

\* What was finalized stays as it was booked: a job row whatever follows, and the
\* row of a position once the engine no longer tracks it.
THEOREM FinalStays == Spec => FinalIsForever
<1>1. ASSUME StepsInv, Next, NEW j \in Job, row[j].fin PROVE row'[j] = row[j]
  <2>1. RowChange(j) /\ row[j] \in Row /\ row[j].status = "confirmed"
    BY <1>1, NextChange DEF StepsInv, Inv, TypeInv, TypeOK, FinInv
  <2>2. [row[j] EXCEPT !.fin = TRUE] = row[j]
    BY <1>1, <2>1 DEF Row
  <2> QED
    BY <2>1, <2>2 DEF RowChange, Active
<1>2. ASSUME StepsInv, Next, NEW p \in Position, pos[p] = "final", p \notin tracked
      PROVE  pos'[p] = "final"
  <2> USE <1>2 DEF StepsInv, Inv, TypeInv, TypeOK
  <2>1. CASE Reconcile
    <3>1. p \notin onChain
      BY DEF ChainInv
    <3> QED  BY <2>1, <3>1 DEF Reconcile
  <2>2. CASE ClosePosition
    BY <2>2 DEF ClosePosition, ExitInv, Rows
  <2>3. ASSUME NEW q \in Position, SaveTracked(q) \/ Finalize(q) \/ Exit(q) \/ ProbedExit(q)
        PROVE  pos'[p] = "final"
    BY <2>3 DEF SaveTracked, Finalize, Exit, ProbedExit, Rows
  <2>4. CASE UNCHANGED pos
    BY <2>4
  <2>5. ASSUME NEW j \in Job, JobStep(j) \/ BackoffElapses(j) \/ WindowElapses(j)
        PROVE  UNCHANGED pos
    BY <2>5 DEF JobStep, ProbeConfirmed, ProbeNotFound, RefuseUnresolved, QuoteFails, BookUnsold,
                SavePrepared, RecordJob, BackoffElapses, WindowElapses, TimePasses, FinishJob
  <2>6. ASSUME \/ StartPhase \/ SwapNotSent \/ SendFails \/ RecordSignature \/ ConfirmSold
               \/ ReconcileSold \/ FinishWork \/ EndPhase \/ EndCycle \/ Crash
        PROVE  UNCHANGED pos
    BY <2>6 DEF StartPhase, SwapNotSent, SendFails, RecordSignature, ConfirmSold, ReconcileSold,
                FinishWork, EndPhase, EndCycle, Crash, FinishJob
  <2>7. ASSUME NEW t \in Tx, Broadcast(t) \/ Rebroadcast(t) \/ Mine(t) \/ Revert(t) \/ Drop(t)
        PROVE  UNCHANGED pos
    BY <2>7 DEF Broadcast, Rebroadcast, Mine, Revert, Drop, TxMoves
  <2>8. ASSUME NEW q \in Position, OwnerMoves(q) PROVE UNCHANGED pos
    BY <2>8 DEF OwnerMoves
  <2> QED
    BY <2>1, <2>2, <2>3, <2>4, <2>5, <2>6, <2>7, <2>8 DEF Next, Engine, Chain, Clock
<1>3. StepsInv /\ [Next]_vars =>
        [/\ \A j \in Job : row[j].fin => row'[j] = row[j]
         /\ \A p \in Position : pos[p] = "final" /\ p \notin tracked => pos'[p] = "final"]_vars
  BY <1>1, <1>2
<1> QED  BY <1>3, StepsInvariance, PTL DEF Spec, FinalIsForever
=============================================================================
