-------------------------- MODULE SafetyPauseProofs --------------------------
(***************************************************************************)
(* Proofs about SafetyPause for any number of settlement jobs, pools,      *)
(* failures and restarts: type correctness, that the pause the engine acts *)
(* on is in the database, and that a breach found at the end of a cycle    *)
(* still pauses the next one.                                              *)
(***************************************************************************)
EXTENDS SafetyPause, TLAPS

-------------------------------------------------------------------------------
(* Type correctness.  The invariant says two things TypeOK does not: the   *)
(* counter of failed executions never exceeds the faults (the bound of the *)
(* model), and a pool is left to scan while one is scanned.                *)

Places == {"idle", "phase", "reload", "top", "pools", "decide", "redeploy", "end"}

Records ==
    /\ db \in Pause /\ mem \in Pause /\ cli \in Pause
    /\ jobs \in [Job -> JobState]
    /\ pc \in Places
    /\ mode \in Modes

Flags ==
    /\ newDay \in BOOLEAN /\ cycleFails \in BOOLEAN /\ allFailed \in BOOLEAN
    /\ drawdown \in BOOLEAN /\ overdue \in BOOLEAN
    /\ lifted \in BOOLEAN /\ resumed \in BOOLEAN

Numbers ==
    /\ execFails \in Nat /\ faults \in Nat
    /\ execFails <= faults /\ faults <= MaxFaults
    /\ coreFails \in 0 .. 2
    /\ left \in 0 .. Pools
    /\ pc \in {"pools", "decide"} => left > 0

TypeInv == Records /\ Flags /\ Numbers

LEMMA TypeInvImplies == TypeInv => TypeOK
<1> SUFFICES ASSUME TypeInv PROVE TypeOK  OBVIOUS
<1>1. {newDay, cycleFails, allFailed, drawdown, overdue, lifted, resumed} \subseteq BOOLEAN
  BY Zenon DEF TypeInv, Flags
<1>2. execFails \in 0 .. MaxFaults /\ faults \in 0 .. MaxFaults
  BY SafetyPauseAssumption DEF TypeInv, Numbers
<1> QED  BY <1>1, <1>2 DEF TypeInv, Records, Numbers, Places, TypeOK

LEMMA ReasonType == \A r \in Reason : Armed(r) \in Pause
  BY DEF Armed, Pause

LEMMA LiftType == \A p \in Pause : Lift(p) \in Pause
  BY DEF Lift, Pause

LEMMA NoPauseType == NoPause \in Pause
  BY DEF NoPause, Pause

\* A saved pause stays a pause in memory and in the row.
LEMMA SaveType ==
    ASSUME Records, Flags, NEW p \in Pause, Save(p)
    PROVE  mem' \in Pause /\ db' \in Pause /\ lifted' \in BOOLEAN
<1>1. mem.active \in BOOLEAN /\ p.active \in BOOLEAN
  BY DEF Records, Pause
<1> QED  BY <1>1 DEF Records, Flags, Save

LEMMA StepFaults ==
    ASSUME Numbers, Fault \/ NoFault
    PROVE  /\ faults' \in Nat /\ faults' <= MaxFaults /\ faults <= faults'
           /\ Fault => faults' = faults + 1
  BY SafetyPauseAssumption DEF Numbers, Fault, NoFault

LEMMA PausedType ==
    ASSUME Records, NEW b \in BOOLEAN, NEW r \in BOOLEAN
    PROVE  PausedAtTop \in Pause /\ PausedInPool(b, r) \in Pause /\ PausedByPhase(b, r) \in Pause
  BY ReasonType, LiftType
  DEF PausedAtTop, PausedInPool, ResolvedInPool, PausedByPhase, Reason, Records

LEMMA InitType == Init => TypeInv
<1> SUFFICES ASSUME Init PROVE TypeInv  OBVIOUS
<1>1. Records
  BY NoPauseType DEF Init, NoJob, JobState, Records, Places
<1>2. Flags
  BY Zenon DEF Init, Flags
<1>3. Numbers
  BY SafetyPauseAssumption DEF Init, Numbers
<1> QED  BY <1>1, <1>2, <1>3 DEF TypeInv

\* The settlement phase.
LEMMA PhaseType ==
    ASSUME TypeInv, NEW seen, NEW R, NEW next, SettlementPhase(seen, R, next), Fault \/ NoFault
    PROVE  TypeInv'
<1> USE DEF TypeInv
<1>1. PausedByPhase(overdue', \A j \in seen : ~ Open(next[j])) \in Pause
  BY PausedType DEF SettlementPhase
<1>2. mem' \in Pause /\ db' \in Pause /\ lifted' \in BOOLEAN
  BY <1>1, SaveType DEF SettlementPhase
<1>3. Records'
  BY <1>2 DEF SettlementPhase, Records, Places
<1>4. Flags'
  <2>1. overdue' \in BOOLEAN
    BY DEF SettlementPhase
  <2> QED  BY <1>2, <2>1 DEF SettlementPhase, Flags, counters
<1>5. Numbers'
  BY StepFaults DEF SettlementPhase, Numbers, counters
<1> QED  BY <1>3, <1>4, <1>5

LEMMA ReloadType ==
    ASSUME TypeInv, Reload
    PROVE  TypeInv'
<1> USE DEF TypeInv
<1>1. Fault \/ NoFault
  BY DEF Reload
<1>2. Records'
  BY DEF Reload, Records, Places
<1>3. Flags'
  <2>1. mem.active \in BOOLEAN /\ mem'.active \in BOOLEAN
    BY <1>2 DEF Records, Pause
  <2>2. lifted' \in BOOLEAN
    BY <2>1 DEF Reload, Flags
  <2> QED  BY <2>2 DEF Reload, Flags, counters, scanVars
<1>4. Numbers'
  BY <1>1, StepFaults DEF Reload, Numbers, counters, scanVars
<1> QED  BY <1>2, <1>3, <1>4

\* The top of the pool loop.
LEMMA TopType ==
    ASSUME TypeInv, NoPools \/ StartPools
    PROVE  TypeInv'
<1> USE DEF TypeInv
<1>1. mem' \in Pause /\ db' \in Pause /\ lifted' \in BOOLEAN
  BY PausedType, SaveType DEF NoPools, StartPools
<1>2. Records'
  BY <1>1 DEF NoPools, StartPools, Records, Places
<1>3. Flags'
  BY <1>1 DEF NoPools, StartPools, Flags, scanVars
<1>4. Numbers'
  BY SafetyPauseAssumption DEF NoPools, StartPools, NoFault, Numbers, scanVars
<1> QED  BY <1>2, <1>3, <1>4

\* The loop over the pools.
LEMMA PoolType ==
    ASSUME TypeInv, PoolFails \/ PoolRejected \/ PoolDecided
    PROVE  TypeInv'
<1> USE DEF TypeInv
<1>1. PICK failed \in BOOLEAN : PoolDone(failed)
  BY DEF PoolFails, PoolRejected, PoolDecided
<1>2. (Fault \/ NoFault) /\ pc \in {"pools", "decide"}
  BY DEF PoolFails, PoolRejected, PoolDecided
<1>3. Records'
  BY <1>1 DEF PoolDone, Records, Places
<1>4. Flags'
  <2>1. allFailed' \in BOOLEAN
    BY <1>1 DEF PoolDone, Flags
  <2> QED  BY <1>1, <2>1 DEF PoolDone, Flags, counters
<1>5. Numbers'
  BY <1>1, <1>2, StepFaults, SafetyPauseAssumption DEF PoolDone, Numbers, counters
<1> QED  BY <1>3, <1>4, <1>5

LEMMA EvaluateType ==
    ASSUME TypeInv, EvaluatePool
    PROVE  TypeInv'
<1> USE DEF TypeInv
<1>1. PICK breached \in BOOLEAN :
         /\ drawdown' = breached
         /\ Save(PausedInPool(breached, newDay))
         /\ Fault \/ NoFault
  BY DEF EvaluatePool
<1>2. PausedInPool(breached, newDay) \in Pause
  BY PausedType DEF Flags
<1>3. mem' \in Pause /\ db' \in Pause /\ lifted' \in BOOLEAN
  BY <1>1, <1>2, SaveType
<1>4. Records'
  BY <1>3 DEF EvaluatePool, Records, Places
<1>5. Flags'
  BY <1>1, <1>3 DEF EvaluatePool, Flags, scanVars
<1>6. Numbers'
  BY <1>1, StepFaults DEF EvaluatePool, Numbers, scanVars
<1> QED  BY <1>4, <1>5, <1>6

\* The outcome of an exit, an entry or a redeployment.
LEMMA OutcomeType ==
    ASSUME TypeInv, NEW executed \in BOOLEAN, Outcome(executed),
           jobs' \in [Job -> JobState], pc' = pc \/ pc' = "end"
    PROVE  TypeInv'
<1> USE DEF TypeInv
<1>1. Records'
  BY DEF Outcome, Records, Places
<1>2. Flags'
  <2>1. cycleFails' \in BOOLEAN
    BY DEF Outcome, Flags
  <2> QED  BY <2>1 DEF Outcome, Flags, scanVars
<1>3. Numbers'
  <2>1. Fault \/ NoFault
    BY DEF Outcome
  <2>2. execFails' \in Nat /\ execFails' <= faults'
    BY <2>1, StepFaults DEF Outcome, Numbers
  <2> QED  BY <2>1, <2>2, StepFaults DEF Outcome, Numbers, scanVars
<1> QED  BY <1>1, <1>2, <1>3

LEMMA ExecuteType ==
    ASSUME TypeInv, NEW executed \in BOOLEAN,
           ExecuteExit(executed) \/ ExecuteOpen(executed) \/ Redeploy(executed)
    PROVE  TypeInv'
<1>1. Outcome(executed) /\ (pc' = pc \/ pc' = "end")
  BY DEF ExecuteExit, ExecuteOpen, Redeploy
<1>2. jobs' \in [Job -> JobState]
  <2>1. jobs \in [Job -> JobState] /\ FreshJob \in JobState
    BY DEF TypeInv, Records, FreshJob, JobState
  <2>2. jobs' = jobs \/ \E j \in Job : jobs' = [jobs EXCEPT ![j] = FreshJob]
    BY DEF ExecuteExit, ExecuteOpen, Redeploy
  <2> QED  BY <2>1, <2>2
<1> QED  BY <1>1, <1>2, OutcomeType

LEMMA EndType ==
    ASSUME TypeInv, EndCycle
    PROVE  TypeInv'
<1> USE DEF TypeInv
<1>1. mem' \in Pause
  <2>1. \A core, exec : Trigger(core, exec) # "none" => Armed(Trigger(core, exec)) \in Pause
    BY ReasonType DEF Trigger, Reason
  <2> QED  BY <2>1 DEF EndCycle, Records
<1>2. Records'
  BY <1>1 DEF EndCycle, Records, Places
<1>3. Flags'
  BY DEF EndCycle, Flags, scanVars
<1>4. Numbers'
  BY DEF EndCycle, Decayed, NoFault, Numbers, scanVars
<1> QED  BY <1>2, <1>3, <1>4

\* The steps that leave the pause of the engine alone.
LEMMA QuietType ==
    ASSUME TypeInv, StartCycle \/ NoRedeploy \/ Midnight \/ ResumeReads \/ ResumeWrites
    PROVE  TypeInv'
<1> USE DEF TypeInv
<1>1. Records'
  BY LiftType, NoPauseType
  DEF StartCycle, NoRedeploy, Midnight, ResumeReads, ResumeWrites, Records, Places
<1>2. Flags'
  BY DEF StartCycle, NoRedeploy, Midnight, ResumeReads, ResumeWrites, Flags, counters, scanVars
<1>3. Numbers'
  BY DEF StartCycle, NoRedeploy, Midnight, ResumeReads, ResumeWrites, NoFault, Numbers,
         counters, scanVars
<1> QED  BY <1>1, <1>2, <1>3

LEMMA RestartType ==
    ASSUME TypeInv, Restart
    PROVE  TypeInv'
<1> USE DEF TypeInv
<1>1. Records'
  BY NoPauseType DEF Restart, Records, Places
<1>2. Flags'
  BY DEF Restart, Flags
<1>3. Numbers'
  BY StepFaults, SafetyPauseAssumption DEF Restart, Numbers
<1> QED  BY <1>1, <1>2, <1>3

LEMMA ClockType ==
    ASSUME TypeInv, NEW j \in Job, Clock(j)
    PROVE  TypeInv'
<1> USE DEF TypeInv
<1>1. jobs' \in [Job -> JobState]
  BY DEF Clock, Records, JobState
<1>2. Records'
  BY <1>1 DEF Clock, Records
<1>3. Flags'
  BY DEF Clock, Flags, counters, scanVars
<1>4. Numbers'
  BY DEF Clock, NoFault, Numbers, counters, scanVars
<1> QED  BY <1>2, <1>3, <1>4

LEMMA StutterType ==
    ASSUME TypeInv, UNCHANGED vars
    PROVE  TypeInv'
  BY DEF vars, counters, scanVars, TypeInv, Records, Flags, Numbers

LEMMA NextType == TypeInv /\ [Next]_vars => TypeInv'
<1> SUFFICES ASSUME TypeInv, [Next]_vars PROVE TypeInv'  OBVIOUS
<1>1. CASE ListedPhase \/ UnlistedPhase
  <2>1. \E seen, R, next : SettlementPhase(seen, R, next) /\ (Fault \/ NoFault)
    BY <1>1 DEF ListedPhase, UnlistedPhase
  <2> QED  BY <2>1, PhaseType
<1>2. CASE \E executed \in BOOLEAN :
              ExecuteExit(executed) \/ ExecuteOpen(executed) \/ Redeploy(executed)
  BY <1>2, ExecuteType
<1>3. CASE \E j \in Job : Clock(j)
  BY <1>3, ClockType
<1> QED
  BY <1>1, <1>2, <1>3, ReloadType, TopType, PoolType, EvaluateType, EndType, QuietType,
     RestartType, StutterType
  DEF Next, Engine, Operator

THEOREM TypeInvariant == Spec => []TypeInv
  BY InitType, NextType, PTL DEF Spec

\* Every variable keeps its type: the counters never exceed the failures that
\* happened, and what is in the row, in memory and at the operator is a pause.
THEOREM TypeCorrect == Spec => []TypeOK
  BY TypeInvariant, TypeInvImplies, PTL
-------------------------------------------------------------------------------
(* The latch: every place that changes the pause in memory writes it to    *)
(* the row in the same step, and `beam resume' sets resumed.               *)

LEMMA SaveLatches ==
    ASSUME LatchIsDurable, NEW p, Save(p), UNCHANGED resumed
    PROVE  LatchIsDurable'
  BY DEF LatchIsDurable, Save

LEMMA NextLatch == LatchIsDurable /\ [Next]_vars => LatchIsDurable'
<1> SUFFICES ASSUME LatchIsDurable, [Next]_vars PROVE LatchIsDurable'  OBVIOUS
<1> USE DEF LatchIsDurable
<1>1. CASE \/ ListedPhase \/ UnlistedPhase \/ NoPools \/ StartPools \/ EvaluatePool
  <2>1. (\E p : Save(p)) /\ UNCHANGED resumed
    BY <1>1
    DEF ListedPhase, UnlistedPhase, SettlementPhase, NoPools, StartPools, EvaluatePool
  <2> QED  BY <2>1, SaveLatches
<1>2. CASE Reload
  BY <1>2 DEF Reload
<1>3. CASE EndCycle
  BY <1>3 DEF EndCycle
<1>4. CASE ResumeReads \/ ResumeWrites
  BY <1>4 DEF ResumeReads, ResumeWrites
<1>5. CASE Restart
  BY <1>5 DEF Restart, NoPause
<1>6. CASE StartCycle \/ NoRedeploy \/ Midnight \/ UNCHANGED vars
  BY <1>6 DEF StartCycle, NoRedeploy, Midnight, vars
<1>7. CASE PoolFails \/ PoolRejected \/ PoolDecided
  BY <1>7 DEF PoolFails, PoolRejected, PoolDecided, PoolDone
<1>8. CASE \E executed \in BOOLEAN :
              ExecuteExit(executed) \/ ExecuteOpen(executed) \/ Redeploy(executed)
  BY <1>8 DEF ExecuteExit, ExecuteOpen, Redeploy, Outcome
<1>9. CASE \E j \in Job : Clock(j)
  BY <1>9 DEF Clock
<1> QED
  BY <1>1, <1>2, <1>3, <1>4, <1>5, <1>6, <1>7, <1>8, <1>9 DEF Next, Engine, Operator

\* A pause the engine acts on is in the row too, or the operator has cleared
\* the row since the engine last read it.
THEOREM LatchIsKept == Spec => []LatchIsDurable
<1>1. Init => LatchIsDurable
  BY DEF Init, LatchIsDurable, NoPause
<1> QED  BY <1>1, NextLatch, PTL DEF Spec

-------------------------------------------------------------------------------
(* The breach a cycle ends with.  Between two pool loops the counters do   *)
(* not move, so a pause that was not lifted is still there.                *)

Breached == ExecBreached(execFails) \/ coreFails >= 2

CarriedInv ==
    pc \in {"idle", "phase", "reload", "top"} /\ ~ lifted /\ Breached => mem.active

\* A save either lifts nothing and keeps an active pause, or sets lifted.
LEMMA SaveCarries ==
    ASSUME Flags, Records, NEW p \in Pause, Save(p), ~ lifted'
    PROVE  ~ lifted /\ (mem.active => mem'.active)
<1>1. mem.active \in BOOLEAN /\ p.active \in BOOLEAN
  BY DEF Records, Pause
<1> QED  BY <1>1 DEF Flags, Save

\* The arming at the end of a cycle sees every breach of the counters it
\* leaves.
LEMMA EndCarries ==
    ASSUME TypeInv, EndCycle, Breached'
    PROVE  mem'.active
<1> DEFINE core   == IF ~ allFailed THEN 0 ELSE IF coreFails = 2 THEN 2 ELSE coreFails + 1
           reason == Trigger(core, Decayed)
<1>1. coreFails' = core /\ execFails' = Decayed
      /\ mem' = IF reason # "none" /\ ~ mem.active THEN Armed(reason) ELSE mem
  BY DEF EndCycle
<1>2. core >= 2 \/ ExecBreached(Decayed)
  BY <1>1 DEF Breached, ExecBreached
<1>3. reason # "none"
  BY <1>2 DEF Trigger
<1> QED  BY <1>1, <1>3 DEF Armed

LEMMA NextCarried == TypeInv /\ CarriedInv /\ [Next]_vars => CarriedInv'
<1> SUFFICES ASSUME TypeInv, CarriedInv, [Next]_vars,
                    pc' \in {"idle", "phase", "reload", "top"}, ~ lifted', Breached'
             PROVE  mem'.active
  BY DEF CarriedInv
<1> USE DEF CarriedInv, Breached, ExecBreached
<1>1. CASE ListedPhase \/ UnlistedPhase
  <2>1. PICK seen, R, next : SettlementPhase(seen, R, next)
    BY <1>1 DEF ListedPhase, UnlistedPhase
  <2>2. PausedByPhase(overdue', \A j \in seen : ~ Open(next[j])) \in Pause
    BY <2>1, PausedType DEF SettlementPhase, TypeInv
  <2>3. ~ lifted /\ (mem.active => mem'.active)
    BY <2>1, <2>2, SaveCarries DEF SettlementPhase, TypeInv
  <2> QED  BY <2>1, <2>3 DEF SettlementPhase, counters
<1>2. CASE Reload
  BY <1>2 DEF Reload, counters, TypeInv, Flags
<1>3. CASE NoPools
  <2>1. ~ lifted /\ (mem.active => mem'.active)
    BY <1>3, PausedType, SaveCarries DEF NoPools, TypeInv
  <2>2. coreFails >= 2
    BY <1>3, SafetyPauseAssumption DEF NoPools
  <2> QED  BY <1>3, <2>1, <2>2 DEF NoPools
<1>4. CASE EndCycle
  BY <1>4, EndCarries
<1>5. CASE ResumeReads \/ ResumeWrites \/ Restart
  BY <1>5 DEF ResumeReads, ResumeWrites, Restart, counters
<1>6. CASE StartCycle \/ Midnight \/ UNCHANGED vars
  BY <1>6 DEF StartCycle, Midnight, vars, counters
<1>7. CASE \E j \in Job : Clock(j)
  BY <1>7 DEF Clock, counters
<1>8. CASE StartPools \/ EvaluatePool \/ NoRedeploy
  BY <1>8 DEF StartPools, EvaluatePool, NoRedeploy
<1>9. CASE PoolFails \/ PoolRejected \/ PoolDecided
  BY <1>9 DEF PoolFails, PoolRejected, PoolDecided, PoolDone
<1>10. CASE \E executed \in BOOLEAN :
               ExecuteExit(executed) \/ ExecuteOpen(executed) \/ Redeploy(executed)
  BY <1>10 DEF ExecuteExit, ExecuteOpen, Redeploy
<1> QED
  BY <1>1, <1>2, <1>3, <1>4, <1>5, <1>6, <1>7, <1>8, <1>9, <1>10 DEF Next, Engine, Operator

\* Only the top of the pool loop goes from "top" to "pools".
LEMMA TopCarries ==
    ASSUME TypeInv, CarriedInv, [Next]_vars,
           pc = "top", pc' = "pools", ~ lifted', Breached
    PROVE  mem'.active
<1>1. StartPools
  <2>1. pc' # pc
    OBVIOUS
  <2>2. ~ (ListedPhase \/ UnlistedPhase)
    BY DEF ListedPhase, UnlistedPhase, SettlementPhase
  <2>3. ~ (StartCycle \/ Reload \/ NoPools \/ PoolFails \/ PoolRejected \/ EvaluatePool
           \/ PoolDecided \/ NoRedeploy \/ EndCycle)
    BY DEF StartCycle, Reload, NoPools, PoolFails, PoolRejected, EvaluatePool, PoolDecided,
           NoRedeploy, EndCycle
  <2>4. ~ \E executed \in BOOLEAN :
             ExecuteExit(executed) \/ ExecuteOpen(executed) \/ Redeploy(executed)
    BY DEF ExecuteExit, ExecuteOpen, Redeploy
  <2>5. ~ (Operator \/ Restart \/ Midnight \/ UNCHANGED vars \/ \E j \in Job : Clock(j))
    BY <2>1 DEF Operator, ResumeReads, ResumeWrites, Restart, Midnight, Clock, vars
  <2> QED  BY <2>2, <2>3, <2>4, <2>5 DEF Next, Engine
<1>2. ~ lifted /\ (mem.active => mem'.active)
  BY <1>1, PausedType, SaveCarries DEF StartPools, TypeInv
<1> QED  BY <1>2 DEF CarriedInv

\* Whenever the counters are over their limit when the pools of a cycle are
\* started, and no pause was lifted since the last cycle ended, the pools are
\* decided under a pause.
THEOREM BreachIsCarried == Spec => CarriedBreachPaused
<1>1. Init => CarriedInv
  BY SafetyPauseAssumption DEF Init, CarriedInv, Breached, ExecBreached
<1>2. TypeInv /\ CarriedInv /\ [Next]_vars
      => [pc = "top" /\ pc' = "pools" /\ ~ lifted'
             /\ (ExecBreached(execFails) \/ coreFails >= 2) => mem'.active]_vars
  BY TopCarries DEF Breached
<1> QED
  BY <1>1, <1>2, NextCarried, TypeInvariant, PTL DEF Spec, CarriedBreachPaused

-------------------------------------------------------------------------------
(* No pause comes back without a new failure.                              *)

LEMMA EndArms ==
    ASSUME TypeInv, EndCycle, ~ mem.active, Holds(mem', "execution_failures")
    PROVE  cycleFails
<1>1. \A core, exec : Armed(Trigger(core, exec)).reason = "execution_failures" => ExecBreached(exec)
  BY DEF Armed, Trigger
<1>2. \E core : mem' = Armed(Trigger(core, Decayed))
  BY DEF EndCycle, Holds
<1>3. ExecBreached(Decayed)
  BY <1>1, <1>2 DEF Holds
<1> QED  BY <1>3, SafetyPauseAssumption DEF ExecBreached, Decayed

\* At the end of a cycle only EndCycle, which clears lifted, changes the pause
\* and leaves lifted clear.
LEMMA EndOnly ==
    ASSUME TypeInv, [Next]_vars, pc = "end", ~ lifted', mem' # mem
    PROVE  EndCycle
<1>1. ~ (ListedPhase \/ UnlistedPhase)
  BY DEF ListedPhase, UnlistedPhase, SettlementPhase
<1>2. ~ (StartCycle \/ Reload \/ NoPools \/ StartPools \/ PoolFails \/ PoolRejected
         \/ EvaluatePool \/ PoolDecided \/ NoRedeploy)
  BY DEF StartCycle, Reload, NoPools, StartPools, PoolFails, PoolRejected, EvaluatePool,
         PoolDecided, NoRedeploy
<1>3. ~ \E executed \in BOOLEAN :
           ExecuteExit(executed) \/ ExecuteOpen(executed) \/ Redeploy(executed)
  BY DEF ExecuteExit, ExecuteOpen, Redeploy
<1>4. ~ (Operator \/ Restart \/ Midnight \/ UNCHANGED vars \/ \E j \in Job : Clock(j))
  BY DEF Operator, ResumeReads, ResumeWrites, Restart, Midnight, Clock, vars
<1> QED  BY <1>1, <1>2, <1>3, <1>4 DEF Next, Engine

\* execution_failures is armed at the end of a cycle only if an execution
\* failed in that cycle.
THEOREM RearmIsEarned == Spec => RearmNeedsFailure
<1>1. TypeInv /\ [Next]_vars
      => [~ mem.active /\ Holds(mem', "execution_failures") /\ pc = "end" /\ ~ lifted'
             => cycleFails]_vars
  <2> SUFFICES ASSUME TypeInv, [Next]_vars, ~ mem.active,
                      Holds(mem', "execution_failures"), pc = "end", ~ lifted'
               PROVE  cycleFails
    OBVIOUS
  <2>1. mem' # mem
    BY DEF Holds
  <2> QED  BY <2>1, EndOnly, EndArms
<1> QED  BY <1>1, TypeInvariant, PTL DEF Spec, RearmNeedsFailure
==============================================================================
