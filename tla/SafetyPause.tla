----------------------------- MODULE SafetyPause -----------------------------
(***************************************************************************)
(* The wallet safety pause (engine/autonomous-runtime.ts, and its call     *)
(* sites in the scan cycle of engine/program.ts).                          *)
(*                                                                         *)
(* One record per wallet says whether new risk may be taken, and why not.  *)
(* It is armed and lifted at four places of a cycle: after the settlement  *)
(* phase, at the top of the pool loop, in the evaluation of every pool,    *)
(* and at the end, from counters that live in memory only.  The record is  *)
(* in the database too, where `beam resume', another process, clears it:   *)
(* the engine reads it back once a cycle.                                  *)
(***************************************************************************)
EXTENDS Naturals

CONSTANTS Job,          \* settlement jobs
          Modes,        \* the values of autonomousTokenMode a start may find
          MaxExec,      \* maxConsecutiveExecutionFailures, 0 turns the breaker off
          DrawdownOn,   \* maxDailyDrawdownPct > 0
          Pools,        \* bound: pools scanned per cycle
          MaxFaults     \* bound: failures, crashes, drawdowns and outages

ASSUME SafetyPauseAssumption ==
    /\ Modes \subseteq {"shadow", "canary", "live"}
    /\ MaxExec \in Nat
    /\ DrawdownOn \in BOOLEAN
    /\ Pools \in Nat \ {0}
    /\ MaxFaults \in Nat

VARIABLES
    db,          \* the wallet_safety_pauses row
    jobs,        \* the settlement_jobs rows
    newDay,      \* the stored daily baseline is of an earlier day
    \* the engine process
    mode,
    pc,
    mem,         \* activeSafetyPause
    execFails,   \* consecutiveExecutionFailures
    cycleFails,  \* executionFailuresThisCycle is not 0
    coreFails,   \* consecutiveCoreDataFailures, capped at the 2 that matter
    allFailed,   \* every pool scanned so far in this cycle failed
    left,        \* pools of this cycle still to scan
    drawdown,    \* dailyDrawdownPct has reached its limit
    overdue,     \* the oldest settlement age the settlement phase measured
    \* the `beam resume' process: the record it read
    cli,
    \* observation
    lifted,      \* a pause was lifted since the last cycle ended
    resumed,     \* the operator cleared the row since the engine read it
    faults

counters == <<execFails, cycleFails, coreFails, drawdown>>
scanVars == <<allFailed, left, overdue>>
vars == <<db, jobs, newDay, mode, pc, mem, counters, scanVars, cli, lifted, resumed, faults>>

Reason  == {"daily_drawdown", "core_data_unavailable", "execution_failures", "settlement_overdue"}
Pause   == [reason : Reason \cup {"none"}, active : BOOLEAN]
NoPause == [reason |-> "none", active |-> FALSE]

\* none: no row, or a confirmed one.  unread: sold, but no output can be read
\* (reconciliationJob keeps it prepared).  old: older than settlementMaxPendingMs.
\* late: past its own expiresAt.
JobState == [st : {"none", "active", "unread", "terminal"}, old : BOOLEAN, late : BOOLEAN]
NoJob    == [st |-> "none", old |-> FALSE, late |-> FALSE]

TypeOK ==
    /\ db \in Pause /\ mem \in Pause /\ cli \in Pause
    /\ jobs \in [Job -> JobState]
    /\ pc \in {"idle", "phase", "reload", "top", "pools", "decide", "redeploy", "end"}
    /\ mode \in Modes
    /\ execFails \in 0 .. MaxFaults
    /\ coreFails \in 0 .. 2
    /\ left \in 0 .. Pools
    /\ {newDay, cycleFails, allFailed, drawdown, overdue, lifted, resumed} \subseteq BOOLEAN
    /\ faults \in 0 .. MaxFaults

Init ==
    /\ db = NoPause /\ mem = NoPause /\ cli = NoPause
    /\ jobs = [j \in Job |-> NoJob]
    /\ newDay = TRUE
    /\ mode \in Modes
    /\ pc = "idle"
    /\ execFails = 0 /\ coreFails = 0 /\ left = 0
    /\ cycleFails = FALSE /\ allFailed = FALSE /\ drawdown = FALSE /\ overdue = FALSE
    /\ lifted = FALSE /\ resumed = FALSE
    /\ faults = 0

Fault   == faults < MaxFaults /\ faults' = faults + 1
NoFault == UNCHANGED faults

-------------------------------------------------------------------------------
(* The pure decisions.                                                     *)

Armed(reason) == [reason |-> reason, active |-> TRUE]
Lift(p)       == [p EXCEPT !.active = FALSE]
Holds(p, reason) == p.active /\ p.reason = reason

\* shouldAutoResolveExecutionFailuresPause
ExecResolves == mode = "shadow" \/ MaxExec = 0 \/ execFails < MaxExec

\* shouldAutoResolveDailyDrawdownPause
DrawdownResolves(breached, rolledOver) ==
    mode = "shadow" \/ ~ breached \/ (mode = "canary" /\ rolledOver)

ExecBreached(fails) == MaxExec > 0 /\ fails >= MaxExec

\* Mutant: two failed cycles are not enough.
TriggerLate(core, exec) ==
    IF drawdown                THEN "daily_drawdown"
    ELSE IF core > 2           THEN "core_data_unavailable"
    ELSE IF ExecBreached(exec) THEN "execution_failures"
    ELSE IF overdue            THEN "settlement_overdue"
    ELSE "none"

\* shouldTriggerSafetyPause, in its priority order.
Trigger(core, exec) ==
    IF drawdown                THEN "daily_drawdown"
    ELSE IF core >= 2          THEN "core_data_unavailable"
    ELSE IF ExecBreached(exec) THEN "execution_failures"
    ELSE IF overdue            THEN "settlement_overdue"
    ELSE "none"

\* safetyPauseBlockReason: a pause blocks ENTER and REBALANCE, never EXIT.
Blocked(action) == mode # "shadow" /\ mem.active /\ action # "EXIT"

\* Mutant: the row is left for a later write.
SaveInMemory(p) ==
    /\ mem' = p
    /\ UNCHANGED db
    /\ lifted' = (lifted \/ (mem.active /\ ~ p.active))

\* Assigning activeSafetyPause, and saving it when it changed.
Save(p) ==
    /\ mem' = p
    /\ db' = IF p = mem THEN db ELSE p
    /\ lifted' = (lifted \/ (mem.active /\ ~ p.active))

-------------------------------------------------------------------------------
(* The settlement phase.                                                   *)

StartCycle ==
    /\ pc = "idle"
    /\ pc' = "phase"
    /\ allFailed' = TRUE
    /\ NoFault
    /\ UNCHANGED <<db, jobs, newDay, mode, mem, counters, left, overdue, cli, lifted, resumed>>

FreshJob == [st |-> "active", old |-> FALSE, late |-> FALSE]

\* A terminal row the orphan sweep revives starts a new window but keeps its
\* createdAt; for a token nothing accounts for it makes a fresh one.
Enqueued(r) == IF r.st = "terminal" THEN [r EXCEPT !.st = "active", !.late = FALSE] ELSE FreshJob

\* oldestActiveSettlementAgeMs and the resolver count these.
Open(r) == r.st \in {"active", "unread"}

\* What one settlement phase may make of a job it works on: a sale whose output
\* is read or not, a failure that ends it, or another attempt later.  Shadow mode
\* works on none.
Outcomes(r) ==
    IF Open(r) /\ mode # "shadow"
    THEN {NoJob} \cup {[r EXCEPT !.st = s] : s \in {"unread", "terminal", "active"}}
    ELSE {r}

\* What takes a failure: past its window, only a transient one keeps a job to be
\* sold, and a sale that landed is not found only if its receipt cannot be read.
\* A sale without a readable output is kept for ever, without any failure.
TakesFailure(r, s) ==
    \/ s.st = "active" /\ s.late
    \/ r.st = "unread" /\ s.st \in {"active", "terminal"}

PausedByPhase(late, settled) ==
    IF late /\ ~ mem.active THEN Armed("settlement_overdue")
    ELSE IF Holds(mem, "settlement_overdue") /\ settled THEN Lift(mem)
    ELSE mem

\* processSettlementPhase up to its save: `R' are the jobs the orphan sweep
\* enqueues, `seen' the jobs the phase worked on.  A failed listing leaves it
\* with what the sweep returned.
SettlementPhase(seen, R, next) ==
    /\ pc = "phase"
    /\ pc' = "reload"
    /\ R \subseteq seen
    /\ \A j \in R : ~ Open(jobs[j]) /\ mode # "shadow"
    /\ next \in [Job -> JobState]
    /\ \A j \in Job :
          next[j] \in (IF j \notin seen THEN {jobs[j]}
                       ELSE IF j \in R THEN Outcomes(Enqueued(jobs[j])) ELSE Outcomes(jobs[j]))
    /\ jobs' = next
    /\ overdue' = \E j \in seen : Open(next[j]) /\ next[j].old
    /\ Save(PausedByPhase(overdue', \A j \in seen : ~ Open(next[j])))
    /\ UNCHANGED <<newDay, mode, counters, allFailed, left, cli, resumed>>

\* listSettlementJobs succeeds; a token without an owner takes a failure to appear.
ListedPhase ==
    \E R \in SUBSET Job, next \in [Job -> JobState] :
        /\ SettlementPhase(Job, R, next)
        /\ IF \/ mode # "shadow" /\ \E j \in Job : TakesFailure(jobs[j], next[j])
              \/ \E j \in R : jobs[j].st # "terminal"
           THEN Fault ELSE NoFault

\* listSettlementJobs fails: Effect.succeed([]).
UnlistedPhase ==
    \E R \in SUBSET Job, next \in [Job -> JobState] : SettlementPhase(R, R, next) /\ Fault

\* The row is read back; a failed read keeps what is in memory.
Reload ==
    /\ pc = "reload"
    /\ pc' = "top"
    /\ \/ mem' = db /\ resumed' = FALSE /\ NoFault
       \/ UNCHANGED <<mem, resumed>> /\ Fault
    /\ lifted' = (lifted \/ (mem.active /\ ~ mem'.active))
    /\ UNCHANGED <<db, jobs, newDay, mode, counters, scanVars, cli>>

-------------------------------------------------------------------------------
(* The pool loop.                                                          *)

\* resolveCycleExecutionFailuresPause, before any pool is decided.
PausedAtTop ==
    IF Holds(mem, "execution_failures") /\ ExecResolves THEN Lift(mem) ELSE mem

\* Without a pool to scan the cycle ends here, and counts as a quiet one.
NoPools ==
    /\ pc = "top"
    /\ Save(PausedAtTop)
    /\ execFails' = 0 /\ cycleFails' = FALSE
    /\ pc' = "idle"
    /\ NoFault
    /\ UNCHANGED <<jobs, newDay, mode, coreFails, drawdown, scanVars, cli, resumed>>

StartPools ==
    /\ pc = "top"
    /\ Save(PausedAtTop)
    /\ cycleFails' = FALSE
    /\ left' \in 1 .. Pools
    /\ pc' = "pools"
    /\ NoFault
    /\ UNCHANGED <<jobs, newDay, mode, execFails, coreFails, drawdown, allFailed, overdue, cli, resumed>>

PoolDone(failed) ==
    /\ left' = left - 1
    /\ allFailed' = (allFailed /\ failed)
    /\ pc' = IF left = 1 THEN "redeploy" ELSE "pools"
    /\ UNCHANGED <<db, jobs, newDay, mode, mem, counters, overdue, cli, lifted, resumed>>

\* evaluatePool throws, before or after it looked at the pause.
PoolFails == pc \in {"pools", "decide"} /\ PoolDone(TRUE) /\ Fault

\* A safety screen rejects the pool before it is decided.
PoolRejected == pc = "pools" /\ PoolDone(FALSE) /\ NoFault

PoolDecided == pc = "decide" /\ PoolDone(FALSE) /\ NoFault

\* Mutant: the resolver core_data_unavailable did not use to have.
ResolvedDrawdownOnly(breached, rolledOver) ==
    IF Holds(mem, "daily_drawdown") /\ DrawdownResolves(breached, rolledOver)
    THEN Lift(mem) ELSE mem

\* autoResolvePausesStage, then armDrawdownPauseStage.
ResolvedInPool(breached, rolledOver) ==
    IF \/ Holds(mem, "daily_drawdown") /\ DrawdownResolves(breached, rolledOver)
       \/ Holds(mem, "core_data_unavailable") /\ coreFails < 2
    THEN Lift(mem) ELSE mem

PausedInPool(breached, rolledOver) ==
    LET p == ResolvedInPool(breached, rolledOver)
    IN  IF breached /\ ~ p.active THEN Armed("daily_drawdown") ELSE p

\* The baseline rolls over to the new day, the drawdown is measured against
\* it, and the pause follows.
EvaluatePool ==
    /\ pc = "pools"
    /\ \E breached \in BOOLEAN :
          /\ breached => DrawdownOn
          /\ drawdown' = breached
          /\ Save(PausedInPool(breached, newDay))
          /\ IF breached THEN Fault ELSE NoFault
    /\ newDay' = FALSE
    /\ pc' = "decide"
    /\ UNCHANGED <<jobs, mode, execFails, cycleFails, coreFails, scanVars, cli, resumed>>

\* recordExecutionOutcome.  An action skipped before execution, or an entry
\* that failed for want of funds, is not counted.
Outcome(executed) ==
    /\ execFails' = IF executed THEN 0 ELSE execFails + 1
    /\ cycleFails' = (cycleFails \/ ~ executed)
    /\ IF executed THEN NoFault ELSE Fault
    /\ UNCHANGED <<db, newDay, mode, mem, coreFails, drawdown, scanVars, cli, lifted, resumed>>

\* An exit leaves the tokens of the position to settle.
ExecuteExit(executed) ==
    /\ pc = "decide"
    /\ ~ Blocked("EXIT")
    /\ Outcome(executed)
    /\ \/ UNCHANGED jobs
       \/ \E j \in Job :
             /\ executed /\ jobs[j] = NoJob
             /\ jobs' = [jobs EXCEPT ![j] = FreshJob]
    /\ UNCHANGED pc

\* ENTER and REBALANCE.
ExecuteOpen(executed) ==
    /\ pc = "decide"
    /\ ~ Blocked("ENTER")
    /\ Outcome(executed)
    /\ UNCHANGED <<jobs, pc>>

\* runIdleRedeployPass enters at most one pool, behind the same gate.
Redeploy(executed) ==
    /\ pc = "redeploy"
    /\ ~ Blocked("ENTER")
    /\ Outcome(executed)
    /\ pc' = "end"
    /\ UNCHANGED jobs

NoRedeploy ==
    /\ pc = "redeploy"
    /\ pc' = "end"
    /\ NoFault
    /\ UNCHANGED <<db, jobs, newDay, mode, mem, counters, scanVars, cli, lifted, resumed>>

\* Mutants: the counter never decays; it decays by one.
DecayedNever == execFails
DecayedByOne == IF cycleFails THEN execFails ELSE execFails - 1

\* decayExecutionFailureCounter
Decayed == IF cycleFails THEN execFails ELSE 0

\* runRedeployAndDecay after the redeploy: the counters first, then the arming.
EndCycle ==
    LET core   == IF ~ allFailed THEN 0 ELSE IF coreFails = 2 THEN 2 ELSE coreFails + 1
        reason == Trigger(core, Decayed)
    IN  /\ pc = "end"
        /\ coreFails' = core
        /\ execFails' = Decayed
        /\ mem' = IF reason # "none" /\ ~ mem.active THEN Armed(reason) ELSE mem
        /\ db'  = IF mem' # mem THEN mem' ELSE db
        /\ lifted' = FALSE
        /\ pc' = "idle"
        /\ NoFault
        /\ UNCHANGED <<jobs, newDay, mode, cycleFails, drawdown, scanVars, cli, resumed>>

-------------------------------------------------------------------------------
(* The operator, the restart, and the clock.                               *)

\* `beam resume' reads the row ...
ResumeReads ==
    /\ db.active /\ ~ cli.active
    /\ cli' = db
    /\ NoFault
    /\ UNCHANGED <<db, jobs, newDay, mode, pc, mem, counters, scanVars, lifted, resumed>>

\* ... and writes it back resolved.
ResumeWrites ==
    /\ cli.active
    /\ db' = Lift(cli)
    /\ cli' = NoPause
    /\ lifted' = TRUE /\ resumed' = TRUE
    /\ NoFault
    /\ UNCHANGED <<jobs, newDay, mode, pc, mem, counters, scanVars>>

\* A restart keeps the row and loses the counters; a failed read at boot finds
\* no pause.
Restart ==
    /\ Fault
    /\ pc' = "idle"
    /\ mode' \in Modes
    /\ mem' \in {db, NoPause}
    /\ resumed' = FALSE /\ lifted' = TRUE
    /\ execFails' = 0 /\ cycleFails' = FALSE /\ coreFails' = 0 /\ drawdown' = FALSE
    /\ left' = 0 /\ allFailed' = FALSE /\ overdue' = FALSE
    /\ UNCHANGED <<db, jobs, newDay, cli>>

Clock(j) ==
    /\ Open(jobs[j]) \/ jobs[j].st = "terminal"
    /\ \/ ~ jobs[j].late
       \/ ~ jobs[j].old
    /\ jobs' = [jobs EXCEPT ![j].old = TRUE, ![j].late = TRUE]
    /\ NoFault
    /\ UNCHANGED <<db, newDay, mode, pc, mem, counters, scanVars, cli, lifted, resumed>>

Midnight ==
    /\ ~ newDay
    /\ newDay' = TRUE
    /\ NoFault
    /\ UNCHANGED <<db, jobs, mode, pc, mem, counters, scanVars, cli, lifted, resumed>>

-------------------------------------------------------------------------------
Engine ==
    \/ StartCycle \/ ListedPhase \/ UnlistedPhase \/ Reload \/ NoPools \/ StartPools
    \/ PoolFails \/ PoolRejected \/ EvaluatePool \/ PoolDecided
    \/ \E executed \in BOOLEAN :
          ExecuteExit(executed) \/ ExecuteOpen(executed) \/ Redeploy(executed)
    \/ NoRedeploy \/ EndCycle

Operator == ResumeReads \/ ResumeWrites

Next ==
    \/ Engine \/ Operator \/ Restart
    \/ \E j \in Job : Clock(j)
    \/ Midnight

Spec == Init /\ [][Next]_vars

\* The scheduler runs for ever; a pool yields finitely many decisions; some
\* pools are scanned again and again, and one of them is evaluated; time passes.
Fairness ==
    /\ WF_vars(Engine /\ NoFault)
    /\ WF_vars(PoolDecided)
    /\ SF_vars(StartPools)
    /\ SF_vars(EvaluatePool /\ NoFault)
    /\ \A j \in Job : WF_vars(Clock(j))

FairSpec == Spec /\ Fairness

-------------------------------------------------------------------------------
\* A pause the engine acts on is in the database too, where the next process
\* finds it, unless the operator has just cleared it: no restart forgets one.
LatchIsDurable == mem.active => db.active \/ resumed

\* The pools of a cycle are decided under a pause whenever the counters the
\* last cycle left are over their limit: the arming at the end of a cycle, the
\* decay, the read-back and the resolvers never cancel out, unless the pause
\* was lifted in between (a pause armed for another reason, or the operator).
CarriedBreachPaused ==
    [][pc = "top" /\ pc' = "pools" /\ ~ lifted' /\ (ExecBreached(execFails) \/ coreFails >= 2)
           => mem'.active]_vars

\* execution_failures is armed only by a cycle in which an execution failed
\* (issue #182): a pause that was lifted is not armed again by the same spike.
\* (A restart at this point may read an old pause back: it sets lifted.)
RearmNeedsFailure ==
    [][~ mem.active /\ Holds(mem', "execution_failures") /\ pc = "end" /\ ~ lifted'
           => cycleFails]_vars

\* Once the failures end, every pause is lifted without the operator (issues #148,
\* #166, #182), with one exception: settlement_overdue stays as long as some sale
\* without a readable output waits for its evidence, which has no time limit.  In
\* shadow mode, where it blocks nothing and no settlement is worked on, one may stay.
PauseLifts ==
    mem.active ~> \/ ~ mem.active
                  \/ Holds(mem, "settlement_overdue") /\ \E j \in Job : jobs[j].st = "unread"
                  \/ mode = "shadow"
===============================================================================
