---------------------------- MODULE EngineState ----------------------------
(***************************************************************************)
(* The engine's status in the cloud: the engine reports every cycle and at *)
(* its shutdown (postEngineStatus), the API stores a snapshot and the      *)
(* decisions in D1, then a heartbeat with a lifetime in KV, then prunes    *)
(* (agentStatusReportHandler), and the bot and the operator read them in   *)
(* separate queries.  A report the engine gave up may still be served.     *)
(***************************************************************************)
EXTENDS Naturals, FiniteSets

CONSTANTS
    Pool,       \* pools a cycle may decide on
    Life,       \* ticks the cloud works on a report at most
    Ttl,        \* AGENT_STATUS_CACHE_TTL_SEC
    Retention,  \* ENGINE_STATE_RETENTION_MS, far longer than Ttl and Life
    MaxTime,    \* bound: ticks
    Reports,    \* bound: reports
    Launches    \* bound: launches of the engine

VARIABLES
    clock,
    engine,     \* "up", "stopping" or "down"
    launches,
    req,        \* reports by number: [status, sent, pc, at, left]
    snapshots,  \* engine_snapshots: [at, status, by]
    decisions,  \* engine_decisions: [at, pool, by]
    beat        \* the KV entry: [status, at, by, until], or None
vars == <<clock, engine, launches, req, snapshots, decisions, beat>>

Sent == DOMAIN req
None == [status |-> "none", at |-> 0, by |-> 0, until |-> 0]
NoSnapshot == [at |-> 0, status |-> "none", by |-> 0]

TypeOK ==
    /\ clock \in 1 .. MaxTime /\ engine \in {"up", "stopping", "down"}
    /\ Sent \subseteq 1 .. Reports /\ launches \in 0 .. Launches
    /\ \A r \in Sent : /\ req[r].pc \in {"wire", "write", "prune", "done"}
                       /\ req[r].left \subseteq Pool \cup {"snapshot"}
    /\ \A s \in snapshots : s.at \in 0 .. MaxTime /\ s.by \in Sent
    /\ \A d \in decisions : d.pool \in Pool /\ d.by \in Sent
    /\ beat.status \in {"none", "running", "stopped"}

Init ==
    /\ clock = 1 /\ engine = "up" /\ launches = 1
    /\ req = [r \in {} |-> 0] /\ snapshots = {} /\ decisions = {}
    /\ beat = None

Step(r, pc) == req' = [req EXCEPT ![r].pc = pc]

-----------------------------------------------------------------------------
(* The engine                                                              *)

\* The request of a report; nobody answers for it but the timeout.
Post(status, pools) ==
    LET r == Cardinality(Sent) + 1 IN
    /\ r <= Reports
    /\ req' = [q \in Sent \cup {r} |->
                 IF q # r THEN req[q]
                 ELSE [status |-> status, sent |-> clock,
                       pc |-> "wire", at |-> 0, left |-> pools]]

\* The end of a cycle: what is held goes with the snapshot, the decisions by pool.
Report(pools) ==
    /\ engine = "up" /\ Post("running", pools)
    /\ UNCHANGED <<clock, engine, launches, snapshots, decisions, beat>>

\* gracefulShutdown: one report without details, awaited no longer than its timeout.
Shutdown ==
    /\ engine = "up" /\ engine' = "stopping" /\ Post("stopped", {})
    /\ UNCHANGED <<clock, launches, snapshots, decisions, beat>>
Exit ==
    /\ engine # "down" /\ engine' = "down"
    /\ UNCHANGED <<clock, launches, req, snapshots, decisions, beat>>
Launch ==
    /\ engine = "down" /\ launches < Launches
    /\ engine' = "up" /\ launches' = launches + 1
    /\ UNCHANGED <<clock, req, snapshots, decisions, beat>>

-----------------------------------------------------------------------------
(* The report endpoint                                                     *)

\* loginHandler, then the time of the report; a wrong key or shape ends it.
Accept(r) ==
    /\ r \in Sent /\ req[r].pc = "wire"
    /\ \/ req' = [req EXCEPT ![r].pc = "write", ![r].at = clock, ![r].left = @ \cup {"snapshot"}]
       \/ req' = [req EXCEPT ![r].pc = "done", ![r].left = {}]
    /\ UNCHANGED <<clock, engine, launches, snapshots, decisions, beat>>

\* INSERT OR REPLACE, by agent and time, and by pool.
Insert(r, x) ==
    IF x = "snapshot"
    THEN /\ snapshots' = {s \in snapshots : s.at # req[r].at}
                           \cup {[at |-> req[r].at, status |-> req[r].status, by |-> r]}
         /\ UNCHANGED decisions
    ELSE /\ decisions' = {d \in decisions : d.at # req[r].at \/ d.pool # x}
                           \cup {[at |-> req[r].at, pool |-> x, by |-> r]}
         /\ UNCHANGED snapshots

\* Promise.all: the writes land in any order, also after one of them failed.
Write(r) ==
    /\ r \in Sent /\ req[r].at > 0
    /\ \E x \in req[r].left :
         /\ req' = [req EXCEPT ![r].left = @ \ {x}]
         /\ Insert(r, x)
    /\ UNCHANGED <<clock, engine, launches, beat>>
WriteFails(r) ==
    /\ r \in Sent /\ req[r].pc = "write"
    /\ \E x \in req[r].left : req' = [req EXCEPT ![r].left = @ \ {x}, ![r].pc = "prune"]
    /\ UNCHANGED <<clock, engine, launches, snapshots, decisions, beat>>

StoredAnyway(r) == TRUE   \* a heartbeat beside the writes (a mutant)
Stored(r) == req[r].left = {}

\* cache.put, once all are stored; its failure is logged.
Put(r) ==
    /\ r \in Sent /\ req[r].pc = "write" /\ Stored(r) /\ Step(r, "prune")
    /\ \/ beat' = [status |-> req[r].status, at |-> req[r].at, by |-> r, until |-> clock + Ttl]
       \/ UNCHANGED beat
    /\ UNCHANGED <<clock, engine, launches, snapshots, decisions>>

PrunedAll(rows) == {x \in rows : clock >= x.at + Ttl}   \* by the lifetime in KV (a mutant)
Pruned(rows) == {x \in rows : clock > x.at + Retention}

\* One batch deletes what is past the retention, or fails.
Prune(r) ==
    /\ r \in Sent /\ req[r].pc = "prune" /\ Step(r, "done")
    /\ \/ snapshots' = snapshots \ Pruned(snapshots) /\ decisions' = decisions \ Pruned(decisions)
       \/ UNCHANGED <<snapshots, decisions>>
    /\ UNCHANGED <<clock, engine, launches, beat>>

\* The runtime ends the request.
Killed(r) ==
    /\ r \in Sent /\ req[r].pc # "wire" /\ (req[r].pc # "done" \/ req[r].left # {})
    /\ req' = [req EXCEPT ![r].pc = "done", ![r].left = {}]
    /\ UNCHANGED <<clock, engine, launches, snapshots, decisions, beat>>

-----------------------------------------------------------------------------
(* What the readers are answered                                           *)

\* agentStatusHandler, /v1/engine/state, /v1/engine/portfolio: the latest snapshot,
\* with its trades, ...
LatestSnapshot ==
    IF snapshots = {} THEN NoSnapshot
    ELSE CHOOSE s \in snapshots : \A t \in snapshots : t.at <= s.at

\* ... and the heartbeat, which KV drops at the end of its lifetime.
ServedStale == beat   \* a heartbeat without a lifetime (a mutant)
Served == IF beat.until >= clock THEN beat ELSE None

\* The answer of agentStatusHandler: the one first, then the other.
Told == [portfolio |-> LatestSnapshot, status |-> Served]

\* Nothing the cloud works on outlives its time.
Alive(r) == req[r].pc # "done" \/ req[r].left # {}
Tick ==
    /\ clock < MaxTime /\ \A r \in Sent : Alive(r) => clock < req[r].sent + Life
    /\ clock' = clock + 1
    /\ UNCHANGED <<engine, launches, req, snapshots, decisions, beat>>

Next ==
    \/ Shutdown \/ Exit \/ Launch \/ Tick
    \/ \E pools \in SUBSET Pool : Report(pools)
    \/ \E r \in Sent : \/ Accept(r) \/ Write(r) \/ WriteFails(r) \/ Put(r)
                       \/ Prune(r) \/ Killed(r)
Spec == Init /\ [][Next]_vars

(* A heartbeat is backed by the snapshot and the decisions of its time: it is *)
(* put only after all of them landed, and no prune, of however late a report, *)
(* takes them while it lives: the bot never knows of a later report than the  *)
(* operator (agentStatusReportHandler, the sweep).                            *)
BeatBacked ==
    beat.until > clock =>
       /\ \E s \in snapshots : s.at = beat.at
       /\ Told.portfolio.at >= beat.at

(* Nobody is told "running" later than the lifetime after the cloud was done  *)
(* with a report the engine sent while it ran (agentStatusHandler).           *)
RunningFades ==
    Told.status.status = "running" =>
       \E r \in Sent : /\ req[r].status = "running" /\ r = Told.status.by
                       /\ clock <= req[r].sent + Life + Ttl
=============================================================================
