------------------------------- MODULE Schema -------------------------------
(***************************************************************************)
(* beam.db as it is opened (engine/db.ts): createDatabase loads sqlite-vec *)
(* and runs the migrations a database still lacks, each in a transaction   *)
(* with the row that records it.  The engine and the commands of the CLI   *)
(* open the same file, at once, may be killed at any step, and are started *)
(* again.  Columns that come together are one fact; the rows are one of    *)
(* each kind the migrations treat differently.                             *)
(***************************************************************************)
EXTENDS Naturals, Sequences, FiniteSets, FiniteSetsExt

CONSTANTS
    Process,   \* the processes that open the file
    Launches   \* bound: openings

VARIABLES
    db,        \* [ver, cols, sol, unique, positions, events, snaps, jobs]
    vec,       \* is there a vec_memory table?
    proc,      \* by process: [pc, next, loaded]
    launches,  \* openings so far
    was        \* history: db as it was before the first opening
vars == <<db, vec, proc, launches, was>>

Version == 1 .. 27
Of(table, columns) == {<<table, c>> : c \in columns}
Base(tables) == tables \X {"base"}

-----------------------------------------------------------------------------
(* The migrations                                                          *)

\* What CREATE TABLE IF NOT EXISTS and the guarded ADD COLUMNs leave present, with
\* the version that does.
By(v, columns) == {v} \X columns

Initial == By(1, Base({"positions", "audit", "blacklists"}) \cup Of("positions", {"last_rebalance"}))

AddedFirst ==
    By(2, Of("positions", {"trailing"})) \cup By(3, Of("positions", {"last_rebalance"}))
    \cup By(4, Base({"pool_snapshots"})) \cup By(5, Base({"agent_feedback"}))
    \cup By(6, Of("positions", {"paper_exited"}))

AddedTables ==
    By(8, Base({"referral_codes", "referral_uses", "user_credits"}))
    \cup By(9, Base({"metadata"})) \cup By(10, Base({"fee_claims"}))

AddedSignals ==
    By(12, Base({"signal_snapshots"})) \cup By(13, Base({"pool_cooldowns"}))
    \cup By(14, Of("positions", {"entry_timestamp"})) \cup By(15, Of("positions", {"entry_snapshot"}))

AddedAccounting ==
    By(16, Of("positions", {"pnl"}) \cup Base({"position_events"}))
    \cup By(17, Of("positions", {"rewards"}))

AddedFoundation ==
    By(20, Base({"token_candidates", "execution_operations", "settlement_jobs",
                 "wallet_safety_pauses"}) \cup Of("settlement_jobs", {"error"}))

AddedSource == By(19, Of("pool_snapshots", {"stats_source"}))
AddedBooking ==
    By(21, Of("settlement_jobs", {"finalization"})) \cup By(22, Of("positions", {"fallen_angel"}))
AddedRotation == By(24, Base({"rotation_state"}))

AddedPrices ==
    By(25, Of("pool_snapshots", {"drawdown"}))
    \cup By(26, Of("pool_snapshots", {"address", "prices"}))

\* v11 adds its columns without looking whether they are there.
OperatorFees == Of("fee_claims", {"operator_fee"})

\* The columns of the two tables v18 rebuilds.
Ids == {<<"positions", "id">>, <<"position_events", "id">>}

Added ==
    Initial \cup AddedFirst \cup AddedTables \cup AddedSignals \cup AddedAccounting
    \cup AddedFoundation \cup AddedSource \cup AddedBooking \cup AddedRotation
    \cup AddedPrices \cup By(11, OperatorFees) \cup By(18, Ids)

AddedUpTo(v) == {a[2] : a \in {b \in Added : b[1] <= v}}
AddedIn(v) == {a[2] : a \in {b \in Added : b[1] = v}}

\* v7 keeps the first row of a pool and instant and makes the pair unique.
DedupeSnapshots(d) ==
    [d EXCEPT !.unique = TRUE,
              !.snaps = {s \in @ : \A t \in @ : t.at = s.at => s.id <= t.id}]

\* v18 rebuilds positions under the key of a position, with these columns of its own
\* and the old table's.
Copied == {c \in AddedUpTo(17) : c[1] = "positions"}
Key(row) == IF row.pub = "none" THEN "paper-" \o row.pool ELSE row.pub

ByPosition(d) ==
    [d EXCEPT
       !.cols = @ \cup Ids,
       !.positions = IF <<"positions", "id">> \in d.cols THEN @
                     ELSE {[r EXCEPT !.id = Key(r)] : r \in @},
       !.events = IF <<"position_events", "id">> \in d.cols THEN @
                  ELSE {[r EXCEPT !.id = r.pub] : r \in @}]

\* v23 rebuilds the jobs of a database whose CHECK still names SOL: the new table
\* has no column for the error, and the old index goes with the old table.
ForEth(d) ==
    IF ~d.sol THEN d
    ELSE [d EXCEPT !.sol = FALSE, !.cols = @ \ {<<"settlement_jobs", "error">>},
                   !.jobs = {[j EXCEPT !.asset = "ETH"] : j \in @}]

\* v27 repairs what an early v26 called token_x and token_y.
Repair(d) ==
    [d EXCEPT !.cols = @ \cup Of("pool_snapshots", {"address"}),
              !.snaps = IF <<"pool_snapshots", "token">> \notin d.cols THEN @
                        ELSE {IF s.address = "none" THEN [s EXCEPT !.address = s.token] ELSE s
                              : s \in @}]

Up(v, d) ==
    CASE v = 7 -> DedupeSnapshots(d)
      [] v = 18 -> ByPosition(d)
      [] v = 23 -> ForEth(d)
      [] v = 27 -> Repair(d)
      [] OTHER -> [d EXCEPT !.cols = @ \cup AddedIn(v)]

\* A statement that names what is not there, or adds what is, throws.
Throws(v, d) ==
    \/ v = 11 /\ OperatorFees \cap d.cols # {}
    \/ v = 18 /\ <<"positions", "id">> \notin d.cols /\ ~(Copied \subseteq d.cols)
    \/ v = 21 /\ <<"settlement_jobs", "base">> \notin d.cols
    \/ v = 23 /\ d.sol /\ <<"settlement_jobs", "finalization">> \notin d.cols

-----------------------------------------------------------------------------
(* Databases as earlier builds left them                                   *)

Fresh == [ver |-> {}, cols |-> {}, sol |-> FALSE, unique |-> FALSE,
          positions |-> {}, events |-> {}, snaps |-> {}, jobs |-> {}]

\* Without rows, and so without a CHECK that names SOL, v7 is all but columns.
Left(k) == [Fresh EXCEPT !.ver = 1 .. k, !.cols = AddedUpTo(k), !.unique = k >= 7]

\* A live position and a paper one, with an event each.
Held == {[pool |-> "p1", pub |-> "k1", id |-> "p1"], [pool |-> "p2", pub |-> "none", id |-> "p2"]}
Keyed(rows) == {[r EXCEPT !.id = Key(r)] : r \in rows}

\* Two snapshots of one instant while nothing forbade it; addresses since v26.
Snapshots(k, early) ==
    {[id |-> i, at |-> 1,
      address |-> IF k >= 26 /\ ~early THEN "a" ELSE "none",
      token |-> IF early THEN "a" ELSE "none"] : i \in IF k < 7 THEN {1, 2} ELSE {1}}

Filled(k, sol, early) ==
    [Left(k) EXCEPT
       !.cols = (@ \ IF early THEN Of("pool_snapshots", {"address"}) ELSE {})
                   \cup IF early THEN Of("pool_snapshots", {"token"}) ELSE {},
       !.sol = sol,
       !.positions = IF k = 0 THEN {} ELSE IF k < 18 THEN Held ELSE Keyed(Held),
       !.events = IF k < 16 THEN {}
                  ELSE IF k < 18 THEN {[r EXCEPT !.id = "none"] : r \in Held} ELSE Keyed(Held),
       !.snaps = IF k < 4 THEN {} ELSE Snapshots(k, early),
       !.jobs = IF k < 20 THEN {} ELSE {[id |-> "j1", asset |-> IF sol THEN "SOL" ELSE "ETH"]}]

Off == [pc |-> "off", next |-> 0, loaded |-> FALSE]

Init ==
    /\ \E k \in 0 .. 27, sol, early \in BOOLEAN :
         /\ sol => k \in 20 .. 22
         /\ early => k = 26
         /\ db = Filled(k, sol, early) /\ vec \in IF k = 0 THEN {FALSE} ELSE BOOLEAN
    /\ proc = [p \in Process |-> Off]
    /\ launches = 0 /\ was = db

-----------------------------------------------------------------------------
At(p, pc) == proc[p].pc = pc
Goto(p, pc, n) == proc' = [proc EXCEPT ![p].pc = pc, ![p].next = n]
Dies(p) == proc' = [proc EXCEPT ![p] = Off]
Last == Max(db.ver \cup {0})

\* createDatabase, tryLoadVecForDatabase: npm package, BEAM_VEC0_PATH or the embedded
\* copy loads, or none. The highest version is read once.
Open(p) ==
    /\ At(p, "off") /\ launches < Launches
    /\ \E l \in BOOLEAN :
         proc' = [proc EXCEPT ![p] = [pc |-> "check", next |-> Last + 1, loaded |-> l]]
    /\ launches' = launches + 1
    /\ UNCHANGED <<db, vec, was>>

\* The version may have been applied by the other process since.
Check(p) ==
    /\ At(p, "check") /\ proc[p].next \in Version
    /\ IF proc[p].next \in db.ver THEN Goto(p, "check", proc[p].next + 1)
       ELSE Goto(p, "apply", proc[p].next)
    /\ UNCHANGED <<db, vec, launches, was>>

\* One transaction: up() and the row of _migrations, whose key is the version.
\* What throws is rolled back and leaves createDatabase.
Apply(p) ==
    LET v == proc[p].next IN
    /\ At(p, "apply")
    /\ IF v \in db.ver \/ Throws(v, db) THEN Dies(p) /\ UNCHANGED <<db, vec>>
       ELSE /\ db' = [Up(v, db) EXCEPT !.ver = @ \cup {v}]
            /\ vec' = (vec \/ (v = 1 /\ proc[p].loaded))
            /\ Goto(p, "check", v + 1)
    /\ UNCHANGED <<launches, was>>

\* The write lock is held elsewhere, and nothing waits for it.
Busy(p) ==
    /\ At(p, "apply") /\ \E q \in Process \ {p} : At(q, "apply")
    /\ Dies(p) /\ UNCHANGED <<db, vec, launches, was>>

\* vec_memory is made when the extension is there and the table is not.
Heal(p) ==
    /\ At(p, "check") /\ proc[p].next \notin Version
    /\ vec' \in IF proc[p].loaded /\ ~vec THEN BOOLEAN ELSE {vec}
    /\ Goto(p, "ready", proc[p].next)
    /\ UNCHANGED <<db, launches, was>>

\* Killed, or done with the file.
Leave(p) ==
    /\ ~At(p, "off") /\ Dies(p)
    /\ UNCHANGED <<db, vec, launches, was>>

Next == \E p \in Process : Open(p) \/ Check(p) \/ Apply(p) \/ Busy(p) \/ Heal(p) \/ Leave(p)
Spec == Init /\ [][Next]_vars

TypeOK ==
    /\ db.ver \subseteq Version /\ vec \in BOOLEAN /\ launches \in 0 .. Launches
    /\ proc \in [Process -> [pc : {"off", "check", "apply", "ready"}, next : 0 .. 28,
                             loaded : BOOLEAN]]

-----------------------------------------------------------------------------
(* The columns that the statements of db-service.ts write                  *)

PositionWrite == Copied \cup Of("positions", {"id", "fallen_angel"})
EventWrite == Of("position_events", {"base", "id"})
SnapshotWrite == Of("pool_snapshots", {"base", "stats_source", "drawdown", "address", "prices"})
ClaimWrite == Of("fee_claims", {"base"}) \cup OperatorFees
JobWrite == Of("settlement_jobs", {"base", "finalization", "error"})

(* Whoever opened the file finds the columns its statements name, one row per *)
(* instant and jobs in ETH, whichever build left the file and however the     *)
(* openings met or died (runMigrations).  One column is missing, and only in  *)
(* a file whose jobs an earlier build held to SOL: v23 rebuilds them without  *)
(* the error that saveSettlementJob writes (db.ts:952-975).                   *)
QueriesHold ==
    (\E p \in Process : At(p, "ready")) =>
       /\ PositionWrite \cup EventWrite \cup SnapshotWrite \cup ClaimWrite \subseteq db.cols
       /\ JobWrite \ db.cols = IF was.sol THEN Of("settlement_jobs", {"error"}) ELSE {}
       /\ db.unique /\ ~db.sol /\ \A j \in db.jobs : j.asset = "ETH"

(* No position, event or job is lost or doubled by a migration that is begun  *)
(* twice, is killed or races; a snapshot keeps its first row; once migrated,  *)
(* each has its key and its address (the v18 and v27 rebuilds).               *)
RowsKept ==
    /\ Cardinality(db.positions) = Cardinality(was.positions)
    /\ Cardinality(db.events) = Cardinality(was.events)
    /\ {j.id : j \in db.jobs} = {j.id : j \in was.jobs}
    /\ \A s \in was.snaps : \E t \in db.snaps : t.at = s.at /\ t.id <= s.id
    /\ 18 \in db.ver => \A r \in was.positions : [r EXCEPT !.id = Key(r)] \in db.positions
    /\ 18 \in db.ver => \A r \in was.events :
                          r.pub # "none" => [r EXCEPT !.id = r.pub] \in db.events
    /\ 27 \in db.ver => \A s \in was.snaps, t \in db.snaps :
                          s.id = t.id /\ "a" \in {s.address, s.token} => t.address = "a"

(* A settlement job can be stored (db.ts:943-945, saveSettlementJob).          *)
JobsStored == (\E p \in Process : At(p, "ready")) => JobWrite \subseteq db.cols
=============================================================================
