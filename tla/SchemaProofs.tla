---------------------------- MODULE SchemaProofs ----------------------------
(***************************************************************************)
(* Proofs about Schema: however the openings of a file meet, fail or are   *)
(* killed, the columns its statements name are there, but for one that v23 *)
(* drops, and no row is lost.                                              *)
(* The invariant says what the versions a database has say of its columns, *)
(* flags and rows (DbFits), and that a process which has come to version n *)
(* found or applied all before it (ProcFits); migrations are only ever     *)
(* applied in their order, so v18 and v27 meet the rows they expect.       *)
(***************************************************************************)
EXTENDS Schema, FiniteSetTheorems, TLAPS

-----------------------------------------------------------------------------
(* Columns and the versions that add them                                  *)

PosId == <<"positions", "id">>
EvId == <<"position_events", "id">>
JobError == <<"settlement_jobs", "error">>
Address == <<"pool_snapshots", "address">>
Token == <<"pool_snapshots", "token">>

\* v7, v23 and v27 add no column; the keys come with v18, and no version adds token_x.
LEMMA AddedFacts ==
    ASSUME NEW a \in Added
    PROVE  /\ a = <<a[1], a[2]>>
           /\ a[1] \in Version \ {7, 23, 27}
           /\ a[1] = 18 => a[2] \in Ids
           /\ a[2] = PosId => a[1] = 18
           /\ a[2] = <<"position_events", "id">> => a[1] = 18
           /\ a[2] = JobError => a[1] = 20
           /\ a[2] # Token
<1> USE DEF By, Base, Of, Version, Ids, PosId, JobError, Token
<1>1. CASE a \in Initial
  BY <1>1 DEF Initial
<1>2. CASE a \in AddedFirst
  BY <1>2 DEF AddedFirst
<1>3. CASE a \in AddedTables
  BY <1>3 DEF AddedTables
<1>4. CASE a \in AddedSignals
  BY <1>4 DEF AddedSignals
<1>5. CASE a \in AddedAccounting
  BY <1>5 DEF AddedAccounting
<1>6. CASE a \in AddedFoundation
  BY <1>6 DEF AddedFoundation
<1>7. CASE a \in AddedSource \cup AddedBooking \cup AddedRotation \cup AddedPrices
  BY <1>7 DEF AddedSource, AddedBooking, AddedRotation, AddedPrices
<1>8. CASE a \in By(11, OperatorFees) \cup By(18, Ids)
  BY <1>8 DEF OperatorFees
<1> QED BY <1>1, <1>2, <1>3, <1>4, <1>5, <1>6, <1>7, <1>8 DEF Added

\* Every column a statement names is added by a migration.
LEMMA WrittenIsAdded ==
    ASSUME NEW c \in PositionWrite \cup EventWrite \cup SnapshotWrite \cup ClaimWrite
                       \cup JobWrite
    PROVE  \E v \in Version : <<v, c>> \in Added
<1> USE DEF By, Base, Of, Version
<1>1. CASE c \in Copied
  BY <1>1, AddedFacts DEF Copied, AddedUpTo
<1>2. CASE c \in Of("positions", {"id", "fallen_angel"}) \cup EventWrite
  <2>1. \A x \in Ids : <<18, x>> \in Added
    BY DEF Added
  <2>2. <<22, <<"positions", "fallen_angel">> >> \in AddedBooking
    BY DEF AddedBooking
  <2>3. <<16, <<"position_events", "base">> >> \in AddedAccounting
    BY DEF AddedAccounting
  <2>4. AddedBooking \cup AddedAccounting \subseteq Added
    BY Zenon DEF Added
  <2>5. c \in Ids \cup {<<"positions", "fallen_angel">>, <<"position_events", "base">>}
    BY <1>2 DEF EventWrite, Ids
  <2> QED BY <2>1, <2>2, <2>3, <2>4, <2>5
<1>3. CASE c \in SnapshotWrite
  <2>1. <<4, <<"pool_snapshots", "base">> >> \in AddedFirst
    BY DEF AddedFirst
  <2>2. <<19, <<"pool_snapshots", "stats_source">> >> \in AddedSource
    BY DEF AddedSource
  <2>3. /\ <<25, <<"pool_snapshots", "drawdown">> >> \in AddedPrices
        /\ <<26, <<"pool_snapshots", "address">> >> \in AddedPrices
        /\ <<26, <<"pool_snapshots", "prices">> >> \in AddedPrices
    BY DEF AddedPrices
  <2>4. c \in {<<"pool_snapshots", "base">>, <<"pool_snapshots", "stats_source">>,
              <<"pool_snapshots", "drawdown">>, <<"pool_snapshots", "address">>,
              <<"pool_snapshots", "prices">>}
    BY <1>3 DEF SnapshotWrite
  <2>5. AddedFirst \cup AddedSource \cup AddedPrices \subseteq Added
    BY Zenon DEF Added
  <2> QED BY <2>1, <2>2, <2>3, <2>4, <2>5, SMTT(30)
<1>4. CASE c \in ClaimWrite
  <2>1. <<10, <<"fee_claims", "base">> >> \in AddedTables
    BY DEF AddedTables
  <2>2. \A x \in OperatorFees : <<11, x>> \in Added
    BY DEF Added
  <2> QED BY <1>4, <2>1, <2>2 DEF Added, ClaimWrite
<1>5. CASE c \in JobWrite
  <2>1. /\ <<20, <<"settlement_jobs", "base">> >> \in AddedFoundation
        /\ <<20, <<"settlement_jobs", "error">> >> \in AddedFoundation
    BY DEF AddedFoundation
  <2>2. <<21, <<"settlement_jobs", "finalization">> >> \in AddedBooking
    BY DEF AddedBooking
  <2>3. AddedFoundation \cup AddedBooking \subseteq Added
    BY Zenon DEF Added
  <2>4. c \in {<<"settlement_jobs", "base">>, <<"settlement_jobs", "error">>,
              <<"settlement_jobs", "finalization">>}
    BY <1>5 DEF JobWrite
  <2> QED BY <2>1, <2>2, <2>3, <2>4, SMTT(30)
<1> QED BY <1>1, <1>2, <1>3, <1>4, <1>5 DEF PositionWrite

-----------------------------------------------------------------------------
(* What a migration makes of a database                                    *)

IsDb(d) == DOMAIN d = {"ver", "cols", "sol", "unique", "positions", "events", "snaps", "jobs"}

\* What v7 and v27 make of the snapshots, v18 of the events and v23 of the jobs.
FirstOf(rows) == {s \in rows : \A t \in rows : t.at = s.at => s.id <= t.id}
ByPub(rows) == {[r EXCEPT !.id = r.pub] : r \in rows}
InEth(rows) == {[j EXCEPT !.asset = "ETH"] : j \in rows}
Addressed(rows) ==
    {IF s.address = "none" THEN [s EXCEPT !.address = s.token] ELSE s : s \in rows}

ColumnsFit(d) ==
    /\ \A a \in Added : a[1] \in d.ver => \/ a[2] \in d.cols
                                          \/ a[2] = JobError
                                          \/ a[2] = Address /\ 27 \notin d.ver
    /\ \A x \in Ids : x \in d.cols => 18 \in d.ver

FlagsFit(d) ==
    /\ 7 \in d.ver => d.unique
    /\ 23 \in d.ver => ~d.sol
    /\ ~d.sol => \A j \in d.jobs : j.asset = "ETH"
    /\ d.jobs \subseteq [id : {"j1"}, asset : {"SOL", "ETH"}]

\* The error of a job comes with v20, and goes with v23 where jobs were held to SOL.
ErrorFits(d, w) ==
    /\ w.sol /\ 23 \notin d.ver => d.sol
    /\ d.sol => w.sol
    /\ 20 \in d.ver /\ ~(w.sol /\ 23 \in d.ver) => JobError \in d.cols
    /\ w.sol /\ 23 \in d.ver => JobError \notin d.cols

\* What each migration makes of a database.
MadeBy(v, d, e) ==
    /\ IsDb(e) /\ e.ver = d.ver \cup {v}
    /\ v # 7 => e.unique = d.unique
    /\ v = 7 => e.unique = TRUE
    /\ v # 23 => e.sol = d.sol /\ e.jobs = d.jobs
    /\ v = 23 /\ d.sol => /\ e.sol = FALSE /\ e.jobs = InEth(d.jobs)
                          /\ e.cols = d.cols \ {JobError}
    /\ v = 23 /\ ~d.sol => e.sol = d.sol /\ e.jobs = d.jobs /\ e.cols = d.cols
    /\ v = 7 => e.cols = d.cols
    /\ v = 18 => e.cols = d.cols \cup Ids
    /\ v = 27 => e.cols = d.cols \cup {Address}
    /\ v \notin {7, 18, 23, 27} => e.cols = d.cols \cup AddedIn(v)
    /\ v # 18 => e.positions = d.positions /\ e.events = d.events
    /\ v = 18 /\ PosId \in d.cols => e.positions = d.positions
    /\ v = 18 /\ PosId \notin d.cols => e.positions = Keyed(d.positions)
    /\ v = 18 /\ EvId \in d.cols => e.events = d.events
    /\ v = 18 /\ EvId \notin d.cols => e.events = ByPub(d.events)
    /\ v \notin {7, 27} => e.snaps = d.snaps
    /\ v = 7 => e.snaps = FirstOf(d.snaps)
    /\ v = 27 /\ Token \notin d.cols => e.snaps = d.snaps
    /\ v = 27 /\ Token \in d.cols => e.snaps = Addressed(d.snaps)

LEMMA UpMakes ==
    ASSUME NEW v \in Version, NEW d, IsDb(d),
           NEW e, e = [Up(v, d) EXCEPT !.ver = @ \cup {v}]
    PROVE  MadeBy(v, d, e)
<1> USE DEF Version, IsDb, MadeBy
<1>1. CASE v = 7
  <2> DEFINE y == FirstOf(d.snaps)
  <2>1. Up(v, d) = [d EXCEPT !.unique = TRUE, !.snaps = y]
    BY <1>1, SMT DEF Up, DedupeSnapshots, FirstOf
  <2> HIDE DEF y
  <2>2. e = [[d EXCEPT !.unique = TRUE, !.snaps = y] EXCEPT !.ver = @ \cup {v}]
    BY <2>1
  <2>3. /\ DOMAIN e = DOMAIN d /\ e.ver = d.ver \cup {v} /\ e.unique = TRUE
        /\ e.sol = d.sol /\ e.jobs = d.jobs /\ e.cols = d.cols /\ e.snaps = y
        /\ e.positions = d.positions /\ e.events = d.events
    BY <2>2
  <2> QED BY <2>3, <1>1 DEF y
<1>2. CASE v = 18
  <2> DEFINE x == IF PosId \in d.cols THEN d.positions ELSE Keyed(d.positions)
             y == IF EvId \in d.cols THEN d.events ELSE ByPub(d.events)
  <2>1. Up(v, d) = [d EXCEPT !.cols = @ \cup Ids, !.positions = x, !.events = y]
    BY <1>2, SMT DEF Up, ByPosition, PosId, EvId, Keyed, ByPub
  <2>9. /\ PosId \in d.cols => x = d.positions
        /\ PosId \notin d.cols => x = Keyed(d.positions)
        /\ EvId \in d.cols => y = d.events
        /\ EvId \notin d.cols => y = ByPub(d.events)
    OBVIOUS
  <2> HIDE DEF x, y
  <2>2. e = [[d EXCEPT !.cols = @ \cup Ids, !.positions = x, !.events = y]
               EXCEPT !.ver = @ \cup {v}]
    BY <2>1
  <2>3. /\ DOMAIN e = DOMAIN d /\ e.ver = d.ver \cup {v} /\ e.unique = d.unique
        /\ e.sol = d.sol /\ e.jobs = d.jobs /\ e.cols = d.cols \cup Ids /\ e.snaps = d.snaps
        /\ e.positions = x /\ e.events = y
    BY <2>2
  <2> QED BY <2>3, <1>2, <2>9
<1>3. CASE v = 23 /\ d.sol
  <2> DEFINE y == InEth(d.jobs)
  <2>1. Up(v, d) = [d EXCEPT !.sol = FALSE, !.cols = @ \ {JobError}, !.jobs = y]
    BY <1>3, SMT DEF Up, ForEth, JobError, InEth
  <2>9. y = InEth(d.jobs)
    OBVIOUS
  <2> HIDE DEF y
  <2>2. e = [[d EXCEPT !.sol = FALSE, !.cols = @ \ {JobError}, !.jobs = y]
               EXCEPT !.ver = @ \cup {v}]
    BY <2>1
  <2>3. /\ DOMAIN e = DOMAIN d /\ e.ver = d.ver \cup {v} /\ e.unique = d.unique
        /\ e.sol = FALSE /\ e.jobs = y /\ e.cols = d.cols \ {JobError} /\ e.snaps = d.snaps
        /\ e.positions = d.positions /\ e.events = d.events
    BY <2>2
  <2> QED BY <2>3, <1>3, <2>9
<1>4. CASE v = 23 /\ ~d.sol
  <2>1. e = [d EXCEPT !.ver = @ \cup {v}]
    BY <1>4, SMT DEF Up, ForEth
  <2>3. /\ DOMAIN e = DOMAIN d /\ e.ver = d.ver \cup {v} /\ e.unique = d.unique
        /\ e.sol = d.sol /\ e.jobs = d.jobs /\ e.cols = d.cols /\ e.snaps = d.snaps
        /\ e.positions = d.positions /\ e.events = d.events
    BY <2>1
  <2> QED BY <2>3, <1>4
<1>5. CASE v = 27
  <2> DEFINE y == IF Token \notin d.cols THEN d.snaps ELSE Addressed(d.snaps)
  <2>1. Up(v, d) = [d EXCEPT !.cols = @ \cup {Address}, !.snaps = y]
    <3>1. Of("pool_snapshots", {"address"}) = {Address}
      BY DEF Of, Address
    <3>2. Repair(d) = [d EXCEPT !.cols = @ \cup {Address}, !.snaps = y]
      BY <3>1, Zenon DEF Repair, Token, Addressed
    <3> HIDE DEF y
    <3> QED BY <1>5, <3>2, SMT DEF Up
  <2>9. /\ Token \notin d.cols => y = d.snaps
        /\ Token \in d.cols => y = Addressed(d.snaps)
    OBVIOUS
  <2> HIDE DEF y
  <2>2. e = [[d EXCEPT !.cols = @ \cup {Address}, !.snaps = y] EXCEPT !.ver = @ \cup {v}]
    BY <2>1
  <2>3. /\ DOMAIN e = DOMAIN d /\ e.ver = d.ver \cup {v} /\ e.unique = d.unique
        /\ e.sol = d.sol /\ e.jobs = d.jobs /\ e.cols = d.cols \cup {Address} /\ e.snaps = y
        /\ e.positions = d.positions /\ e.events = d.events
    BY <2>2
  <2> QED BY <2>3, <1>5, <2>9
<1>6. CASE v \notin {7, 18, 23, 27}
  <2>1. Up(v, d) = [d EXCEPT !.cols = @ \cup AddedIn(v)]
    BY <1>6, SMT DEF Up
  <2>2. e = [[d EXCEPT !.cols = @ \cup AddedIn(v)] EXCEPT !.ver = @ \cup {v}]
    BY <2>1
  <2>3. /\ DOMAIN e = DOMAIN d /\ e.ver = d.ver \cup {v} /\ e.unique = d.unique
        /\ e.sol = d.sol /\ e.jobs = d.jobs /\ e.cols = d.cols \cup AddedIn(v)
        /\ e.snaps = d.snaps /\ e.positions = d.positions /\ e.events = d.events
    BY <2>2
  <2> QED BY <2>3, <1>6
<1> QED BY <1>1, <1>2, <1>3, <1>4, <1>5, <1>6

\* A migration is applied once, after all before it, and finds and leaves the columns
\* and flags of its version.
LEMMA UpFits ==
    ASSUME NEW v \in Version, NEW d, IsDb(d), ColumnsFit(d), FlagsFit(d),
           v \notin d.ver, \A n \in Version : n < v => n \in d.ver,
           NEW e, e = [Up(v, d) EXCEPT !.ver = @ \cup {v}]
    PROVE  ColumnsFit(e) /\ FlagsFit(e)
<1>0. MadeBy(v, d, e)
  BY UpMakes
<1>1. ASSUME NEW a \in Added, a[1] \in e.ver
      PROVE  a[2] \in e.cols \/ a[2] = JobError \/ (a[2] = Address /\ 27 \notin e.ver)
  <2>0. a[1] \in Version \ {7, 23, 27} /\ (a[1] = 18 => a[2] \in Ids)
    BY AddedFacts
  <2>1. CASE a[1] = v
    <3>1. v = 18 => a[2] \in e.cols
      BY <2>0, <2>1, <1>0 DEF MadeBy
    <3>2. v # 18 => e.cols = d.cols \cup AddedIn(v)
      BY <2>0, <2>1, <1>0 DEF MadeBy
    <3>3. a[2] \in AddedIn(v)
      BY <2>1 DEF AddedIn
    <3> QED BY <3>1, <3>2, <3>3
  <2>2. CASE a[1] \in d.ver
    <3>1. a[2] \in d.cols \/ a[2] = JobError \/ (a[2] = Address /\ 27 \notin d.ver)
      BY <2>2 DEF ColumnsFit
    <3> QED BY <3>1, <1>0 DEF MadeBy, Version
  <2> QED BY <1>1, <2>1, <2>2, <1>0 DEF MadeBy
<1>2. ASSUME NEW x \in Ids, x \in e.cols
      PROVE  18 \in e.ver
  <2>1. x \in d.cols => 18 \in e.ver
    BY <1>0 DEF MadeBy, ColumnsFit
  <2>2. x # Address
    BY DEF Ids, Address
  <2>3. x \in AddedIn(v) => v = 18
    BY AddedFacts DEF AddedIn, Ids, PosId, Version
  <2> QED BY <1>2, <2>1, <2>2, <2>3, <1>0 DEF MadeBy
<1>3. FlagsFit(e)
  <2>1. CASE v = 23 /\ d.sol
    <3>1. e.jobs = InEth(d.jobs)
      BY <2>1, <1>0 DEF MadeBy
    <3>2. \A j \in InEth(d.jobs) :
            j.asset = "ETH" /\ j \in [id : {"j1"}, asset : {"SOL", "ETH"}]
      BY DEF InEth, FlagsFit
    <3> QED BY <2>1, <3>1, <3>2, <1>0 DEF MadeBy, FlagsFit
  <2>2. CASE ~(v = 23 /\ d.sol)
    BY <2>2, <1>0 DEF MadeBy, FlagsFit
  <2> QED BY <2>1, <2>2
<1> QED BY <1>1, <1>2, <1>3 DEF ColumnsFit

\* Applied in its order, a migration gives and takes the error of a job as it should.
LEMMA UpErrs ==
    ASSUME NEW v \in Version, NEW d, NEW w, IsDb(d), FlagsFit(d), ErrorFits(d, w),
           v \notin d.ver, \A n \in Version : n < v => n \in d.ver,
           \A n \in Version : n > v => n \notin d.ver,
           NEW e, e = [Up(v, d) EXCEPT !.ver = @ \cup {v}]
    PROVE  ErrorFits(e, w)
<1>0. MadeBy(v, d, e)
  BY UpMakes
<1>1. CASE v = 20
  <2>1. <<20, JobError>> \in Added
    BY DEF Added, AddedFoundation, By, Of, JobError
  <2>2. JobError \in AddedIn(20)
    BY <2>1 DEF AddedIn
  <2>3. 23 \notin d.ver /\ 23 \notin e.ver /\ e.cols = d.cols \cup AddedIn(20) /\ e.sol = d.sol
    BY <1>0, <1>1 DEF MadeBy, Version
  <2> QED BY <2>2, <2>3 DEF ErrorFits
<1>2. CASE v = 23 /\ d.sol
  BY <1>0, <1>2 DEF MadeBy, ErrorFits
<1>3. CASE v = 23 /\ ~d.sol
  <2>1. 20 \in d.ver /\ 23 \notin d.ver
    BY <1>3 DEF Version
  <2> QED BY <1>0, <1>3, <2>1 DEF MadeBy, ErrorFits
<1>4. CASE v \notin {20, 23}
  <2>1. e.sol = d.sol /\ (23 \in e.ver <=> 23 \in d.ver) /\ (20 \in e.ver <=> 20 \in d.ver)
    BY <1>0, <1>4 DEF MadeBy
  <2>2. JobError \notin AddedIn(v)
    BY <1>4, AddedFacts DEF AddedIn
  <2>3. JobError \notin Ids /\ JobError # Address
    BY DEF JobError, Ids, Address
  <2>4. JobError \in e.cols <=> JobError \in d.cols
    BY <1>0, <1>4, <2>2, <2>3 DEF MadeBy
  <2> QED BY <2>1, <2>4 DEF ErrorFits
<1> QED BY <1>1, <1>2, <1>3, <1>4

-----------------------------------------------------------------------------
(* The rows, as they were before the first opening and as they are         *)

Positions(d, w) ==
    \/ w.positions = {} /\ d.positions = {}
    \/ w.positions = Held /\ d.positions = IF 18 \in d.ver THEN Keyed(Held) ELSE Held
    \/ w.positions = Keyed(Held) /\ 18 \in d.ver /\ d.positions = Keyed(Held)

Unkeyed == {[r EXCEPT !.id = "none"] : r \in Held}
Events(d, w) ==
    \/ w.events = {} /\ d.events = {}
    \/ w.events = Unkeyed /\ d.events = IF 18 \in d.ver THEN ByPub(Unkeyed) ELSE Unkeyed
    \/ w.events = Keyed(Held) /\ 18 \in d.ver /\ d.events = Keyed(Held)

Jobs(d, w) == {j.id : j \in d.jobs} = {j.id : j \in w.jobs}

Snapshot == [id : {1, 2}, at : {1}, address : {"a", "none"}, token : {"a", "none"}]
Snaps(d, w) ==
    /\ d.snaps \subseteq Snapshot /\ w.snaps \subseteq Snapshot
    /\ 27 \notin d.ver => d.snaps \subseteq w.snaps
    /\ \A s, t \in w.snaps : s.id = t.id => s = t
    /\ Token \notin d.cols => \A s \in w.snaps : s.token = "none"
    /\ \A s \in w.snaps : \E t \in d.snaps : t.at = s.at /\ t.id <= s.id
    /\ 27 \in d.ver => \A s \in w.snaps, t \in d.snaps :
                         s.id = t.id /\ "a" \in {s.address, s.token} => t.address = "a"

Kept(d, w) == Positions(d, w) /\ Events(d, w) /\ Jobs(d, w) /\ Snaps(d, w)

\* Applied in its order, a migration loses no row: v18 meets rows without a key, v27
\* snapshots that no migration has yet given an address.
LEMMA UpKeeps ==
    ASSUME NEW v \in Version, NEW d, NEW w, IsDb(d), ColumnsFit(d), FlagsFit(d), Kept(d, w),
           v \notin d.ver, \A n \in Version : n < v => n \in d.ver,
           \A n \in Version : n > v => n \notin d.ver,
           NEW e, e = [Up(v, d) EXCEPT !.ver = @ \cup {v}]
    PROVE  Kept(e, w)
<1>0. MadeBy(v, d, e)
  BY UpMakes
<1>a. v = 18 => PosId \notin d.cols /\ EvId \notin d.cols
  BY DEF ColumnsFit, Ids, PosId, EvId
<1>b. Keyed({}) = {} /\ ByPub({}) = {}
  BY DEF Keyed, ByPub
<1>1. Positions(e, w)
  <2>1. CASE v = 18
    BY <1>0, <1>a, <1>b, <2>1 DEF MadeBy, Positions, Kept
  <2> QED BY <1>0, <2>1 DEF MadeBy, Positions, Kept
<1>2. Events(e, w)
  <2>1. CASE v = 18
    BY <1>0, <1>a, <1>b, <2>1 DEF MadeBy, Events, Kept
  <2> QED BY <1>0, <2>1 DEF MadeBy, Events, Kept
<1>3. Jobs(e, w)
  <2>1. CASE v = 23 /\ d.sol
    <3>1. \A j \in d.jobs : [j EXCEPT !.asset = "ETH"].id = j.id
      BY DEF FlagsFit
    <3>2. {j.id : j \in InEth(d.jobs)} = {j.id : j \in d.jobs}
      BY <3>1 DEF InEth
    <3> QED BY <1>0, <2>1, <3>2 DEF MadeBy, Jobs, Kept
  <2> QED BY <1>0, <2>1 DEF MadeBy, Jobs, Kept
<1>4. Snaps(e, w)
  <2>0. Snaps(d, w)
    BY DEF Kept
  <2>t. Token \in e.cols <=> Token \in d.cols
    <3>1. Token \notin Ids /\ Token # Address /\ Token # JobError
      BY DEF Token, Ids, Address, JobError
    <3>2. Token \notin AddedIn(v)
      BY AddedFacts DEF AddedIn
    <3> QED BY <1>0, <3>1, <3>2 DEF MadeBy, Version
  <2>1. CASE v = 7
    <3>1. e.snaps = FirstOf(d.snaps) /\ 27 \notin e.ver /\ 27 \notin d.ver
      BY <1>0, <2>1 DEF MadeBy, Version
    <3>2. e.snaps \subseteq d.snaps
      BY <3>1 DEF FirstOf
    <3>3. ASSUME NEW s \in w.snaps
          PROVE  \E t \in e.snaps : t.at = s.at /\ t.id <= s.id
      <4>1. PICK t \in d.snaps : t.at = s.at /\ t.id <= s.id
        BY <2>0 DEF Snaps
      <4>2. \A x \in d.snaps : x.at = 1 /\ x.id \in {1, 2}
        BY <2>0 DEF Snaps, Snapshot
      <4>3. s.id \in {1, 2}
        BY <2>0 DEF Snaps, Snapshot
      <4>4. CASE \E x \in d.snaps : x.id = 1
        <5>1. PICK x \in d.snaps : x.id = 1
          BY <4>4
        <5>2. x \in FirstOf(d.snaps)
          BY <5>1, <4>2 DEF FirstOf
        <5> QED BY <5>1, <5>2, <4>1, <4>2, <4>3, <3>1
      <4>5. CASE ~ \E x \in d.snaps : x.id = 1
        <5>2. t \in FirstOf(d.snaps)
          BY <4>5, <4>2 DEF FirstOf
        <5> QED BY <5>2, <4>1, <3>1
      <4> QED BY <4>4, <4>5
    <3> QED BY <3>1, <3>2, <3>3, <2>0, <2>t DEF Snaps
  <2>2. CASE v = 27
    <3>0. 27 \in e.ver /\ d.snaps \subseteq w.snaps
      BY <1>0, <2>2, <2>0 DEF MadeBy, Snaps
    <3>1. CASE Token \notin d.cols
      <4>1. e.snaps = d.snaps
        BY <1>0, <2>2, <3>1 DEF MadeBy
      <4>2. ASSUME NEW s \in w.snaps, NEW t \in e.snaps,
                   s.id = t.id, "a" \in {s.address, s.token}
            PROVE  t.address = "a"
        BY <4>1, <4>2, <3>0, <3>1, <2>0 DEF Snaps
      <4> QED BY <4>1, <4>2, <3>0, <2>0, <2>t DEF Snaps
    <3>2. CASE Token \in d.cols
      <4>1. e.snaps = Addressed(d.snaps)
        BY <1>0, <2>2, <3>2 DEF MadeBy
      <4>2. \A s \in d.snaps : s \in Snapshot
        BY <2>0 DEF Snaps
      <4>3. ASSUME NEW s \in d.snaps
            PROVE  \E t \in e.snaps : t.at = s.at /\ t.id = s.id
        <5>1. CASE s.address = "none"
          <6>1. [s EXCEPT !.address = s.token] \in e.snaps
            BY <5>1, <4>1 DEF Addressed
          <6>2. /\ [s EXCEPT !.address = s.token].at = s.at
                /\ [s EXCEPT !.address = s.token].id = s.id
            BY <4>2 DEF Snapshot
          <6> QED BY <6>1, <6>2
        <5>2. CASE s.address # "none"
          BY <5>2, <4>1 DEF Addressed
        <5> QED BY <5>1, <5>2
      <4>4. ASSUME NEW t \in e.snaps
            PROVE  /\ t \in Snapshot
                   /\ \E s \in d.snaps : /\ s.id = t.id
                                         /\ "a" \in {s.address, s.token} => t.address = "a"
        <5>1. PICK s \in d.snaps : t = IF s.address = "none" THEN [s EXCEPT !.address = s.token]
                                       ELSE s
          BY <4>1 DEF Addressed
        <5>2. CASE s.address = "none"
          BY <5>1, <5>2, <4>2 DEF Snapshot
        <5>3. CASE s.address # "none"
          BY <5>1, <5>3, <4>2 DEF Snapshot
        <5> QED BY <5>2, <5>3
      <4>5. ASSUME NEW s \in w.snaps
            PROVE  \E t \in e.snaps : t.at = s.at /\ t.id <= s.id
        <5>1. PICK u \in d.snaps : u.at = s.at /\ u.id <= s.id
          BY <2>0 DEF Snaps
        <5> QED BY <5>1, <4>3
      <4>6. ASSUME NEW s \in w.snaps, NEW t \in e.snaps,
                   s.id = t.id, "a" \in {s.address, s.token}
            PROVE  t.address = "a"
        <5>1. PICK u \in d.snaps :
                u.id = t.id /\ ("a" \in {u.address, u.token} => t.address = "a")
          BY <4>4
        <5>2. u = s
          BY <5>1, <4>6, <3>0, <2>0 DEF Snaps
        <5> QED BY <5>1, <5>2, <4>6
      <4>7. e.snaps \subseteq Snapshot
        BY <4>4
      <4> QED BY <4>5, <4>6, <4>7, <3>0, <2>0, <2>t DEF Snaps
    <3> QED BY <3>1, <3>2
  <2>3. CASE v \notin {7, 27}
    BY <1>0, <2>0, <2>3, <2>t DEF MadeBy, Snaps
  <2> QED BY <2>1, <2>2, <2>3
<1> QED BY <1>1, <1>2, <1>3, <1>4 DEF Kept

-----------------------------------------------------------------------------
(* Databases as earlier builds left them                                   *)

LeftBy(k, sol, early, d) ==
    /\ IsDb(d) /\ d.ver = 1 .. k /\ d.sol = sol /\ d.unique = (k >= 7)
    /\ d.cols = (AddedUpTo(k) \ IF early THEN {Address} ELSE {})
                  \cup IF early THEN {Token} ELSE {}
    /\ d.positions = IF k = 0 THEN {} ELSE IF k < 18 THEN Held ELSE Keyed(Held)
    /\ d.events = IF k < 16 THEN {} ELSE IF k < 18 THEN Unkeyed ELSE Keyed(Held)
    /\ d.snaps = IF k < 4 THEN {} ELSE Snapshots(k, early)
    /\ d.jobs = IF k < 20 THEN {} ELSE {[id |-> "j1", asset |-> IF sol THEN "SOL" ELSE "ETH"]}

LEMMA FilledMakes ==
    ASSUME NEW k \in 0 .. 27, NEW sol \in BOOLEAN, NEW early \in BOOLEAN,
           NEW d, d = Filled(k, sol, early)
    PROVE  LeftBy(k, sol, early, d)
<1> DEFINE u == k >= 7
           c == (AddedUpTo(k) \ IF early THEN {Address} ELSE {})
                  \cup IF early THEN {Token} ELSE {}
           po == IF k = 0 THEN {} ELSE IF k < 18 THEN Held ELSE Keyed(Held)
           ev == IF k < 16 THEN {} ELSE IF k < 18 THEN Unkeyed ELSE Keyed(Held)
           sn == IF k < 4 THEN {} ELSE Snapshots(k, early)
           jb == IF k < 20 THEN {} ELSE {[id |-> "j1", asset |-> IF sol THEN "SOL" ELSE "ETH"]}
           l == Left(k)
<1>1. IsDb(l) /\ l.ver = 1 .. k /\ l.cols = AddedUpTo(k) /\ l.unique = u
  BY DEF Left, Fresh, IsDb
<1>2. Of("pool_snapshots", {"address"}) = {Address} /\ Of("pool_snapshots", {"token"}) = {Token}
  BY DEF Of, Address, Token
<1>3. d = [l EXCEPT !.cols = c, !.sol = sol, !.positions = po, !.events = ev, !.snaps = sn,
                    !.jobs = jb]
  BY <1>1, <1>2, ZenonT(60) DEF Filled, Unkeyed
<1> HIDE DEF u, c, po, ev, sn, jb, l
<1>4. /\ DOMAIN d = DOMAIN l /\ d.ver = l.ver /\ d.sol = sol /\ d.unique = l.unique
      /\ d.cols = c /\ d.positions = po /\ d.events = ev /\ d.snaps = sn /\ d.jobs = jb
  BY <1>1, <1>3 DEF IsDb
<1> QED BY <1>1, <1>4, Zenon DEF LeftBy, IsDb, u, c, po, ev, sn, jb

LEMMA TopVersion == ASSUME NEW k \in 0 .. 27 PROVE 27 \in 1 .. k => k = 27
  OBVIOUS

LEMMA FilledFits ==
    ASSUME NEW k \in 0 .. 27, NEW sol \in BOOLEAN, NEW early \in BOOLEAN,
           sol => k \in 20 .. 22, early => k = 26,
           NEW d, d = Filled(k, sol, early)
    PROVE  /\ IsDb(d) /\ ColumnsFit(d) /\ FlagsFit(d) /\ Kept(d, d) /\ d.ver = 1 .. k
           /\ ErrorFits(d, d)
<1>f. LeftBy(k, sol, early, d)
  BY FilledMakes
<1>0. Token # Address /\ Token \notin Ids /\ Token # JobError
  BY DEF Token, Address, Ids, JobError
<1>1. IsDb(d) /\ d.ver = 1 .. k
  BY <1>f DEF LeftBy
<1>2. d.cols = (AddedUpTo(k) \ IF early THEN {Address} ELSE {})
                 \cup IF early THEN {Token} ELSE {}
  BY <1>f DEF LeftBy
<1>3. ColumnsFit(d)
  <2>1. ASSUME NEW a \in Added, a[1] \in d.ver
        PROVE  a[2] \in d.cols \/ a[2] = JobError \/ (a[2] = Address /\ 27 \notin d.ver)
    <3>1. a[2] \in AddedUpTo(k)
      BY <2>1, <1>1, AddedFacts DEF AddedUpTo, Version
    <3> QED BY <3>1, <1>1, <1>2
  <2>2. ASSUME NEW x \in Ids, x \in d.cols
        PROVE  18 \in d.ver
    <3>1. x \in AddedUpTo(k)
      BY <2>2, <1>2, <1>0
    <3>2. PICK a \in Added : a[1] <= k /\ a[2] = x
      BY <3>1 DEF AddedUpTo
    <3>3. a[1] = 18
      BY <3>2, AddedFacts DEF Ids, PosId
    <3> QED BY <3>2, <3>3, <1>1
  <2> QED BY <2>1, <2>2 DEF ColumnsFit
<1>4. d.jobs = {} \/ d.jobs = {[id |-> "j1", asset |-> IF sol THEN "SOL" ELSE "ETH"]}
  BY <1>f DEF LeftBy
<1>5. d.sol = sol /\ d.unique = (k >= 7)
  BY <1>f DEF LeftBy
<1>6. FlagsFit(d)
  <2>1. \A j \in d.jobs : /\ j \in [id : {"j1"}, asset : {"SOL", "ETH"}]
                          /\ ~sol => j.asset = "ETH"
    BY <1>4
  <2>2. d.jobs \subseteq [id : {"j1"}, asset : {"SOL", "ETH"}]
    BY <2>1
  <2>3. (7 \in d.ver => k >= 7) /\ (23 \in d.ver => ~sol)
    BY <1>1
  <2> QED BY <1>5, <2>1, <2>2, <2>3 DEF FlagsFit
<1>7. Positions(d, d) /\ Events(d, d) /\ Jobs(d, d)
  <2>1. d.positions = IF k = 0 THEN {} ELSE IF k < 18 THEN Held ELSE Keyed(Held)
    BY <1>f DEF LeftBy
  <2>2. d.events = IF k < 16 THEN {} ELSE IF k < 18 THEN Unkeyed ELSE Keyed(Held)
    BY <1>f DEF LeftBy
  <2> QED BY <2>1, <2>2, <1>1 DEF Positions, Events, Jobs
<1>8. Snaps(d, d)
  <2>1. d.snaps = IF k < 4 THEN {} ELSE Snapshots(k, early)
    BY <1>f DEF LeftBy
  <2>2. ASSUME NEW s \in Snapshots(k, early)
        PROVE  /\ s \in Snapshot
               /\ s.address = IF k >= 26 /\ ~early THEN "a" ELSE "none"
               /\ s.token = IF early THEN "a" ELSE "none"
    BY DEF Snapshots, Snapshot
  <2>3. ASSUME NEW s \in Snapshots(k, early), NEW t \in Snapshots(k, early), s.id = t.id
        PROVE  s = t
    <3>1. PICK i \in (IF k < 7 THEN {1, 2} ELSE {1}) : s = [id |-> i, at |-> 1,
                                  address |-> IF k >= 26 /\ ~early THEN "a" ELSE "none",
                                  token |-> IF early THEN "a" ELSE "none"]
      BY Zenon DEF Snapshots
    <3>2. PICK j \in (IF k < 7 THEN {1, 2} ELSE {1}) : t = [id |-> j, at |-> 1,
                                  address |-> IF k >= 26 /\ ~early THEN "a" ELSE "none",
                                  token |-> IF early THEN "a" ELSE "none"]
      BY Zenon DEF Snapshots
    <3>3. i = j
      BY <2>3, <3>1, <3>2
    <3> QED BY <3>1, <3>2, <3>3, Zenon
  <2>4. Token \in d.cols \/ ~early
    BY <1>2
  <2>5. \A s \in d.snaps : s \in Snapshots(k, early)
    BY <2>1
  <2>6. \A s \in d.snaps : s.at = s.at /\ s.id <= s.id
    BY <2>5, <2>2 DEF Snapshot
  <2>7. 27 \in d.ver => k >= 26 /\ ~early
    <3>1. 27 \in d.ver => k = 27
      BY <1>1, TopVersion
    <3>2. early => k = 26
      OBVIOUS
    <3> QED BY <3>1, <3>2
  <2>8. d.snaps \subseteq Snapshot
    BY <2>5, <2>2
  <2>9. \A s, t \in d.snaps : s.id = t.id => s = t
    BY <2>5, <2>3
  <2>a. Token \notin d.cols => \A s \in d.snaps : s.token = "none"
    BY <2>4, <2>5, <2>2
  <2>b. 27 \in d.ver => \A t \in d.snaps : t.address = "a"
    BY <2>7, <2>5, <2>2
  <2> QED BY <2>6, <2>8, <2>9, <2>a, <2>b DEF Snaps
<1>9. ErrorFits(d, d)
  <2>1. 20 \in d.ver => k >= 20
    BY <1>1
  <2>2. 23 \in d.ver => k \notin 20 .. 22
    BY <1>1
  <2>3. <<20, JobError>> \in Added
    BY DEF Added, AddedFoundation, By, Of, JobError
  <2>4. JobError # Address
    BY DEF JobError, Address
  <2>5. 20 \in d.ver => JobError \in d.cols
    BY <1>2, <2>1, <2>3, <2>4 DEF AddedUpTo
  <2> QED BY <1>5, <2>2, <2>5 DEF ErrorFits
<1> QED BY <1>1, <1>3, <1>6, <1>7, <1>8, <1>9 DEF Kept

-----------------------------------------------------------------------------
(* The invariant                                                           *)

Upto(d) == \E n \in 0 .. 27 : d.ver = 1 .. n

DbFits ==
    /\ IsDb(db) /\ Upto(db) /\ ColumnsFit(db) /\ FlagsFit(db)
    /\ Kept(db, was) /\ ErrorFits(db, was)

Opening == [pc : {"off", "check", "apply", "ready"}, next : 0 .. 28, loaded : BOOLEAN]
ProcFits ==
    /\ proc \in [Process -> Opening]
    /\ \A p \in Process :
         /\ proc[p].pc # "off" => /\ proc[p].next \in 1 .. 28
                                  /\ \A n \in Version : n < proc[p].next => n \in db.ver
         /\ proc[p].pc = "apply" => proc[p].next \in Version
         /\ proc[p].pc = "ready" => proc[p].next = 28

SchemaInv == DbFits /\ ProcFits

LEMMA SchemaInit == Init => SchemaInv
<1> SUFFICES ASSUME Init PROVE SchemaInv
  OBVIOUS
<1>1. PICK k \in 0 .. 27, sol \in BOOLEAN, early \in BOOLEAN :
        (sol => k \in 20 .. 22) /\ (early => k = 26) /\ db = Filled(k, sol, early)
  BY DEF Init
<1>2. was = db
  BY DEF Init
<1>3. /\ IsDb(db) /\ ColumnsFit(db) /\ FlagsFit(db) /\ Kept(db, db) /\ db.ver = 1 .. k
      /\ ErrorFits(db, db)
  BY <1>1, FilledFits
<1>4. DbFits
  BY <1>2, <1>3 DEF DbFits, Upto
<1>5. ProcFits
  BY DEF Init, Off, ProcFits, Opening
<1> QED BY <1>4, <1>5 DEF SchemaInv

\* The version read once is the highest, and all below it have been applied.
LEMMA LastVersion == ASSUME DbFits PROVE Last \in 0 .. 27 /\ db.ver = 1 .. Last
<1>1. PICK n \in 0 .. 27 : db.ver = 1 .. n
  BY DEF DbFits, Upto
<1>2. n \in db.ver \cup {0} /\ \A m \in db.ver \cup {0} : n >= m
  <2>1. n = 0 \/ n \in 1 .. n
    OBVIOUS
  <2>2. \A m \in 1 .. n : n >= m
    OBVIOUS
  <2>3. n >= 0
    OBVIOUS
  <2> QED BY <2>1, <2>2, <2>3, <1>1
<1>3. Last = n
  <2> DEFINE S == db.ver \cup {0}
  <2>1. Last = CHOOSE x \in S : \A y \in S : x >= y
    BY Zenon DEF Last, Max
  <2>2. PICK x \in S : Last = x /\ \A y \in S : x >= y
    BY <1>2, <2>1
  <2>3. x \in Int /\ n \in Int /\ x >= n /\ n >= x
    BY <1>1, <1>2, <2>2
  <2> QED BY <2>2, <2>3
<1> QED BY <1>1, <1>3

LEMMA NextVersion ==
    ASSUME NEW v \in Version, NEW m \in 0 .. 27, NEW S, S = 1 .. m, v \notin S,
           \A n \in Version : n < v => n \in S
    PROVE  v = m + 1
<1>1. v > m
  BY DEF Version
<1>2. CASE v > m + 1
  <2>1. m + 1 \in Version /\ m + 1 < v
    BY <1>2 DEF Version
  <2>2. m + 1 \notin S
    OBVIOUS
  <2> QED BY <2>1, <2>2
<1> QED BY <1>1, <1>2 DEF Version

\* The versions up to m, and the ones below v + 1.
LEMMA Prefix ==
    ASSUME NEW m \in 0 .. 27, NEW S, S = 1 .. m
    PROVE  /\ m + 1 \in 1 .. 28 /\ m + 1 \in 0 .. 28
           /\ \A n \in Version : n < m + 1 => n \in S
           /\ \A n \in Version : n > m => n \notin S
  BY DEF Version

LEMMA Successor ==
    ASSUME NEW v \in Version
    PROVE  /\ v \in 0 .. 27 /\ v \in 0 .. 28 /\ v + 1 \in 1 .. 28 /\ v + 1 \in 0 .. 28
           /\ \A n \in Version : n < v + 1 => n < v \/ n = v
  BY DEF Version

\* One process moves to o, which the database it leaves vouches for; the others stand.
LEMMA ProcMoves ==
    ASSUME ProcFits, NEW p \in Process, NEW o \in Opening, proc' = [proc EXCEPT ![p] = o],
           \A n \in Version : n \in db.ver => n \in db'.ver,
           o.pc # "off" => /\ o.next \in 1 .. 28
                           /\ \A n \in Version : n < o.next => n \in db'.ver,
           o.pc = "apply" => o.next \in Version,
           o.pc = "ready" => o.next = 28
    PROVE  ProcFits'
<1>1. proc \in [Process -> Opening]
  BY DEF ProcFits
<1>2. proc' \in [Process -> Opening] /\ proc'[p] = o
  BY <1>1
<1>3. \A q \in Process \ {p} : proc'[q] = proc[q]
  BY <1>1
<1>4. ASSUME NEW q \in Process, proc'[q].pc # "off"
      PROVE  /\ proc'[q].next \in 1 .. 28
             /\ \A n \in Version : n < proc'[q].next => n \in db'.ver
  <2>1. CASE q = p
    BY <2>1, <1>2, <1>4
  <2>2. CASE q # p
    BY <2>2, <1>3, <1>4 DEF ProcFits
  <2> QED BY <2>1, <2>2
<1>5. ASSUME NEW q \in Process
      PROVE  /\ proc'[q].pc = "apply" => proc'[q].next \in Version
             /\ proc'[q].pc = "ready" => proc'[q].next = 28
  <2>1. CASE q = p
    BY <2>1, <1>2
  <2>2. CASE q # p
    BY <2>2, <1>3 DEF ProcFits
  <2> QED BY <2>1, <2>2
<1> QED BY <1>2, <1>4, <1>5, Zenon DEF ProcFits

LEMMA ProcGoes ==
    ASSUME ProcFits, NEW p \in Process, NEW c \in {"check", "apply", "ready"},
           NEW n \in 1 .. 28, Goto(p, c, n),
           \A m \in Version : m \in db.ver => m \in db'.ver,
           \A m \in Version : m < n => m \in db'.ver,
           c = "apply" => n \in Version,
           c = "ready" => n = 28
    PROVE  ProcFits'
<1> DEFINE o == [proc[p] EXCEPT !.pc = c, !.next = n]
<1>1. proc[p] \in Opening
  BY DEF ProcFits
<1>2. n \in 0 .. 28
  OBVIOUS
<1>3. o \in Opening /\ o.pc = c /\ o.next = n
  BY <1>1, <1>2 DEF Opening
<1>4. proc' = [proc EXCEPT ![p] = o]
  BY DEF Goto
<1> HIDE DEF o
<1> QED BY <1>3, <1>4, ProcMoves

\* Only Apply changes the database, by one migration; what throws rolls back.
LEMMA SchemaNext == SchemaInv /\ [Next]_vars => SchemaInv'
<1> SUFFICES ASSUME SchemaInv, [Next]_vars PROVE SchemaInv'
  OBVIOUS
<1>f. DbFits /\ ProcFits
  BY DEF SchemaInv
<1>k. ASSUME UNCHANGED <<db, was>> PROVE DbFits'
  <2>1. IsDb(db)' /\ Upto(db)'
    BY <1>k, <1>f DEF DbFits, Upto, IsDb
  <2>2. ColumnsFit(db)' /\ FlagsFit(db)'
    BY <1>k, <1>f DEF DbFits, ColumnsFit, FlagsFit
  <2>3. Kept(db, was)'
    <3>1. Positions(db, was)' /\ Events(db, was)'
      BY <1>k, <1>f DEF DbFits, Kept, Positions, Events
    <3>2. Jobs(db, was)' /\ Snaps(db, was)'
      BY <1>k, <1>f DEF DbFits, Kept, Jobs, Snaps
    <3> QED BY <3>1, <3>2 DEF Kept
  <2>4. ErrorFits(db, was)'
    BY <1>k, <1>f DEF DbFits, ErrorFits
  <2> QED BY <2>1, <2>2, <2>3, <2>4 DEF DbFits
<1>1. ASSUME NEW p \in Process, Open(p) PROVE SchemaInv'
  <2>1. PICK l \in BOOLEAN :
          proc' = [proc EXCEPT ![p] = [pc |-> "check", next |-> Last + 1, loaded |-> l]]
    BY <1>1 DEF Open
  <2>2. UNCHANGED <<db, was>>
    BY <1>1 DEF Open
  <2>3. Last \in 0 .. 27 /\ db.ver = 1 .. Last
    BY <1>f, LastVersion
  <2> DEFINE o == [pc |-> "check", next |-> Last + 1, loaded |-> l]
  <2>4. /\ o \in Opening /\ o.next \in 1 .. 28 /\ o.pc = "check"
        /\ \A n \in Version : n < o.next => n \in db'.ver
    <3>1. Last + 1 \in 1 .. 28 /\ Last + 1 \in 0 .. 28
      BY <2>3, Prefix
    <3>2. \A n \in Version : n < Last + 1 => n \in db.ver
      BY <2>3, Prefix
    <3>3. o.next = Last + 1 /\ o.pc = "check"
      OBVIOUS
    <3>4. o \in Opening
      BY <3>1 DEF Opening
    <3> HIDE DEF o
    <3> QED BY <3>1, <3>2, <3>3, <3>4, <2>2
  <2>5. ProcFits'
    BY <2>1, <2>2, <2>4, <1>f, ProcMoves
  <2> QED BY <1>k, <2>2, <2>5 DEF SchemaInv
<1>2. ASSUME NEW p \in Process, Check(p) PROVE SchemaInv'
  <2>1. UNCHANGED <<db, was>> /\ proc[p].pc = "check" /\ proc[p].next \in Version
    BY <1>2 DEF Check, At
  <2>2. \A n \in Version : n < proc[p].next => n \in db.ver
    BY <2>1, <1>f, Zenon DEF ProcFits
  <2>3. CASE proc[p].next \in db.ver
    <3>1. Goto(p, "check", proc[p].next + 1)
      BY <1>2, <2>3 DEF Check
    <3>2. /\ proc[p].next + 1 \in 1 .. 28
          /\ \A n \in Version : n < proc[p].next + 1 => n < proc[p].next \/ n = proc[p].next
      BY <2>1, Successor
    <3>3. \A n \in Version : n < proc[p].next + 1 => n \in db'.ver
      BY <3>2, <2>1, <2>2, <2>3, Zenon
    <3>4. ProcFits'
      BY <3>1, <3>2, <3>3, <2>1, <1>f, ProcGoes
    <3> QED BY <1>k, <2>1, <3>4 DEF SchemaInv
  <2>4. CASE proc[p].next \notin db.ver
    <3>1. Goto(p, "apply", proc[p].next)
      BY <1>2, <2>4 DEF Check
    <3>2. proc[p].next \in 1 .. 28
      BY <2>1 DEF Version
    <3>3. ProcFits'
      BY <3>1, <3>2, <2>1, <2>2, <1>f, ProcGoes
    <3> QED BY <1>k, <2>1, <3>3 DEF SchemaInv
  <2> QED BY <2>3, <2>4
<1>3. ASSUME NEW p \in Process, Dies(p), UNCHANGED <<db, was>> PROVE SchemaInv'
  <2>1. proc' = [proc EXCEPT ![p] = Off]
    BY <1>3 DEF Dies
  <2>2. Off \in Opening /\ Off.pc = "off"
    BY DEF Off, Opening
  <2>3. ProcFits'
    BY <2>1, <2>2, <1>3, <1>f, ProcMoves
  <2> QED BY <1>k, <1>3, <2>3 DEF SchemaInv
<1>4. ASSUME NEW p \in Process, Apply(p) PROVE SchemaInv'
  <2> DEFINE v == proc[p].next
  <2>1. was' = was /\ proc[p].pc = "apply" /\ v \in Version
    BY <1>4, <1>f DEF Apply, At, ProcFits
  <2>2. proc[p] \in Opening
    BY <1>f DEF ProcFits
  <2>3. CASE v \in db.ver \/ Throws(v, db)
    BY <1>3, <1>4, <2>3 DEF Apply
  <2>4. CASE ~(v \in db.ver \/ Throws(v, db))
    <3>1. /\ db' = [Up(v, db) EXCEPT !.ver = @ \cup {v}]
          /\ Goto(p, "check", v + 1)
      BY <1>4, <2>4 DEF Apply
    <3>2. \A n \in Version : n < v => n \in db.ver
      BY <2>1, <1>f DEF ProcFits
    <3>4. db.ver = 1 .. Last /\ Last \in 0 .. 27
      BY <1>f, LastVersion
    <3>3. v = Last + 1
      BY <2>1, <2>4, <3>2, <3>4, NextVersion
    <3>5. \A n \in Version : n > v => n \notin db.ver
      <4>1. \A n \in Version : n > Last => n \notin db.ver
        BY <3>4, Prefix
      <4>2. \A n \in Version : n > Last + 1 => n > Last
        BY <3>4 DEF Version
      <4> QED BY <4>1, <4>2, <3>3
    <3>6. MadeBy(v, db, db')
      BY <3>1, <2>1, <1>f, UpMakes DEF DbFits
    <3>7. ColumnsFit(db') /\ FlagsFit(db')
      BY <3>1, <3>2, <2>1, <2>4, <1>f, UpFits DEF DbFits
    <3>8. Kept(db', was)
      BY <3>1, <3>2, <3>5, <2>1, <2>4, <1>f, UpKeeps DEF DbFits
    <3>16. ErrorFits(db', was)
      BY <3>1, <3>2, <3>5, <2>1, <2>4, <1>f, UpErrs DEF DbFits
    <3>9. IsDb(db') /\ db'.ver = db.ver \cup {v}
      BY <3>6 DEF MadeBy
    <3>10. db'.ver = 1 .. v
      BY <3>3, <3>4, <3>9
    <3>11. DbFits'
      <4>1. v \in 0 .. 27
        BY <2>1, Successor
      <4>2. Upto(db')
        BY <4>1, <3>10 DEF Upto
      <4> QED BY <3>7, <3>8, <3>9, <3>16, <4>2, <2>1 DEF DbFits
    <3>12. v \in 0 .. 27 /\ v + 1 \in 1 .. 28
      BY <2>1, Successor
    <3>14. \A n \in Version : n < v + 1 => n \in db'.ver
      BY <3>10, <3>12, Prefix
    <3>15. \A n \in Version : n \in db.ver => n \in db'.ver
      BY <3>9
    <3>13. ProcFits'
      BY <3>1, <3>12, <3>14, <3>15, <1>f, ProcGoes
    <3> QED BY <3>11, <3>13 DEF SchemaInv
  <2> QED BY <2>3, <2>4
<1>5. ASSUME NEW p \in Process, Heal(p) PROVE SchemaInv'
  <2>1. /\ UNCHANGED <<db, was>> /\ proc[p].pc = "check" /\ proc[p].next \notin Version
        /\ Goto(p, "ready", proc[p].next)
    BY <1>5 DEF Heal, At
  <2>2. /\ proc[p].next \in 1 .. 28
        /\ \A n \in Version : n < proc[p].next => n \in db.ver
    BY <2>1, <1>f, Zenon DEF ProcFits
  <2>3. proc[p].next = 28
    BY <2>1, <2>2 DEF Version
  <2>6. ProcFits'
    BY <2>1, <2>2, <2>3, <1>f, ProcGoes
  <2> QED BY <1>k, <2>1, <2>6 DEF SchemaInv
<1>6. CASE UNCHANGED vars
  BY <1>6, <1>k, <1>f DEF vars, SchemaInv, ProcFits
<1>7. CASE Next
  <2>1. PICK p \in Process : Open(p) \/ Check(p) \/ Apply(p) \/ Busy(p) \/ Heal(p) \/ Leave(p)
    BY <1>7 DEF Next
  <2>2. CASE Busy(p)
    BY <2>2, <1>3 DEF Busy
  <2>3. CASE Leave(p)
    BY <2>3, <1>3 DEF Leave
  <2> QED BY <2>1, <2>2, <2>3, <1>1, <1>2, <1>4, <1>5
<1> QED BY <1>6, <1>7

\* Held and what v18 makes of it have two rows.
LEMMA TwoRows ==
    /\ Cardinality(Held) = 2 /\ Cardinality(Keyed(Held)) = 2
    /\ Cardinality(Unkeyed) = 2 /\ Cardinality(ByPub(Unkeyed)) = 2
<1>1. ASSUME NEW S, NEW a, NEW b, S = {a, b}, a # b PROVE Cardinality(S) = 2
  <2>1. IsFiniteSet({b}) /\ Cardinality({b}) = 1
    BY FS_Singleton
  <2>2. Cardinality({b} \cup {a}) = Cardinality({b}) + 1
    BY <1>1, <2>1, FS_AddElement
  <2>3. S = {b} \cup {a}
    BY <1>1
  <2> QED BY <2>1, <2>2, <2>3
<1> DEFINE r == [pool |-> "p1", pub |-> "k1", id |-> "p1"]
           q == [pool |-> "p2", pub |-> "none", id |-> "p2"]
<1>2. Held = {r, q}
  BY Zenon DEF Held
<1>3. /\ r.pool = "p1" /\ q.pool = "p2"
      /\ [r EXCEPT !.id = Key(r)].pool = "p1" /\ [q EXCEPT !.id = Key(q)].pool = "p2"
      /\ [r EXCEPT !.id = "none"].pool = "p1" /\ [q EXCEPT !.id = "none"].pool = "p2"
  OBVIOUS
<1>4. Keyed(Held) = {[r EXCEPT !.id = Key(r)], [q EXCEPT !.id = Key(q)]}
  BY <1>2, Zenon DEF Keyed
<1> DEFINE x == [r EXCEPT !.id = "none"]
           y == [q EXCEPT !.id = "none"]
<1>5. Unkeyed = {x, y}
  BY <1>2, Zenon DEF Unkeyed
<1>6. [x EXCEPT !.id = x.pub].pool = "p1" /\ [y EXCEPT !.id = y.pub].pool = "p2"
  OBVIOUS
<1>7. ByPub(Unkeyed) = {[x EXCEPT !.id = x.pub], [y EXCEPT !.id = y.pub]}
  BY <1>5, Zenon DEF ByPub
<1> HIDE DEF r, q, x, y
<1>8. Cardinality(Held) = 2
  BY <1>1, <1>2, <1>3
<1>9. Cardinality(Keyed(Held)) = 2
  <2>1. [r EXCEPT !.id = Key(r)] # [q EXCEPT !.id = Key(q)]
    BY <1>3
  <2> QED BY <1>1, <1>4, <2>1
<1>10. Cardinality(Unkeyed) = 2
  BY <1>1, <1>3, <1>5 DEF x, y
<1>11. Cardinality(ByPub(Unkeyed)) = 2
  <2>1. [x EXCEPT !.id = x.pub] # [y EXCEPT !.id = y.pub]
    BY <1>6
  <2> QED BY <1>1, <1>7, <2>1
<1> QED BY <1>8, <1>9, <1>10, <1>11

LEMMA SchemaKept == SchemaInv => QueriesHold /\ RowsKept
<1> SUFFICES ASSUME SchemaInv PROVE QueriesHold /\ RowsKept
  OBVIOUS
<1>f. DbFits /\ ProcFits
  BY DEF SchemaInv
<1>1. ASSUME NEW p \in Process, At(p, "ready")
      PROVE  /\ PositionWrite \cup EventWrite \cup SnapshotWrite \cup ClaimWrite
                  \subseteq db.cols
             /\ JobWrite \ db.cols = IF was.sol THEN Of("settlement_jobs", {"error"}) ELSE {}
             /\ db.unique /\ ~db.sol /\ \A j \in db.jobs : j.asset = "ETH"
  <2>1. \A n \in Version : n \in db.ver
    BY <1>1, <1>f DEF ProcFits, At, Version
  <2>2. db.unique /\ ~db.sol /\ \A j \in db.jobs : j.asset = "ETH"
    BY <2>1, <1>f DEF DbFits, FlagsFit, Version
  <2>3. ASSUME NEW c \in PositionWrite \cup EventWrite \cup SnapshotWrite \cup ClaimWrite
                           \cup JobWrite
        PROVE  c \in db.cols \/ c = JobError
    <3>1. PICK v \in Version : <<v, c>> \in Added
      BY WrittenIsAdded
    <3>2. c \in db.cols \/ c = JobError \/ (c = Address /\ 27 \notin db.ver)
      BY <3>1, <2>1, <1>f DEF DbFits, ColumnsFit
    <3> QED BY <3>2, <2>1 DEF Version
  <2>4. JobError \notin PositionWrite \cup EventWrite \cup SnapshotWrite \cup ClaimWrite
    BY DEF JobError, PositionWrite, EventWrite, SnapshotWrite, ClaimWrite, Copied, Of,
           OperatorFees
  <2>5. Of("settlement_jobs", {"error"}) = {JobError} /\ JobError \in JobWrite
    BY DEF Of, JobError, JobWrite
  <2>6. JobError \in db.cols <=> ~was.sol
    BY <2>1, <1>f DEF DbFits, ErrorFits, Version
  <2>7. JobWrite \ db.cols = IF was.sol THEN {JobError} ELSE {}
    <3>1. CASE was.sol
      BY <2>3, <2>5, <2>6, <3>1
    <3>2. CASE ~was.sol
      BY <2>3, <2>6, <3>2
    <3> QED BY <3>1, <3>2
  <2> QED BY <2>2, <2>3, <2>4, <2>5, <2>7, Zenon
<1>2. QueriesHold
  BY <1>1 DEF QueriesHold
<1>3. Kept(db, was)
  BY <1>f DEF DbFits
<1>4. Cardinality(db.positions) = Cardinality(was.positions)
  BY <1>3, TwoRows DEF Kept, Positions
<1>5. Cardinality(db.events) = Cardinality(was.events)
  BY <1>3, TwoRows DEF Kept, Events
<1>6. 18 \in db.ver => \A r \in was.positions : [r EXCEPT !.id = Key(r)] \in db.positions
  <2>1. \A r \in Held : r \in [pool : {"p1", "p2"}, pub : {"k1", "none"}, id : {"p1", "p2"}]
    BY DEF Held
  <2>2. ASSUME NEW r \in Keyed(Held) PROVE [r EXCEPT !.id = Key(r)] \in Keyed(Held)
    <3>1. PICK h \in Held : r = [h EXCEPT !.id = Key(h)]
      BY <2>2 DEF Keyed
    <3>2. r.pool = h.pool /\ r.pub = h.pub
      BY <2>1, <3>1
    <3>3. Key(r) = Key(h)
      BY <3>2 DEF Key
    <3>4. [r EXCEPT !.id = Key(r)] = [h EXCEPT !.id = Key(h)]
      BY <2>1, <3>1, <3>3
    <3> QED BY <3>4 DEF Keyed
  <2>3. \A r \in Held : [r EXCEPT !.id = Key(r)] \in Keyed(Held)
    BY DEF Keyed
  <2> QED BY <1>3, <2>2, <2>3 DEF Kept, Positions
<1>7. 18 \in db.ver => \A r \in was.events :
                        r.pub # "none" => [r EXCEPT !.id = r.pub] \in db.events
  <2>1. \A r \in Held : r \in [pool : {"p1", "p2"}, pub : {"k1", "none"}, id : {"p1", "p2"}]
    BY DEF Held
  <2>2. ASSUME NEW r \in Keyed(Held), r.pub # "none"
        PROVE  [r EXCEPT !.id = r.pub] \in Keyed(Held)
    <3>1. PICK h \in Held : r = [h EXCEPT !.id = Key(h)]
      BY <2>2 DEF Keyed
    <3>2. r.pub = h.pub /\ Key(h) = r.pub
      BY <2>1, <2>2, <3>1 DEF Key
    <3>4. [r EXCEPT !.id = r.pub] = [h EXCEPT !.id = Key(h)]
      BY <2>1, <3>1, <3>2
    <3> QED BY <3>4 DEF Keyed
  <2>3. \A r \in Unkeyed : [r EXCEPT !.id = r.pub] \in ByPub(Unkeyed)
    BY DEF ByPub
  <2> QED BY <1>3, <2>2, <2>3 DEF Kept, Events
<1> QED BY <1>2, <1>3, <1>4, <1>5, <1>6, <1>7 DEF RowsKept, Kept, Jobs, Snaps

\* Whoever opened the file finds the columns its statements name, but for the error of a
\* job, which is missing just where v23 rebuilt jobs held to SOL; and no position, event,
\* job or snapshot is lost or doubled by a migration that is begun twice, is killed or
\* races (runMigrations), for any processes and any number of openings.
THEOREM MigrationsKeepData == Spec => [](QueriesHold /\ RowsKept)
<1>1. Init => SchemaInv
  BY SchemaInit
<1>2. SchemaInv /\ [Next]_vars => SchemaInv'
  BY SchemaNext
<1>3. SchemaInv => QueriesHold /\ RowsKept
  BY SchemaKept
<1> QED BY <1>1, <1>2, <1>3, PTL DEF Spec
=============================================================================
