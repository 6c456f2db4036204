---------------------------- MODULE CandidateBook ----------------------------
(* Which pools a cycle scans and which of them it may enter                  *)
(* (src/engine/program.ts, candidate-policy.ts, candidate-discovery.ts,      *)
(* market-gate.ts, screener-service.ts, fallen-angel-service.ts).  Five      *)
(* sources feed the scan set: the watchlist, the ranked market, the          *)
(* autonomous candidates with their persisted lifecycle, the fallen angels   *)
(* and the harvest book; open positions stay scanned whatever the sources    *)
(* say.  One step is one refresh, one candidate's scan and save, one         *)
(* evaluation; a restart may come between any two and reloads the table.     *)
EXTENDS Integers, FiniteSets, Sequences

CONSTANTS Listing,      \* the discovered pools a page may show (records, see Pool)
          Watchlist,    \* pools the operator approved
          Tvl,          \* [dust, min, max]: the bounds of the gates
          Active,       \* MARKET_SCAN_ACTIVE_COUNT
          MinHealthy,   \* candidateMinHealthyScans
          Restarts      \* bound: restarts

VARIABLES cand,       \* autonomousCandidates: pool -> record, in memory
          table,      \* token_candidates: what the database holds
          book,       \* [auto, market, angels, harvest, ever]: the sets of pools
          scan,       \* poolsToScan
          unresolved, \* unresolvedPoolAddresses
          open,       \* pools with an open tracked position
          phase, todo, found, \* place in the cycle, pools left in it, this page
          resting,    \* ghost: pools whose cooldown period still runs
          entrants,   \* ghost: open positions entered as a candidate only
          streak,     \* ghost: healthy scans in a row that were recorded
          saving,     \* the pool whose changed record is not written yet
          lost,       \* ghost: pools whose record a restart found unwritten
          restarts
vars == <<cand, table, book, scan, unresolved, open, phase, todo, found,
          resting, entrants, streak, saving, lost, restarts>>
ghosts == <<resting, entrants, streak, lost>>

Pool == {d.pool : d \in Listing} \cup Watchlist
States == {"discovered", "observing", "eligible", "entered", "cooling_down"}
Candidate == [state : States, scans : 0..MinHealthy, aged : BOOLEAN]
Partial(S, T) == UNION {[A -> T] : A \in SUBSET S}
Phases == {"boot", "reconcile", "candidates", "books", "loop"}
TypeOK == /\ {cand, table} \subseteq Partial(Pool, Candidate)
          /\ book \in [{"auto", "market", "angels", "harvest", "ever"} -> SUBSET Pool]
          /\ {scan, unresolved, open, todo, resting, entrants, saving, lost} \subseteq SUBSET Pool
          /\ phase \in Phases /\ found \subseteq Listing
          /\ streak \in [Pool -> 0..MinHealthy]
          /\ restarts \in 0..Restarts

NoBook == [s \in {"auto", "market", "angels", "harvest", "ever"} |-> {}]
(* The empty sets a process starts with. *)
Init == /\ cand = <<>> /\ table = <<>> /\ book = NoBook /\ scan = {} /\ unresolved = {}
        /\ open = {} /\ phase = "boot" /\ todo = {} /\ found = {}
        /\ resting = {} /\ entrants = {} /\ streak = [p \in Pool |-> 0] /\ saving = {}
        /\ lost = {} /\ restarts = 0

(* --- the discovery gates: known facts reject, what is absent passes ----- *)
Few(leg) == leg.holders = "few"
LegPasses(leg) == \/ leg.stable
                  \/ leg.verified /\ (leg.freezable = "yes" => ~Few(leg))
                  \/ ~leg.verified /\ leg.freezable # "yes" /\ ~Few(leg)
TvlAdmits(d) == /\ d.tvl >= Tvl.dust
                /\ d.tvl >= Tvl.min \/ d.turnover = "high"
                /\ d.tvl <= Tvl.max
FlowAdmits(d) == /\ TvlAdmits(d) /\ d.fees > 0
                 /\ d.turnover \in {"fair", "high"} /\ d.step = "fair"
MarketAdmits(d) == FlowAdmits(d) /\ LegPasses(d.x) /\ LegPasses(d.y)
(* The ranking keeps the Active best of what the gate admits. *)
Better(d, D) == Cardinality({e \in D : MarketAdmits(e) /\ e.fees > d.fees})
Ranked(D) == {d \in D : MarketAdmits(d) /\ Better(d, D) < Active}
Screens(d) == d.tvl >= Tvl.min /\ d.authentic /\ d.fees > 0 /\ d.bins # "idle"
(* The fallen-angel gate is fail-closed: no report or no history rejects. *)
Secure(d) == d.report = "clean"
Fallen(d) == d.history = "fallen"
Qualifies(d) == d.tvl >= Tvl.min /\ Secure(d) /\ Fallen(d)
Unripe(d) == d.age # "old"

(* --- candidate-policy.ts: the lifecycle ---------------------------------- *)
New == [state |-> "discovered", scans |-> 0, aged |-> FALSE]
Fresh(h) == h.price = "fresh"
Healthy(h) == h.market /\ Fresh(h) /\ h.route
Facts == [market : BOOLEAN, price : {"fresh", "stale", "none"}, route : BOOLEAN]
Capped(n) == IF n < MinHealthy THEN n ELSE MinHealthy
Watched(c) == c.state \in {"discovered", "observing", "eligible"}
Eligible(c) == c.scans >= MinHealthy /\ c.aged
HealthyScan(c, aged) ==
  LET d == [c EXCEPT !.scans = Capped(@ + 1), !.aged = @ \/ aged] IN
  [d EXCEPT !.state = IF Eligible(d) THEN "eligible" ELSE "observing"]
TransientKept(c, aged) == [c EXCEPT !.state = "observing", !.aged = @ \/ aged]
TransientFailure(c, aged) ==
  [c EXCEPT !.state = "observing", !.scans = 0, !.aged = @ \/ aged]
Scanned(c, h, aged) ==
  IF ~Watched(c) THEN [c EXCEPT !.aged = @ \/ aged]
  ELSE IF Healthy(h) THEN HealthyScan(c, aged) ELSE TransientFailure(c, aged)
EntryConfirmed(c) == IF c.state = "eligible" THEN [c EXCEPT !.state = "entered"] ELSE c
CooldownStarted(c) == IF c.state = "entered" THEN [c EXCEPT !.state = "cooling_down"] ELSE c
CooldownCut(c, elapsed) ==
  IF c.state = "cooling_down" THEN [c EXCEPT !.state = "discovered", !.scans = 0] ELSE c
CooldownElapsed(c, elapsed) ==
  IF c.state = "cooling_down" /\ elapsed
  THEN [c EXCEPT !.state = "discovered", !.scans = 0] ELSE c

Put(f, p, c) == [q \in DOMAIN f \cup {p} |-> IF q = p THEN c ELSE f[q]]
(* saveTokenCandidate is one upsert; a failed one ends the process (a defect *)
(* no handler of the caller catches), which is a Restart before this step.   *)
Saved == /\ saving # {} /\ saving' = {}
         /\ \E p \in saving : table' = Put(table, p, cand[p])
         /\ UNCHANGED <<cand, book, scan, unresolved, open, phase, todo, found, restarts>> /\ UNCHANGED ghosts

(* --- the scan set ---------------------------------------------------------- *)
Sources(b) == Watchlist \cup b.market \cup b.auto \cup b.angels \cup b.harvest
RebuiltRanked(b, held) == Sources(b)
Rebuilt(b, held) == Sources(b) \cup held
Watching == Watchlist \cup book.market \cup book.ever

(* Start of a process: loadPersistedCandidates admits every stored pool, and *)
(* the first reconcile adopts what the wallet holds. *)
Boot == /\ phase = "boot" /\ saving = {} /\ cand' = table
        /\ book' = [NoBook EXCEPT !.auto = DOMAIN table, !.ever = DOMAIN table]
        /\ phase' = "reconcile"
        /\ UNCHANGED <<table, scan, unresolved, open, todo, found, saving, restarts>> /\ UNCHANGED ghosts

(* reconcilePositions and refreshPoolsToScan.  The wallet read may fail; a   *)
(* position may be gone; one may be found, and its pool's state may be       *)
(* unreadable, which leaves it untracked but scanned and closed to entries. *)
ReconcileFails == /\ phase = "reconcile" /\ saving = {}
                  /\ unresolved' = Watching /\ scan' = Rebuilt(book, open)
                  /\ phase' = "candidates" /\ todo' = Pool
                  /\ \E D \in SUBSET Listing : found' = D
                  /\ UNCHANGED <<cand, table, book, open, saving, restarts>> /\ UNCHANGED ghosts
Reconcile == /\ phase = "reconcile" /\ saving = {}
             /\ \E gone \in SUBSET open, held \in SUBSET (Pool \ open), blind \in SUBSET Pool :
                  /\ blind \subseteq held /\ Cardinality(held \cup gone) <= 1
                  /\ unresolved' = blind
                  /\ open' = (open \ gone) \cup (held \ blind)
                  /\ scan' = Rebuilt(book, open') \cup held
                  /\ entrants' = entrants \ gone
             /\ phase' = "candidates" /\ todo' = Pool
             /\ \E D \in SUBSET Listing : found' = D
             /\ UNCHANGED <<cand, table, book, resting, streak, saving, lost, restarts>>

(* refreshAutonomousCandidates: elapsed cooldowns first, then the scan of    *)
(* the page; memory follows only when the save succeeds. *)
Elapsed(p) == CooldownElapsed(cand[p], p \notin resting)
Page(p) == \E d \in found : d.pool = p /\ Screens(d) /\ ~Unripe(d)
Unseen == /\ phase = "candidates" /\ saving = {}
          /\ \E p \in todo :
               /\ todo' = todo \ {p} /\ ~Page(p)
               /\ IF p \in DOMAIN cand /\ Elapsed(p) # cand[p]
                  THEN cand' = Put(cand, p, Elapsed(p)) /\ saving' = {p}
                       /\ streak' = [streak EXCEPT ![p] = 0]
                  ELSE UNCHANGED <<cand, saving, streak>>
               /\ book' = [book EXCEPT !.auto = @ \ {p}]
          /\ UNCHANGED <<table, scan, unresolved, open, phase, found, resting, entrants, lost, restarts>>
ScanCandidate ==
  /\ phase = "candidates" /\ saving = {}
  /\ \E p \in todo, h \in Facts, aged \in BOOLEAN :
       LET c == IF p \in DOMAIN cand THEN Elapsed(p) ELSE New
           n == Scanned(c, h, aged) IN
       /\ Page(p) /\ todo' = todo \ {p}
       /\ table' = Put(table, p, n) /\ cand' = Put(cand, p, n)
       /\ book' = [book EXCEPT !.ever = @ \cup {p},
                     !.auto = IF n.state = "eligible" THEN @ \cup {p} ELSE @ \ {p}]
       /\ scan' = IF n.state = "eligible" THEN scan \cup {p} ELSE scan
       /\ streak' = [streak EXCEPT ![p] = IF ~Watched(c) THEN @
                       ELSE IF ~Healthy(h) THEN 0
                       ELSE Capped((IF c.scans = 0 THEN 0 ELSE @) + 1)]
  /\ UNCHANGED <<unresolved, open, phase, found, resting, entrants, saving, lost, restarts>>
CandidatesDone == /\ phase = "candidates" /\ saving = {} /\ todo = {} /\ phase' = "books"
                  /\ UNCHANGED <<cand, table, book, scan, unresolved, open, todo, found, saving, restarts>> /\ UNCHANGED ghosts

(* refreshFallenAngelCandidates, refreshHarvestBook, refreshMarketUniverse   *)
(* and the rebuild before the pool loop.  Each keeps its last set when the   *)
(* fetch returns nothing or it is too early. *)
RefreshBooks ==
  /\ phase = "books" /\ saving = {}
  /\ \E D \in SUBSET Listing, harvest \in SUBSET Pool, again \in BOOLEAN :
       LET market == IF again /\ D # {} THEN {d.pool : d \in Ranked(D)} ELSE book.market
           angels == IF found = {} THEN book.angels ELSE {d.pool : d \in {e \in found : Qualifies(e)}} IN
       /\ harvest \in {book.harvest, {}, {d.pool : d \in D}}
       /\ book' = [book EXCEPT !.market = market, !.angels = angels, !.harvest = harvest]
  /\ scan' = Rebuilt(book', open) /\ phase' = "loop" /\ todo' = scan'
  /\ UNCHANGED <<cand, table, unresolved, open, found, saving, restarts>> /\ UNCHANGED ghosts

(* --- the pool loop --------------------------------------------------------- *)
Managed(p) == p \in Watchlist \cup book.auto \cup book.market \cup book.harvest
Solely(p) == p \in book.auto /\ p \notin Watchlist \cup book.market \cup book.harvest
(* runEnterSlot's gate, the entry, and entry_confirmed in memory and table.  *)
Enter == /\ phase = "loop" /\ saving = {}
         /\ \E p \in todo :
              /\ p \notin open /\ p \notin unresolved /\ Managed(p)
              /\ todo' = todo \ {p} /\ open' = open \cup {p}
              /\ entrants' = IF Solely(p) THEN entrants \cup {p} ELSE entrants
              /\ IF p \in DOMAIN cand /\ cand[p].state = "eligible"
                 THEN cand' = Put(cand, p, EntryConfirmed(cand[p])) /\ saving' = {p}
                 ELSE UNCHANGED <<cand, saving>>
         /\ UNCHANGED <<table, book, scan, unresolved, phase, found, resting, streak, lost, restarts>>
(* An executed exit starts the cooldown of an entered candidate. *)
Exit == /\ phase = "loop" /\ saving = {}
        /\ \E p \in todo \cap open :
             /\ todo' = todo \ {p} /\ open' = open \ {p}
             /\ entrants' = entrants \ {p}
             /\ resting' = IF p \in entrants THEN resting \cup {p} ELSE resting
             /\ IF p \in DOMAIN cand /\ cand[p].state = "entered"
                THEN cand' = Put(cand, p, CooldownStarted(cand[p])) /\ saving' = {p}
                ELSE UNCHANGED <<cand, saving>>
        /\ UNCHANGED <<table, book, scan, unresolved, phase, found, streak, lost, restarts>>
Hold == /\ phase = "loop" /\ saving = {} /\ todo # {}
        /\ \E p \in todo : todo' = todo \ {p}
        /\ UNCHANGED <<cand, table, book, scan, unresolved, open, phase, found, saving, restarts>> /\ UNCHANGED ghosts
EndCycle == /\ phase = "loop" /\ saving = {} /\ todo = {} /\ phase' = "reconcile"
            /\ UNCHANGED <<cand, table, book, scan, unresolved, open, todo, found, saving, restarts>> /\ UNCHANGED ghosts

(* --- time and restarts ------------------------------------------------------ *)
CooldownPasses == /\ phase = "reconcile"
                  /\ \E p \in resting \ entrants : resting' = resting \ {p}
                  /\ UNCHANGED <<cand, table, book, scan, unresolved, open, phase, todo, found,
                                 entrants, streak, saving, lost, restarts>>
Restart == /\ restarts < Restarts /\ restarts' = restarts + 1 /\ phase # "boot"
           /\ phase' = "boot" /\ cand' = <<>> /\ book' = NoBook /\ scan' = {}
           /\ unresolved' = {} /\ todo' = {} /\ found' = {}
           /\ saving' = {} /\ lost' = lost \cup saving
           /\ UNCHANGED <<table, open, resting, entrants, streak>>

Next == \/ Boot \/ ReconcileFails \/ Reconcile
        \/ Unseen \/ ScanCandidate \/ CandidatesDone \/ RefreshBooks
        \/ Enter \/ Exit \/ Hold \/ EndCycle \/ Saved \/ CooldownPasses \/ Restart
Spec == Init /\ [][Next]_vars

(* Exits must never stall: whatever the refreshes dropped, an open position's*)
(* pool is in the scan set of the pool loop (program.ts 4614-4619). *)
HeldScanned == phase = "loop" => open \subseteq scan
(* A pool the loop may enter as a candidate was healthy in MinHealthy        *)
(* recorded scans in a row, and none of its failures was forgotten, across   *)
(* restarts too (evaluateCandidateHealth, recordScan, loadPersisted...). *)
StreakProven == phase = "loop" =>
                  \A p \in book.auto : streak[p] >= MinHealthy
(* A pool left as a candidate is not entered again as a candidate before its *)
(* cooldown has run, across restarts too; only a restart between the entry   *)
(* or exit and the write of its record breaks it (program.ts 10963-10985). *)
CooldownServed == entrants \cap resting \subseteq lost
==============================================================================
