---------------------------- MODULE PartsProofs ----------------------------
(***************************************************************************)
(* Proofs about the parts of MCParts, one after the other: what a run      *)
(* checks of a part on its small instance, for every value of the          *)
(* constants.  A step of MCParts is a step of the part it is, so each      *)
(* proof is about that component's own actions; its variables are read     *)
(* under the names MCParts substitutes (s1, s2, ... in the order in which  *)
(* the component declares them).                                           *)
(***************************************************************************)
EXTENDS MCParts, RecordsProofs, FiniteSetTheorems, TLAPS

LEMMA StepOf ==
    ASSUME [Next]_vars
    PROVE  /\ part' = part
           /\ part = "pool" => [Evaluation!Next]_<<s1, s2, s3, s4, s5, s6, s7, s8, s9, s10>>
           /\ part = "tokens" => [Tokens!Next]_<<s1, s2, s3, s4, s5, s6>>
           /\ part = "update" => [Update!Next]_<<s1, s2, s3, s4, s5, s6, s7>>
           /\ part = "schema" => [Database!Next]_<<s1, s2, s3, s4, s5>>
           /\ part = "links" => [Links!Next]_<<s1, s2, s3, s4, s5, s6, s7, s8, s9>>
           /\ part = "referrals" => [Referrals!Next]_<<s1, s2, s3, s4, s5, s6, s7, s8, s9>>
           /\ part = "acp" => [Acp!Next]_<<s1, s2, s3, s4, s5, s6, s7, s8, s9, s10, s11, s12, s13>>
           /\ part = "gateway" => [Gateway!Next]_<<s1, s2, s3, s4, s5, s6, s7, s8, s9>>
           /\ part = "terms" => [Tariff!Next]_<<s1, s2, s3, s4, s5, s6, s7, s8, s9, s10, s11, s12>>
           /\ part = "entry" => [Entry!Next]_<<s1, s2, s3, s4, s5, s6, s7, s8, s9, s10, s11, s12>>
           /\ part = "harvest" => [Fees!Next]_<<s1, s2, s3, s4, s5, s6, s7, s8, s9, s10>>
           /\ part = "books" => [Books!Next]_<<s1, s2, s3, s4, s5, s6, s7, s8, s9, s10, s11, s12,
                                               s13, s14>>
           /\ part = "reports" => [Errors!Next]_<<s1, s2, s3, s4, s5, s6, s7, s8, s9, s10, s11, s12,
                                                  s13, s14>>
           /\ part = "alerts" => [Alerts!Next]_<<s1, s2, s3, s4, s5, s6, s7, s8, s9, s10, s11, s12,
                                                 s13, s14>>
           /\ part = "feedback" => [Remarks!Next]_<<s1, s2, s3, s4, s5, s6, s7, s8>>
           /\ part = "limiter" => [Limiter!Next]_<<s1, s2, s3, s4, s5, s6, s7, s8>>
           /\ part = "status" => [Status!Next]_<<s1, s2, s3, s4, s5, s6, s7>>
           /\ part = "candidates" => [Candidates!Next]_<<s1, s2, s3, s4, s5, s6, s7, s8, s9, s10, s11,
                                                         s12, s13, s14, s15>>
           /\ part = "gates" => [Gates!Next]_<<s1, s2, s3, s4, s5, s6, s7, s8, s9, s10, s11, s12, s13>>
           /\ part = "sizing" => [Sizes(FALSE, SizingCycles)!Next]_<<s1, s2, s3, s4, s5, s6, s7, s8, s9,
                                                                    s10, s11>>
           /\ part = "paper" => [Sizes(TRUE, PaperCycles)!Next]_<<s1, s2, s3, s4, s5, s6, s7, s8, s9,
                                                                  s10, s11>>
<1>1. CASE UNCHANGED vars
  BY <1>1 DEF vars, slots
<1>2. CASE Next
  BY <1>2 DEF Next, EvaluationStep, ErrorsStep, AlertsStep, LinksStep, ReferralsStep, FeesStep,
     BooksStep, EntryStep, UpdateStep, AcpStep, GatewayStep, CandidatesStep, GatesStep,
     TokensStep, DatabaseStep, RemarksStep, LimiterStep, StatusStep, TariffStep, SizesStep,
     PaperSizesStep
<1> QED BY <1>1, <1>2

LEMMA InitOf ==
    ASSUME Init
    PROVE  /\ part = "pool" => Evaluation!Init
           /\ part = "tokens" => Tokens!Init
           /\ part = "update" => Update!Init
           /\ part = "schema" => Database!Init
           /\ part = "links" => Links!Init
           /\ part = "referrals" => Referrals!Init
           /\ part = "acp" => Acp!Init
           /\ part = "gateway" => Gateway!Init
           /\ part = "terms" => Tariff!Init
           /\ part = "entry" => Entry!Init
           /\ part = "harvest" => Fees!Init
           /\ part = "books" => Books!Init
           /\ part = "reports" => Errors!Init
           /\ part = "alerts" => Alerts!Init
           /\ part = "feedback" => Remarks!Init
           /\ part = "limiter" => Limiter!Init
           /\ part = "status" => Status!Init
           /\ part = "candidates" => Candidates!Init
           /\ part = "gates" => Gates!Init
           /\ part = "sizing" => Sizes(FALSE, SizingCycles)!Init
           /\ part = "paper" => Sizes(TRUE, PaperCycles)!Init
BY DEF Init

-----------------------------------------------------------------------------
(* PoolEvaluation                                                          *)

Counts == [stop : Nat, trail : Nat]
Replicas == [stop : Nat, trail : Nat, peak : Nat]
Marks == [own : BOOLEAN, young : BOOLEAN, mark : Nat, peak : Nat, oor : Nat, count : Counts]

EvaluationTypes ==
    /\ s2 \in [DOMAIN s2 -> Marks]
    /\ s7 \in [DOMAIN s2 -> Replicas]
    /\ s8 \in [DOMAIN s2 -> Counts]

Behind(c, p) == c.stop <= p.count.stop /\ c.trail <= p.count.trail

\* Every evaluation of a streak counted its breach: the streak never gets ahead of
\* the counts the engine keeps.
StreakInv == \A i \in DOMAIN s2 : Behind(s8[i], s2[i])

\* Nor do the replay's counts and peak, but for what the engine lost or skipped,
\* until the engine has decided to exit.
ReplayInv == \A i \in DOMAIN s2 : i \in s9 \/ i \in s10 \/ Evaluation!Behind(s7[i], s2[i])

EvaluationInv ==
    EvaluationTypes /\ StreakInv /\ ReplayInv /\ Evaluation!BreachActedOn

\* A book of which every position is as it is first tracked.
LEMMA EvaluationInit == ASSUME Evaluation!Init PROVE EvaluationInv
<1> USE PartsAssumption DEF EvaluationAssumption
<1> DEFINE New == {Evaluation!Fresh(TRUE), Evaluation!Fresh(FALSE)}
<1>1. PICK b : Evaluation!Start(b) /\ b \in [DOMAIN b -> New]
  <2>1. CASE Evaluation!Start(<<>>)
    <3> <<>> \in [{} -> New] /\ DOMAIN <<>> = {}
      OBVIOUS
    <3> QED BY <2>1
  <2>2. ASSUME NEW i \in Pos, NEW own \in BOOLEAN,
               Evaluation!Start([j \in {i} |-> Evaluation!Fresh(own)])
        PROVE  \E b : Evaluation!Start(b) /\ b \in [DOMAIN b -> New]
    <3> DEFINE b == [j \in {i} |-> Evaluation!Fresh(own)]
    <3>1. b \in [DOMAIN b -> New]
      OBVIOUS
    <3> QED BY <2>2, <3>1
  <2> QED BY <2>1, <2>2 DEF Evaluation!Init
<1>2. /\ s2 \in [DOMAIN s2 -> New]
      /\ s7 = [i \in DOMAIN s2 |-> Evaluation!Unseen(s2[i].peak)]
      /\ s8 = [i \in DOMAIN s2 |-> Evaluation!None]
  BY <1>1 DEF Evaluation!Start
<1>3. /\ Evaluation!None \in Counts /\ New \subseteq Marks
      /\ \A p \in New : p.count = Evaluation!None
  BY DEF Evaluation!Fresh, Evaluation!None, Evaluation!Deposit, Counts, Marks
<1>4. EvaluationTypes
  <2>1. s2 \in [DOMAIN s2 -> Marks]
    BY <1>2, <1>3
  <2>2. \A i \in DOMAIN s2 : Evaluation!Unseen(s2[i].peak) \in Replicas
    BY <2>1 DEF Marks, Replicas, Evaluation!Unseen
  <2> QED BY <2>1, <2>2, <1>2, <1>3 DEF EvaluationTypes
<1>5. \A i \in DOMAIN s2 : Behind(s8[i], s2[i]) /\ Evaluation!Behind(s7[i], s2[i])
  <2> SUFFICES ASSUME NEW i \in DOMAIN s2
               PROVE  Behind(s8[i], s2[i]) /\ Evaluation!Behind(s7[i], s2[i])
    OBVIOUS
  <2>1. /\ s2[i].count = Evaluation!None /\ s7[i] = Evaluation!Unseen(s2[i].peak)
        /\ s8[i] = Evaluation!None /\ s2[i].peak \in Nat
    BY <1>2, <1>3 DEF Marks
  <2> QED BY <2>1 DEF Behind, Evaluation!Behind, Evaluation!Unseen, Evaluation!None
<1>6. Evaluation!BreachActedOn
  BY <1>2 DEF Evaluation!BreachActedOn, Evaluation!Tracked, Evaluation!None
<1> QED BY <1>4, <1>5, <1>6 DEF EvaluationInv, StreakInv, ReplayInv

\* A step that forgets positions, and changes the others but for their counts.
LEMMA CountsKept ==
    ASSUME EvaluationInv, NEW S \in SUBSET DOMAIN s2,
           s2' \in [S -> Marks], \A i \in S : s2'[i].count = s2[i].count,
           s7' \in [S -> Replicas], s8' = Evaluation!Keep(s8, S),
           \A i \in S : i \in s9' \/ i \in s10' \/ Evaluation!Behind(s7'[i], s2'[i])
    PROVE  EvaluationInv'
<1> USE PartsAssumption DEF EvaluationAssumption, EvaluationInv, Evaluation!Keep
<1>1. DOMAIN s2' = S
  OBVIOUS
<1>2. EvaluationTypes'
  BY <1>1 DEF EvaluationTypes
<1>3. \A i \in S : s8'[i] = s8[i]
  OBVIOUS
<1>4. StreakInv' /\ Evaluation!BreachActedOn'
  BY <1>1, <1>3 DEF StreakInv, Behind, Evaluation!BreachActedOn, Evaluation!Tracked
<1>5. ReplayInv'
  BY <1>1 DEF ReplayInv
<1> QED BY <1>2, <1>4, <1>5

LEMMA EvaluationStaysInv ==
    ASSUME EvaluationInv, s2' = s2, s7' = s7, s8' = s8, s9 \subseteq s9', s10 \subseteq s10'
    PROVE  EvaluationInv'
<1>1. /\ s2 \in [DOMAIN s2 -> Marks] /\ s7 \in [DOMAIN s2 -> Replicas]
      /\ s8 = [i \in DOMAIN s2 |-> s8[i]]
  BY DEF EvaluationInv, EvaluationTypes
<1>2. \A i \in DOMAIN s2 : i \in s9' \/ i \in s10' \/ Evaluation!Behind(s7[i], s2[i])
  BY DEF EvaluationInv, ReplayInv
<1> QED BY <1>1, <1>2, CountsKept DEF Evaluation!Keep

\* The stops: a count that does not fire is below Confirm, and is no less than what
\* a streak, or a replay, that was behind it has become.
LEMMA StopsCount ==
    ASSUME NEW p \in Marks, ~Evaluation!Stops(p).fires, NEW c \in Counts, Behind(c, p)
    PROVE  LET q == Evaluation!Stops(p).count IN
           /\ q \in Counts
           /\ Evaluation!StopBreached(p) =>
                Evaluation!Add(c.stop) <= q.stop /\ Evaluation!Add(c.stop) < Confirm
           /\ Evaluation!TrailBreached(p) =>
                Evaluation!Add(c.trail) <= q.trail /\ Evaluation!Add(c.trail) < Confirm
<1> USE PartsAssumption DEF EvaluationAssumption
<1> DEFINE hard == Evaluation!StopBreached(p)
           soft == Evaluation!TrailBreached(p)
           n == p.count.stop
           m == p.count.trail
<1>1. /\ n \in Nat /\ m \in Nat /\ c.stop \in Nat /\ c.trail \in Nat
      /\ c.stop <= n /\ c.trail <= m /\ p.count = [stop |-> n, trail |-> m]
  BY DEF Marks, Counts, Behind
<1>2. /\ Evaluation!Add(n) \in Nat /\ Evaluation!Add(m) \in Nat
      /\ Evaluation!Add(c.stop) <= Evaluation!Add(n)
      /\ Evaluation!Add(c.trail) <= Evaluation!Add(m)
      /\ Evaluation!Add(c.stop) \in Nat /\ Evaluation!Add(c.trail) \in Nat
  BY <1>1 DEF Evaluation!Add
<1>3. hard => p.own
  BY DEF Evaluation!StopBreached
<1>4. Evaluation!Stops(p).count = [stop |-> IF p.own THEN IF hard THEN Evaluation!Add(n) ELSE 0 ELSE n,
                                   trail |-> IF soft THEN Evaluation!Add(m) ELSE 0]
  BY DEF Evaluation!Stops, Evaluation!StopCount
<1>5. /\ hard => ~(Evaluation!Add(n) >= Confirm)
      /\ soft => ~(Evaluation!Add(m) >= Confirm)
  BY <1>3 DEF Evaluation!Stops, Evaluation!StopCount
<1>6. Evaluation!Stops(p).count \in Counts
  BY <1>1, <1>2, <1>4 DEF Counts
<1>7. hard => /\ Evaluation!Add(c.stop) <= Evaluation!Stops(p).count.stop
              /\ Evaluation!Add(c.stop) < Confirm
  BY <1>2, <1>3, <1>4, <1>5
<1>8. soft => /\ Evaluation!Add(c.trail) <= Evaluation!Stops(p).count.trail
              /\ Evaluation!Add(c.trail) < Confirm
  BY <1>2, <1>4, <1>5
<1> QED BY <1>6, <1>7, <1>8

LEMMA ReplayTyped ==
    ASSUME NEW p \in Marks, NEW r \in Replicas, NEW over
    PROVE  Evaluation!Replayed(p, r, over) \in Replicas
<1> USE PartsAssumption DEF EvaluationAssumption
<1>1. /\ Evaluation!Add(r.stop) \in Nat /\ Evaluation!Add(r.trail) \in Nat
      /\ Evaluation!Unseen(r.peak) \in Replicas
  BY DEF Evaluation!Add, Evaluation!Unseen, Replicas
<1>2. PICK a \in {0, Evaluation!Add(r.stop)}, b \in {0, Evaluation!Add(r.trail)} :
        Evaluation!Replayed(p, r, over) \in {Evaluation!Unseen(r.peak),
                                            [stop |-> a, trail |-> b, peak |-> r.peak]}
  BY DEF Evaluation!Replayed, Evaluation!ReplayStops, Evaluation!StopCount
<1> QED BY <1>1, <1>2 DEF Replicas

\* A replay behind the engine exits by no stop before it, and stays behind.
LEMMA ReplayCounts ==
    ASSUME NEW p \in Marks, NEW r \in Replicas,
           ~Evaluation!Stops(p).fires, Evaluation!Behind(r, p)
    PROVE  LET next == Evaluation!ReplayStops(p, r).next IN
           /\ ~Evaluation!ReplayStops(p, r).fires
           /\ next.stop <= Evaluation!Stops(p).count.stop
           /\ next.trail <= Evaluation!Stops(p).count.trail
           /\ next.peak = r.peak
<1> USE PartsAssumption DEF EvaluationAssumption
<1> DEFINE hard == Evaluation!StopBreached(p)
           soft == p.mark < r.peak
           c == [stop |-> r.stop, trail |-> r.trail]
           n == Evaluation!Add(r.stop)
           m == Evaluation!Add(r.trail)
           replayed == Evaluation!ReplayStops(p, r)
           q == Evaluation!Stops(p).count
<1>1. /\ n \in Nat /\ m \in Nat /\ c \in Counts /\ Behind(c, p)
      /\ c.stop = r.stop /\ c.trail = r.trail
  BY DEF Evaluation!Add, Evaluation!Behind, Behind, Replicas, Counts
<1>2. hard => p.own
  BY DEF Evaluation!StopBreached
<1>3. soft => Evaluation!TrailBreached(p)
  BY DEF Evaluation!TrailBreached, Evaluation!Behind, Replicas, Marks
<1>4. /\ q \in Counts
      /\ hard => n <= q.stop /\ n < Confirm
      /\ soft => m <= q.trail /\ m < Confirm
  BY <1>1, <1>3, StopsCount
<1>5. q.stop \in Nat /\ q.trail \in Nat
  BY <1>4 DEF Counts
<1>6. replayed.fires = ((hard /\ n >= Confirm) \/ (soft /\ m >= Confirm))
  BY <1>2 DEF Evaluation!ReplayStops, Evaluation!StopCount
<1>7. ~(hard /\ n >= Confirm) /\ ~(soft /\ m >= Confirm)
  BY <1>1, <1>4
<1>8. ~replayed.fires
  BY <1>6, <1>7
<1>9. replayed.next = [stop |-> IF hard THEN n ELSE 0, trail |-> IF soft THEN m ELSE 0,
                       peak |-> r.peak]
  BY <1>2, <1>7 DEF Evaluation!ReplayStops, Evaluation!StopCount
<1>10. /\ replayed.next.stop = IF hard THEN n ELSE 0
       /\ replayed.next.trail = IF soft THEN m ELSE 0
       /\ replayed.next.peak = r.peak
  BY <1>9
<1> QED BY <1>4, <1>5, <1>8, <1>10

\* The exit phase, position by position.
LEMMA ExitPhaseActs ==
    ASSUME EvaluationInv, Evaluation!ExitPhase
    PROVE  EvaluationInv' /\ Evaluation!ReplayStep
<1> USE PartsAssumption DEF EvaluationAssumption
<1>1. PICK due \in SUBSET DOMAIN s2 :
        LET chain(i) == Evaluation!Chain(s2[i], i \in due)
            out == {i \in DOMAIN s2 : Evaluation!Exits(s2[i], i \in due)}
        IN  /\ s2' = [i \in DOMAIN s2 |->
                        IF chain(i) THEN s2[i]
                        ELSE [s2[i] EXCEPT !.count = Evaluation!Stops(s2[i]).count]]
            /\ s8' = [i \in DOMAIN s2 |-> Evaluation!Streak(s8[i], s2[i], i \in out)]
            /\ s9' = s9 \cup out
  BY DEF Evaluation!ExitPhase, Evaluation!Tracked
<1>2. /\ s7' = IF s3.saved
               THEN [i \in DOMAIN s2 |->
                       Evaluation!Replayed(s2[i], s7[i], Evaluation!ReplayChain(s2[i]))]
               ELSE s7
      /\ s10' = Evaluation!Ahead(IF s3.saved THEN s10 ELSE DOMAIN s2)
  BY DEF Evaluation!ExitPhase, Evaluation!ReplayedToo, Evaluation!Tracked
<1> DEFINE Chain(i) == Evaluation!Chain(s2[i], i \in due)
           Out == {i \in DOMAIN s2 : Evaluation!Exits(s2[i], i \in due)}
<1>3. ASSUME NEW i \in DOMAIN s2
      PROVE  /\ s2'[i] \in Marks /\ s7'[i] \in Replicas /\ s8'[i] \in Counts
             /\ Behind(s8'[i], s2'[i])
             /\ i \in s9' \/ i \in s10' \/ Evaluation!Behind(s7'[i], s2'[i])
             /\ s8'[i].stop < Confirm /\ s8'[i].trail < Confirm
             /\ i \in s9' \/ s3.loss = "gap" \/ ~Evaluation!ReplayChain(s2[i])
             /\ i \in s9' \/ i \in s10 \/ ~Evaluation!ReplayStops(s2[i], s7[i]).fires
  <2> DEFINE p == s2[i]
             q == Evaluation!Stops(p).count
  <2>1. /\ p \in Marks /\ s7[i] \in Replicas /\ s8[i] \in Counts /\ Behind(s8[i], p)
        /\ i \in s9 \/ i \in s10 \/ Evaluation!Behind(s7[i], p)
    BY DEF EvaluationInv, EvaluationTypes, StreakInv, ReplayInv
  <2>2. /\ s2'[i] = IF Chain(i) THEN p ELSE [p EXCEPT !.count = q]
        /\ s8'[i] = Evaluation!Streak(s8[i], p, i \in Out)
        /\ s7'[i] = IF s3.saved THEN Evaluation!Replayed(p, s7[i], Evaluation!ReplayChain(p))
                    ELSE s7[i]
        /\ i \notin s9' => i \notin s9 /\ i \notin Out
        /\ i \in s10 \/ ~s3.saved => i \in s10' \/ Evaluation!Behind(s7'[i], s2'[i])
    BY <1>1, <1>2 DEF Evaluation!Ahead
  <2>3. s7'[i] \in Replicas
    BY <2>1, <2>2, ReplayTyped
  <2>4. i \in Out <=> Chain(i) \/ Evaluation!Stops(p).fires
    BY DEF Evaluation!Exits
  <2>5. q \in Counts
    <3> DEFINE n == p.count.stop
               m == p.count.trail
    <3>1. n \in Nat /\ m \in Nat /\ p.count = [stop |-> n, trail |-> m]
      BY <2>1 DEF Marks, Counts
    <3>2. Evaluation!Add(n) \in Nat /\ Evaluation!Add(m) \in Nat
      BY <3>1 DEF Evaluation!Add
    <3> HIDE DEF n, m
    <3>3. PICK a \in {0, n, Evaluation!Add(n)}, b \in {0, m, Evaluation!Add(m)} :
            q = [stop |-> a, trail |-> b]
      BY <3>1 DEF Evaluation!Stops, Evaluation!StopCount
    <3> QED BY <3>1, <3>2, <3>3 DEF Counts
  <2>6. s2'[i] \in Marks
    BY <2>1, <2>2, <2>5 DEF Marks
  <2>7. CASE i \in Out
    <3>1. s8'[i] = [stop |-> 0, trail |-> 0] /\ i \in s9'
      BY <2>7, <2>2, <1>1 DEF Evaluation!Streak
    <3>2. s2'[i].count \in Counts
      BY <2>6 DEF Marks
    <3> QED BY <2>3, <2>6, <3>1, <3>2 DEF Behind, Counts
  <2>8. CASE i \notin Out
    <3>1. ~Chain(i) /\ ~Evaluation!Stops(p).fires
      BY <2>4, <2>8
    <3>2. s2'[i].count = q
      BY <2>1, <2>2, <3>1 DEF Marks
    <3>3. s8'[i] = [stop |-> IF Evaluation!StopBreached(p) THEN Evaluation!Add(s8[i].stop) ELSE 0,
                    trail |-> IF Evaluation!TrailBreached(p) THEN Evaluation!Add(s8[i].trail) ELSE 0]
      BY <2>2, <2>8 DEF Evaluation!Streak
    <3>4. /\ Evaluation!StopBreached(p) =>
               Evaluation!Add(s8[i].stop) <= q.stop /\ Evaluation!Add(s8[i].stop) < Confirm
          /\ Evaluation!TrailBreached(p) =>
               Evaluation!Add(s8[i].trail) <= q.trail /\ Evaluation!Add(s8[i].trail) < Confirm
      BY <2>1, <3>1, StopsCount
    <3>5. q.stop \in Nat /\ q.trail \in Nat
      BY <2>5 DEF Counts
    <3>6. Evaluation!Add(s8[i].stop) \in Nat /\ Evaluation!Add(s8[i].trail) \in Nat
      BY <2>1 DEF Evaluation!Add, Counts
    <3>7. /\ s8'[i] \in Counts /\ Behind(s8'[i], s2'[i])
          /\ s8'[i].stop < Confirm /\ s8'[i].trail < Confirm
      BY <3>2, <3>3, <3>4, <3>5, <3>6 DEF Behind, Counts
    <3>8. s3.loss # "gap" => ~Evaluation!ReplayChain(p)
      BY <3>1 DEF Evaluation!ReplayChain, Evaluation!Chain, Evaluation!TvlExit
    <3>9. ASSUME i \notin s9', i \notin s10
          PROVE  /\ s3.saved => Evaluation!Behind(s7'[i], s2'[i])
                 /\ ~Evaluation!ReplayStops(p, s7[i]).fires
      <4> DEFINE next == Evaluation!ReplayStops(p, s7[i]).next
      <4>1. Evaluation!Behind(s7[i], p)
        BY <2>1, <2>2, <3>9
      <4>2. /\ ~Evaluation!ReplayStops(p, s7[i]).fires
            /\ next.stop <= q.stop /\ next.trail <= q.trail /\ next.peak = s7[i].peak
        BY <2>1, <3>1, <4>1, ReplayCounts
      <4>3. s7[i].peak <= s2'[i].peak
        BY <2>1, <2>2, <3>1, <4>1 DEF Evaluation!Behind, Marks
      <4>4. s3.saved => s7'[i] \in {Evaluation!Unseen(s7[i].peak), next}
        BY <2>2 DEF Evaluation!Replayed
      <4> HIDE DEF next
      <4>5. s3.saved => Evaluation!Behind(s7'[i], s2'[i])
        BY <3>2, <3>5, <4>2, <4>3, <4>4 DEF Evaluation!Behind, Evaluation!Unseen
      <4> QED BY <4>2, <4>5
    <3> QED BY <2>2, <2>3, <2>6, <3>7, <3>8, <3>9
  <2> QED BY <2>7, <2>8
<1>4. DOMAIN s2' = DOMAIN s2
  BY <1>1
<1>5. EvaluationTypes'
  <2>1. s7 = [i \in DOMAIN s2 |-> s7[i]]
    BY DEF EvaluationInv, EvaluationTypes
  <2> QED BY <1>1, <1>2, <1>3, <1>4, <2>1 DEF EvaluationTypes
<1>6. StreakInv' /\ ReplayInv' /\ Evaluation!BreachActedOn'
  BY <1>3, <1>4 DEF StreakInv, ReplayInv, Evaluation!BreachActedOn, Evaluation!Tracked
<1>7. Evaluation!ReplayStep
  BY <1>3 DEF Evaluation!ReplayStep, Evaluation!Tracked
<1> QED BY <1>5, <1>6, <1>7 DEF EvaluationInv

\* A snapshot the engine saved and did not evaluate.
LEMMA AloneTyped ==
    ASSUME EvaluationInv, Evaluation!ReplayedAlone PROVE s7' \in [DOMAIN s2 -> Replicas]
<1> USE PartsAssumption DEF EvaluationAssumption
<1>1. PICK mark \in [DOMAIN s2 -> Level], over \in SUBSET DOMAIN s2 :
        s7' = [i \in DOMAIN s2 |->
                 Evaluation!Replayed([s2[i] EXCEPT !.mark = mark[i]],
                                     Evaluation!Raised(s7[i], mark[i]), i \in over)]
  BY DEF Evaluation!ReplayedAlone, Evaluation!Tracked
<1>2. ASSUME NEW i \in DOMAIN s2 PROVE s7'[i] \in Replicas
  <2> DEFINE p == [s2[i] EXCEPT !.mark = mark[i]]
             r == Evaluation!Raised(s7[i], mark[i])
  <2>1. s2[i] \in Marks /\ s7[i] \in Replicas /\ mark[i] \in Nat
    BY DEF EvaluationInv, EvaluationTypes
  <2>2. p \in Marks
    BY <2>1 DEF Marks
  <2>3. r \in Replicas
    BY <2>1 DEF Replicas, Evaluation!Raised
  <2>4. s7'[i] = Evaluation!Replayed(p, r, i \in over)
    BY <1>1
  <2> HIDE DEF p, r
  <2> QED BY <2>2, <2>3, <2>4, ReplayTyped
<1> QED BY <1>1, <1>2

LEMMA FetchKeepsCounts ==
    ASSUME EvaluationInv, Evaluation!FetchPool PROVE EvaluationInv'
<1>1. s2' = s2 /\ s8' = s8 /\ s9' = s9
  BY DEF Evaluation!FetchPool, Evaluation!state
<1>2. CASE s7' = s7 /\ s10' = s10
  BY <1>1, <1>2, EvaluationStaysInv
<1>3. CASE /\ Evaluation!ReplayedAlone \/ s7' = s7
           /\ s10' = Evaluation!Ahead(Evaluation!Tracked)
  <2>1. s7' \in [DOMAIN s2 -> Replicas]
    BY <1>3, AloneTyped DEF EvaluationInv, EvaluationTypes
  <2>2. \A i \in DOMAIN s2 : i \in s10' \/ Evaluation!Behind(s7'[i], s2'[i])
    BY <1>3 DEF Evaluation!Ahead, Evaluation!Tracked
  <2>3. s2 \in [DOMAIN s2 -> Marks] /\ s8' = Evaluation!Keep(s8, DOMAIN s2)
    BY <1>1 DEF EvaluationInv, EvaluationTypes, Evaluation!Keep
  <2> QED BY <1>1, <2>1, <2>2, <2>3, CountsKept
<1> QED BY <1>2, <1>3 DEF Evaluation!FetchPool

LEMMA TrackKeepsCounts ==
    ASSUME EvaluationInv, Evaluation!Track PROVE EvaluationInv'
<1> USE PartsAssumption DEF EvaluationAssumption
<1>1. CASE UNCHANGED <<s2, s7, s8, s9, s10>>
  BY <1>1, EvaluationStaysInv
<1>2. ASSUME NEW S \in SUBSET Evaluation!Tracked, NEW out \in SUBSET S, NEW mark \in [S -> Level],
             s2' = [i \in S |-> Evaluation!Marked(Evaluation!OutOfRange(s2[i], i \in out), mark[i])],
             s7' = [i \in S |-> IF s3.saved THEN Evaluation!Raised(s7[i], mark[i]) ELSE s7[i]],
             s8' = Evaluation!Keep(s8, S), s9' = s9 \cap S, s10' = s10 \cap S
      PROVE  EvaluationInv'
  <2>1. S \subseteq DOMAIN s2
    BY DEF Evaluation!Tracked
  <2>2. ASSUME NEW i \in S
        PROVE  /\ s2'[i] \in Marks /\ s2'[i].count = s2[i].count /\ s7'[i] \in Replicas
               /\ i \in s9' \/ i \in s10' \/ Evaluation!Behind(s7'[i], s2'[i])
    <3> DEFINE p == s2[i]
               r == s7[i]
               m == mark[i]
               o == Evaluation!OutOfRange(p, i \in out)
    <3>1. /\ p \in Marks /\ r \in Replicas /\ m \in Nat
          /\ i \in s9' \/ i \in s10' \/ Evaluation!Behind(r, p)
      BY <1>2, <2>1 DEF EvaluationInv, EvaluationTypes, ReplayInv
    <3>2. o \in Marks /\ o.count = p.count /\ o.peak = p.peak
      BY <3>1 DEF Evaluation!OutOfRange, Marks
    <3>3. s2'[i] = Evaluation!Marked(o, m) /\ s7'[i] \in {Evaluation!Raised(r, m), r}
      BY <1>2
    <3> HIDE DEF o, p, r, m
    <3>4. /\ s2'[i] \in Marks /\ s2'[i].count = p.count
          /\ s2'[i].peak = IF m > p.peak THEN m ELSE p.peak
      BY <3>1, <3>2, <3>3 DEF Evaluation!Marked, Evaluation!Raised, Marks
    <3>5. /\ s7'[i] \in Replicas /\ s7'[i].stop = r.stop /\ s7'[i].trail = r.trail
          /\ s7'[i].peak \in {r.peak, IF m > r.peak THEN m ELSE r.peak}
      BY <3>1, <3>3 DEF Evaluation!Raised, Replicas
    <3>6. r.peak \in Nat /\ p.peak \in Nat
      BY <3>1 DEF Marks, Replicas
    <3>7. Evaluation!Behind(r, p) => Evaluation!Behind(s7'[i], s2'[i])
      BY <3>1, <3>4, <3>5, <3>6 DEF Evaluation!Behind
    <3> QED BY <3>1, <3>4, <3>5, <3>7 DEF p
  <2>3. s2' \in [S -> Marks] /\ s7' \in [S -> Replicas]
    BY <1>2, <2>2
  <2> QED BY <1>2, <2>1, <2>2, <2>3, CountsKept
<1> QED BY <1>1, <1>2 DEF Evaluation!Track

\* The positions that stay keep their counts; a new one, and a rebalanced one, start
\* with none.
LEMMA SettleKeepsCounts ==
    ASSUME EvaluationInv, Evaluation!Settle PROVE EvaluationInv'
<1> USE PartsAssumption DEF EvaluationAssumption
<1> DEFINE By(done, act) == {s4[k].pos : k \in {j \in done : s4[j].act = act}}
<1>1. PICK done \in SUBSET DOMAIN s4, new \in SUBSET (Pos \ Evaluation!Tracked),
           moved \in SUBSET Evaluation!Tracked :
        LET stay == Evaluation!Tracked \ By(done, "EXIT")
        IN  /\ s2' = [i \in stay \cup new |->
                        IF i \in new THEN Evaluation!Fresh(TRUE)
                        ELSE IF i \in moved THEN Evaluation!Uncounted(s2[i]) ELSE s2[i]]
            /\ s7' = [i \in stay \cup new |->
                        IF i \in new THEN Evaluation!Unseen(Evaluation!Deposit) ELSE s7[i]]
            /\ s8' = [i \in stay \cup new |->
                        IF i \in new \cup moved THEN Evaluation!None ELSE s8[i]]
            /\ s9' = s9 \cap stay
            /\ s10' = (s10 \cap stay) \cup Evaluation!Ahead(moved)
  BY ZenonT(60) DEF Evaluation!Settle
<1> HIDE DEF By
<1> DEFINE Stay == DOMAIN s2 \ By(done, "EXIT")
<1>2. ASSUME NEW i \in Stay \cup new
      PROVE  /\ s2'[i] \in Marks /\ s7'[i] \in Replicas /\ s8'[i] \in Counts
             /\ Behind(s8'[i], s2'[i])
             /\ i \in s9' \/ i \in s10' \/ Evaluation!Behind(s7'[i], s2'[i])
             /\ s8'[i].stop < Confirm /\ s8'[i].trail < Confirm
  <2>1. CASE i \in new
    <3>1. /\ s2'[i] = Evaluation!Fresh(TRUE) /\ s7'[i] = Evaluation!Unseen(Evaluation!Deposit)
          /\ s8'[i] = Evaluation!None
      BY <1>1, <2>1 DEF Evaluation!Tracked
    <3> QED
      BY <3>1 DEF Evaluation!Fresh, Evaluation!None, Evaluation!Unseen, Evaluation!Deposit,
         Evaluation!Behind, Marks, Counts, Replicas, Behind
  <2>2. CASE i \notin new
    <3>1. /\ i \in DOMAIN s2 /\ s7'[i] = s7[i]
          /\ i \in s9 => i \in s9'
          /\ i \in s10 => i \in s10'
          /\ i \in moved => i \in s10' \/ Evaluation!Behind(s7'[i], s2'[i])
      BY <1>1, <2>2 DEF Evaluation!Tracked, Evaluation!Ahead
    <3>2. /\ s2[i] \in Marks /\ s7[i] \in Replicas /\ s8[i] \in Counts /\ Behind(s8[i], s2[i])
          /\ i \in s9 \/ i \in s10 \/ Evaluation!Behind(s7[i], s2[i])
          /\ s8[i].stop < Confirm /\ s8[i].trail < Confirm
      BY <3>1 DEF EvaluationInv, EvaluationTypes, StreakInv, ReplayInv,
         Evaluation!BreachActedOn, Evaluation!Tracked
    <3>3. CASE i \in moved
      <4>1. s2'[i] = Evaluation!Uncounted(s2[i]) /\ s8'[i] = Evaluation!None
        BY <1>1, <2>2, <3>1, <3>3 DEF Evaluation!Tracked
      <4>2. s2'[i] \in Marks /\ s2'[i].count = Evaluation!None
        BY <3>2, <4>1 DEF Evaluation!Uncounted, Evaluation!None, Marks, Counts
      <4>3. /\ s8'[i] \in Counts /\ Behind(s8'[i], s2'[i])
            /\ s8'[i].stop < Confirm /\ s8'[i].trail < Confirm
        BY <4>1, <4>2 DEF Evaluation!None, Behind, Counts
      <4> QED BY <3>1, <3>2, <3>3, <4>2, <4>3
    <3>4. CASE i \notin moved
      <4>1. s2'[i] = s2[i] /\ s8'[i] = s8[i]
        BY <1>1, <2>2, <3>1, <3>4 DEF Evaluation!Tracked
      <4> QED BY <3>1, <3>2, <4>1
    <3> QED BY <3>3, <3>4
  <2> QED BY <2>1, <2>2
<1>3. DOMAIN s2' = Stay \cup new
  BY <1>1 DEF Evaluation!Tracked
<1>4. EvaluationTypes'
  BY <1>1, <1>2, <1>3 DEF EvaluationTypes, Evaluation!Tracked
<1>5. StreakInv' /\ ReplayInv' /\ Evaluation!BreachActedOn'
  BY <1>2, <1>3 DEF StreakInv, ReplayInv, Evaluation!BreachActedOn, Evaluation!Tracked
<1> QED BY <1>4, <1>5 DEF EvaluationInv

\* The engine's counts and the streaks start over; the replay is apart where it is ahead.
LEMMA RestartKeepsCounts ==
    ASSUME EvaluationInv, Evaluation!Restart PROVE EvaluationInv'
<1> USE PartsAssumption DEF EvaluationAssumption
<1>1. /\ s2' = [i \in DOMAIN s2 |-> Evaluation!Uncounted(s2[i])]
      /\ s8' = [i \in DOMAIN s2 |-> Evaluation!None]
      /\ s10' = Evaluation!Ahead(DOMAIN s2)
  BY DEF Evaluation!Restart, Evaluation!Tracked
<1>2. ASSUME NEW i \in DOMAIN s2
      PROVE  s2'[i] \in Marks /\ s2'[i].count = Evaluation!None
  <2>1. s2[i] \in Marks /\ s2'[i] = [s2[i] EXCEPT !.count = Evaluation!None]
    BY <1>1 DEF EvaluationInv, EvaluationTypes, Evaluation!Uncounted
  <2> QED BY <2>1 DEF Marks, Evaluation!None, Counts
<1>3. DOMAIN s2' = DOMAIN s2
  BY <1>1
<1>4. s7' \in [DOMAIN s2 -> Replicas]
  <2>1. s2 \in [DOMAIN s2 -> Marks] /\ s7 \in [DOMAIN s2 -> Replicas]
    BY DEF EvaluationInv, EvaluationTypes
  <2>2. CASE Evaluation!ReplayedToo
    <3>1. \A i \in DOMAIN s2 :
            Evaluation!Replayed(s2[i], s7[i], Evaluation!ReplayChain(s2[i])) \in Replicas
      BY <2>1, ReplayTyped
    <3> QED BY <2>2, <3>1 DEF Evaluation!ReplayedToo, Evaluation!Tracked
  <2> QED BY <2>1, <2>2, AloneTyped DEF Evaluation!Restart
<1>5. EvaluationTypes'
  BY <1>1, <1>2, <1>3, <1>4 DEF EvaluationTypes, Evaluation!None, Counts
<1>6. StreakInv' /\ Evaluation!BreachActedOn'
  <2>1. \A i \in DOMAIN s2 : s8'[i] = Evaluation!None
    BY <1>1
  <2>2. \A i \in DOMAIN s2 : Behind(s8'[i], s2'[i])
    BY <2>1, <1>2 DEF Behind, Evaluation!None
  <2> QED BY <1>3, <2>1, <2>2 DEF StreakInv, Evaluation!BreachActedOn, Evaluation!Tracked,
          Evaluation!None
<1>7. ReplayInv'
  BY <1>1, <1>3 DEF ReplayInv, Evaluation!Ahead
<1> QED BY <1>5, <1>6, <1>7 DEF EvaluationInv

LEMMA EvaluationNext ==
    ASSUME EvaluationInv, [Evaluation!Next]_<<s1, s2, s3, s4, s5, s6, s7, s8, s9, s10>>
    PROVE  EvaluationInv' /\ Evaluation!ReplayStep
<1>1. CASE Evaluation!ExitPhase
  BY <1>1, ExitPhaseActs
<1>2. CASE Evaluation!Track
  BY <1>2, TrackKeepsCounts DEF Evaluation!Track, Evaluation!ReplayStep
<1>3. CASE Evaluation!Settle
  BY <1>3, SettleKeepsCounts DEF Evaluation!Settle, Evaluation!ReplayStep
<1>4. CASE Evaluation!Restart
  BY <1>4, RestartKeepsCounts DEF Evaluation!Restart, Evaluation!ReplayStep
<1>5. CASE Evaluation!RebalancePhase
  <2>1. /\ s2' = s2 /\ s7' = s7 /\ s8' = s8 /\ s9 \subseteq s9' /\ s10' = s10
        /\ s1 = "rebalance"
    BY <1>5 DEF Evaluation!RebalancePhase
  <2> QED BY <2>1, EvaluationStaysInv DEF Evaluation!ReplayStep
<1>6. CASE Evaluation!Ages
  <2>1. PICK i \in DOMAIN s2 : s2' = [s2 EXCEPT ![i].young = FALSE]
    BY <1>6 DEF Evaluation!Ages, Evaluation!Tracked
  <2>2. \A j \in DOMAIN s2 : /\ s2'[j] \in Marks /\ s2'[j].count = s2[j].count
                             /\ s2'[j].peak = s2[j].peak
    BY <2>1 DEF EvaluationInv, EvaluationTypes, Marks
  <2>3. s2' \in [DOMAIN s2 -> Marks]
    BY <2>1, <2>2
  <2>4. s7 \in [DOMAIN s2 -> Replicas] /\ s8 = [j \in DOMAIN s2 |-> s8[j]]
    BY DEF EvaluationInv, EvaluationTypes
  <2>5. /\ s7' = s7 /\ s8' = s8 /\ s9' = s9 /\ s10' = s10
        /\ \A j \in DOMAIN s2 : j \in s9 \/ j \in s10 \/ Evaluation!Behind(s7[j], s2'[j])
    BY <1>6, <2>2 DEF Evaluation!Ages, EvaluationInv, ReplayInv, Evaluation!Behind
  <2>6. EvaluationInv'
    BY <2>2, <2>3, <2>4, <2>5, CountsKept DEF Evaluation!Keep
  <2> QED BY <1>6, <2>6 DEF Evaluation!Ages, Evaluation!ReplayStep
<1>7. CASE Evaluation!EnterSlot \/ Evaluation!CooldownElapses
           \/ UNCHANGED <<s1, s2, s3, s4, s5, s6, s7, s8, s9, s10>>
  <2>1. s2' = s2 /\ s7' = s7 /\ s8' = s8 /\ s9' = s9 /\ s10' = s10
    BY <1>7 DEF Evaluation!EnterSlot, Evaluation!CooldownElapses, Evaluation!state
  <2>2. Evaluation!ReplayStep
    BY <1>7 DEF Evaluation!EnterSlot, Evaluation!CooldownElapses, Evaluation!ReplayStep
  <2> QED BY <2>1, <2>2, EvaluationStaysInv
<1>8. CASE Evaluation!FetchPool
  BY <1>8, FetchKeepsCounts DEF Evaluation!FetchPool, Evaluation!ReplayStep
<1> QED BY <1>1, <1>2, <1>3, <1>4, <1>5, <1>6, <1>7, <1>8 DEF Evaluation!Next

\* A stop that is breached for its confirmations is acted on (StopCount, the exit
\* chain), whatever the number of confirmations.
THEOREM StopsAct == Spec => []BreachActedOn
<1> DEFINE J == part = "pool" => EvaluationInv
<1>1. Init => J
  BY InitOf, EvaluationInit
<1>2. J /\ [Next]_vars => J'
  BY StepOf, EvaluationNext
<1>3. J => BreachActedOn
  BY DEF BreachActedOn, EvaluationInv
<1> QED BY <1>1, <1>2, <1>3, PTL DEF Spec

\* The backtest's exits are the engine's (cycle/evaluate-pool.ts beside evaluatePool).
THEOREM ReplayIsNotEager == Spec => ReplayExitIsLive
<1> DEFINE J == part = "pool" => EvaluationInv
<1>1. Init => J
  BY InitOf, EvaluationInit
<1>2. J /\ [Next]_vars => J'
  BY StepOf, EvaluationNext
<1>3. J /\ [Next]_vars => [part = "pool" => Evaluation!ReplayStep]_vars
  BY StepOf, EvaluationNext
<1> QED BY <1>1, <1>2, <1>3, PTL DEF Spec, ReplayExitIsLive

-----------------------------------------------------------------------------
(* TokenRisk                                                               *)

\* A signal that is kept is the last one told.
ToldInv == \A m \in TokenMint : s4[m] = Tokens!NoEntry \/ s4[m].signal = s5[m]

TokensInv == Tokens!TypeOK /\ ToldInv /\ Tokens!ServedAsTold /\ Tokens!OkVerified

SignalEntry == [signal : Tokens!Signal, age : 0 .. Ttl]

LEMMA TokensInit == ASSUME Tokens!Init PROVE TokensInv
BY PartsAssumption DEF TokensAssumption, TokensInv, Tokens!Init, Tokens!TypeOK, ToldInv,
   Tokens!ServedAsTold, Tokens!OkVerified, Tokens!Signal, Tokens!NoEntry

\* A failed check rejects, a warning of one of the first three warns: what is passed
\* passed them, so was read and has none of the flaws they look for.
LEMMA VerdictIsVerified ==
    ASSUME NEW t \in SUBSET Tokens!Flaw, NEW sanity, NEW tax, NEW pull, NEW owner, NEW proxy
    PROVE  LET v == Tokens!Composite({Tokens!Sanity(t, sanity), Tokens!Tax(t, tax),
                                      Tokens!TransferFrom(t, pull), Tokens!Owner(t, owner),
                                      Tokens!Upgradable(t, proxy)})
           IN  v \in {"ok", "warn", "reject"} /\ (v = "ok" => t \subseteq {"owner", "proxy"})
<1> DEFINE S == {Tokens!Sanity(t, sanity), Tokens!Tax(t, tax), Tokens!TransferFrom(t, pull),
                 Tokens!Owner(t, owner), Tokens!Upgradable(t, proxy)}
<1>1. Tokens!Composite(S) \in {"ok", "warn", "reject"}
  BY DEF Tokens!Composite
<1>2. ASSUME Tokens!Composite(S) = "ok"
      PROVE  t \subseteq {"owner", "proxy"}
  <2>1. "fail" \notin S /\ "warn" \notin S
    BY <1>2 DEF Tokens!Composite
  <2>2. "empty" \notin t /\ "methods" \notin t
    BY <2>1 DEF Tokens!Sanity
  <2>3. /\ "honeypot" \notin t /\ "taxed" \notin t /\ "tax" \notin t /\ "slots" \notin t
    BY <2>1 DEF Tokens!Tax, Tokens!Simulated
  <2>4. "frozen" \notin t
    BY <2>1, <2>3 DEF Tokens!TransferFrom, Tokens!Simulated
  <2> QED BY <2>2, <2>3, <2>4 DEF Tokens!Flaw
<1> QED BY <1>1, <1>2

LEMMA ConsultServes ==
    ASSUME TokensInv, NEW M \in SUBSET TokenMint, NEW outage \in BOOLEAN, Tokens!Consult(M, outage)
    PROVE  TokensInv'
<1> USE PartsAssumption DEF TokensAssumption
<1> DEFINE fetched == IF outage THEN {} ELSE {m \in M : Tokens!ToFetch(s4[m])}
           resolved == [m \in TokenMint |-> IF m \in fetched THEN Tokens!Entry(s4[m], s3[m]) ELSE s4[m]]
<1>1. /\ s4' = [m \in TokenMint |-> Tokens!Pruned(resolved[m])]
      /\ s5' = [m \in TokenMint |-> IF m \in fetched THEN s3[m] ELSE s5[m]]
      /\ s6' = [m \in TokenMint |-> IF m \in M THEN Tokens!Kept(resolved[m]) ELSE s6[m]]
      /\ s1' = s1 /\ s2' = s2 /\ s3' = s3
  BY DEF Tokens!Consult, Tokens!probes
<1>2. /\ s3 \in [TokenMint -> Tokens!Signal] /\ s5 \in [TokenMint -> Tokens!Signal]
      /\ s6 \in [TokenMint -> Tokens!Signal] /\ s4 \in [TokenMint -> {Tokens!NoEntry} \cup SignalEntry]
  BY DEF TokensInv, Tokens!TypeOK, SignalEntry
<1>3. ASSUME NEW m \in TokenMint
      PROVE  /\ s5'[m] \in Tokens!Signal /\ s6'[m] \in Tokens!Signal
             /\ s4'[m] \in {Tokens!NoEntry} \cup SignalEntry
             /\ s4'[m] = Tokens!NoEntry \/ s4'[m].signal = s5'[m]
             /\ s6'[m] \in {s5'[m], "unlisted"}
  <2> DEFINE e == resolved[m]
  <2>1. /\ e \in {Tokens!NoEntry} \cup SignalEntry
        /\ e = Tokens!NoEntry \/ e.signal = s5'[m]
        /\ s5'[m] \in Tokens!Signal
    BY <1>1, <1>2 DEF TokensInv, ToldInv, Tokens!Entry, SignalEntry
  <2>2. s4'[m] = Tokens!Pruned(e) /\ s6'[m] = (IF m \in M THEN Tokens!Kept(e) ELSE s6[m])
    BY <1>1
  <2>3. m \notin M => s5'[m] = s5[m]
    BY <1>1
  <2> HIDE DEF e
  <2>4. /\ s4'[m] \in {Tokens!NoEntry} \cup SignalEntry
        /\ s4'[m] = Tokens!NoEntry \/ s4'[m].signal = s5'[m]
    BY <2>1, <2>2 DEF Tokens!Pruned
  <2>5. m \in M => s6'[m] \in {s5'[m], "unlisted"}
    BY <2>1, <2>2 DEF Tokens!Kept
  <2>6. m \notin M => s6'[m] \in {s5'[m], "unlisted"}
    BY <2>2, <2>3 DEF TokensInv, Tokens!ServedAsTold
  <2> QED BY <2>1, <2>4, <2>5, <2>6 DEF Tokens!Signal
<1>4. Tokens!TypeOK'
  BY <1>1, <1>3 DEF TokensInv, Tokens!TypeOK, SignalEntry
<1>5. ToldInv' /\ Tokens!ServedAsTold'
  BY <1>3 DEF ToldInv, Tokens!ServedAsTold
<1>6. Tokens!OkVerified'
  BY <1>1 DEF TokensInv, Tokens!OkVerified
<1> QED BY <1>4, <1>5, <1>6 DEF TokensInv

LEMMA TokensNext ==
    ASSUME TokensInv, [Tokens!Next]_<<s1, s2, s3, s4, s5, s6>>
    PROVE  TokensInv'
<1> USE PartsAssumption DEF TokensAssumption, Tokens!probes, Tokens!signals
<1>1. ASSUME NEW m \in TokenMint, Tokens!Assess(m) PROVE TokensInv'
  <2>1. PICK v \in {"ok", "warn", "reject"} :
          /\ s2' = [s2 EXCEPT ![m] = v]
          /\ v = "ok" => s1[m] \subseteq {"owner", "proxy"}
    <3>1. s1[m] \in SUBSET Tokens!Flaw
      BY DEF TokensInv, Tokens!TypeOK
    <3>2. PICK sanity, tax, pull, owner, proxy \in Tokens!Answer :
            s2' = [s2 EXCEPT ![m] =
                     Tokens!Composite({Tokens!Sanity(s1[m], sanity), Tokens!Tax(s1[m], tax),
                                       Tokens!TransferFrom(s1[m], pull),
                                       Tokens!Owner(s1[m], owner),
                                       Tokens!Upgradable(s1[m], proxy)})]
      BY <1>1 DEF Tokens!Assess
    <3> DEFINE v == Tokens!Composite({Tokens!Sanity(s1[m], sanity), Tokens!Tax(s1[m], tax),
                                      Tokens!TransferFrom(s1[m], pull),
                                      Tokens!Owner(s1[m], owner),
                                      Tokens!Upgradable(s1[m], proxy)})
    <3>3. v \in {"ok", "warn", "reject"} /\ (v = "ok" => s1[m] \subseteq {"owner", "proxy"})
      BY <3>1, VerdictIsVerified, Zenon
    <3>4. s2' = [s2 EXCEPT ![m] = v]
      BY <3>2
    <3> QED BY <3>3, <3>4, Zenon
  <2>2. UNCHANGED <<s1, s3, s4, s5, s6>>
    BY <1>1 DEF Tokens!Assess
  <2>3. Tokens!TypeOK'
    BY <2>1, <2>2 DEF TokensInv, Tokens!TypeOK
  <2>4. Tokens!OkVerified'
    BY <2>1, <2>2 DEF TokensInv, Tokens!TypeOK, Tokens!OkVerified
  <2> QED BY <2>2, <2>3, <2>4 DEF TokensInv, ToldInv, Tokens!ServedAsTold
<1>2. ASSUME NEW m \in TokenMint, Tokens!Lists(m) PROVE TokensInv'
  BY <1>2 DEF Tokens!Lists, TokensInv, Tokens!TypeOK, ToldInv, Tokens!ServedAsTold,
     Tokens!OkVerified
<1>3. CASE Tokens!RefreshHarvestBook
  BY <1>3 DEF Tokens!RefreshHarvestBook, TokensInv, Tokens!TypeOK, ToldInv,
     Tokens!ServedAsTold, Tokens!OkVerified
<1>4. CASE Tokens!Tick
  <2>1. UNCHANGED <<s1, s2, s3, s5, s6>>
    BY <1>4 DEF Tokens!Tick
  <2>2. ASSUME NEW m \in TokenMint
        PROVE  /\ s4'[m] \in {Tokens!NoEntry} \cup SignalEntry
               /\ s4'[m] = Tokens!NoEntry \/ s4'[m].signal = s5'[m]
    <3> DEFINE e == s4[m]
    <3>1. /\ e \in {Tokens!NoEntry} \cup SignalEntry
          /\ e = Tokens!NoEntry \/ e.signal = s5[m]
      BY DEF TokensInv, Tokens!TypeOK, ToldInv, SignalEntry
    <3>2. s4'[m] = IF e = Tokens!NoEntry \/ e.age = Ttl THEN e ELSE [e EXCEPT !.age = @ + 1]
      BY <1>4 DEF Tokens!Tick
    <3> HIDE DEF e
    <3> QED BY <2>1, <3>1, <3>2 DEF SignalEntry
  <2>3. s4' = [m \in TokenMint |-> s4'[m]]
    BY <1>4 DEF Tokens!Tick
  <2>4. s4' \in [TokenMint -> {Tokens!NoEntry} \cup SignalEntry]
    BY <2>2, <2>3
  <2>5. Tokens!TypeOK'
    BY <2>1, <2>4 DEF TokensInv, Tokens!TypeOK, SignalEntry
  <2> QED BY <2>1, <2>2, <2>5 DEF TokensInv, ToldInv, Tokens!ServedAsTold, Tokens!OkVerified
<1>5. ASSUME NEW M \in SUBSET TokenMint, NEW outage \in BOOLEAN, Tokens!Consult(M, outage)
      PROVE  TokensInv'
  BY <1>5, ConsultServes
<1>6. CASE UNCHANGED <<s1, s2, s3, s4, s5, s6>>
  BY <1>6 DEF TokensInv, Tokens!TypeOK, ToldInv, Tokens!ServedAsTold, Tokens!OkVerified
<1> QED BY <1>1, <1>2, <1>3, <1>4, <1>5, <1>6 DEF Tokens!Next

\* A revoked verification is not served and an unverified transfer is not passed,
\* for every set of mints, kind of flaw and lifetime of a signal.
THEOREM TokensAreSound == Spec => []TokensSound
<1> DEFINE J == part = "tokens" => TokensInv
<1>1. Init => J
  BY InitOf, TokensInit
<1>2. J /\ [Next]_vars => J'
  BY StepOf, TokensNext
<1>3. J => TokensSound
  BY DEF TokensSound, TokensInv
<1> QED BY <1>1, <1>2, <1>3, PTL DEF Spec

-----------------------------------------------------------------------------
(* Updater                                                                 *)

AtWork == {"copy", "copying", "wrapper", "smoke", "keep"}
Undone == {"rollback", "restore"}
Steps == {"ready", "replace", "prune"} \cup AtWork \cup Undone

UpdateTypes ==
    /\ s4 = [i \in DOMAIN s4 |-> s4[i]] /\ DOMAIN s4 \subseteq 0 .. s6
    /\ s6 \in Nat
    /\ s7 = [pc |-> s7.pc, from |-> s7.from, to |-> s7.to, place |-> s7.place]
    /\ s7.pc \in Update!Ended \cup Steps
    /\ s7.from \in {0} \cup Update!Version
    /\ s7.pc \notin Update!Ended => s7.from # 0

\* Where the version that ran is: in the directory until it is moved away, then under
\* the temporary name of its run until it is kept or put back.
PlaceInv ==
    /\ s7.pc \in {"ready", "replace"} => s1 = s7.from /\ s6 \notin DOMAIN s4
    /\ s7.pc \in AtWork => s6 \in DOMAIN s4 /\ s4[s6] = s7.from
    /\ s7.pc = "prune" => s6 \notin DOMAIN s4 /\ s7.from \in s5
    /\ s7.pc \in Undone => IF s6 \in DOMAIN s4 THEN s4[s6] = s7.from ELSE s7.from \in s5

Somewhere == s7.from \in {s1} \cup s5 \/ \E i \in DOMAIN s4 : s4[i] = s7.from

UpdateInv ==
    UpdateTypes /\ PlaceInv /\ (s7.pc \in Update!Ended \ {"done"} /\ s7.from # 0 => Somewhere)

LEMMA UpdateHolds == ASSUME UpdateInv PROVE Update!PreviousKept
<1>1. s7.from # 0 /\ s7.pc # "done" => Somewhere
  BY DEF UpdateInv, UpdateTypes, PlaceInv, Somewhere, Steps, AtWork, Undone
<1> QED BY <1>1 DEF Somewhere, Update!PreviousKept, Update!Range

LEMMA UpdateInit == ASSUME Update!Init PROVE UpdateInv
<1>1. s4 = << >> /\ s6 = 0 /\ s7 = [pc |-> "none", from |-> 0, to |-> 0, place |-> s2]
  BY DEF Update!Init
<1>2. DOMAIN << >> = {} /\ << >> = [i \in {} |-> 0]
  OBVIOUS
<1> QED
  BY <1>1, <1>2 DEF UpdateInv, UpdateTypes, PlaceInv, Steps, AtWork, Undone, Update!Ended

\* A backup that is renamed away leaves the others.
LEMMA WithoutOne ==
    ASSUME UpdateTypes, NEW T \in SUBSET DOMAIN s4, s4' = Update!Restrict(s4, DOMAIN s4 \ T)
    PROVE  /\ DOMAIN s4' = DOMAIN s4 \ T
           /\ s4' = [i \in DOMAIN s4' |-> s4'[i]]
           /\ \A i \in DOMAIN s4 \ T : s4'[i] = s4[i]
BY DEF UpdateTypes, Update!Restrict

LEMMA UpdateNext ==
    ASSUME UpdateInv, [Update!Next]_<<s1, s2, s3, s4, s5, s6, s7>>
    PROVE  UpdateInv'
<1> USE PartsAssumption DEF UpdateAssumption, UpdateInv, Update!At, Update!Goto, Update!disk
<1> USE DEF UpdateTypes, PlaceInv, Steps, AtWork, Undone, Update!Ended
<1>1. CASE Update!Begin
  <2>1. PICK pc \in {"failed", "ready"} :
          /\ s7'.pc = pc /\ s7'.from = s1 /\ s1 \in Update!Version
          /\ s7' = [pc |-> s7'.pc, from |-> s7'.from, to |-> s7'.to, place |-> s7'.place]
    BY <1>1 DEF Update!Begin, Update!Verified
  <2>2. s6' = s6 + 1 /\ UNCHANGED <<s1, s4, s5>>
    BY <1>1 DEF Update!Begin
  <2>3. s1 # 0
    BY <2>1 DEF Update!Version
  <2> QED BY <2>1, <2>2, <2>3 DEF Somewhere
<1>2. CASE Update!Migrate
  BY <1>2 DEF Update!Migrate
<1>3. CASE Update!MoveAway
  <2>1. CASE Update!Goto("failed") /\ UNCHANGED <<s1, s4>>
    BY <1>3, <2>1 DEF Update!MoveAway, Somewhere
  <2>2. CASE /\ s4' = [i \in DOMAIN s4 \cup {s6} |-> IF i = s6 THEN s1 ELSE s4[i]]
             /\ Update!Goto("copy")
    <3>1. /\ DOMAIN s4' = DOMAIN s4 \cup {s6} /\ s4' = [i \in DOMAIN s4' |-> s4'[i]]
          /\ s4'[s6] = s1 /\ s6 \in 0 .. s6 /\ s6' = s6 /\ s7.pc = "replace"
      BY <1>3, <2>2 DEF Update!MoveAway
    <3> QED BY <2>2, <3>1
  <2> QED BY <1>3, <2>1, <2>2 DEF Update!MoveAway
<1>4. CASE Update!CopyStart
  BY <1>4 DEF Update!CopyStart
<1>5. CASE Update!CopyEnd
  <2>1. CASE Update!Goto("wrapper") /\ UNCHANGED s4
    BY <1>5, <2>1 DEF Update!CopyEnd
  <2>2. CASE s1' = s4[s6] /\ s4' = Update!Without(s4, s6) /\ Update!Goto("failed")
    <3>1. DOMAIN s4' = DOMAIN s4 \ {s6} /\ s4' = [i \in DOMAIN s4' |-> s4'[i]]
      BY <1>5, <2>2, WithoutOne DEF Update!CopyEnd, Update!Without
    <3> QED BY <1>5, <2>2, <3>1 DEF Update!CopyEnd, Somewhere
  <2> QED BY <1>5, <2>1, <2>2 DEF Update!CopyEnd
<1>6. CASE Update!RewriteWrapper
  BY <1>6 DEF Update!RewriteWrapper
<1>7. CASE Update!SmokeTest
  BY <1>7 DEF Update!SmokeTest
<1>8. CASE Update!Keep
  <2>1. CASE Update!Goto("rollback") /\ UNCHANGED s4
    BY <1>8, <2>1 DEF Update!Keep
  <2>2. CASE s5' = s5 \cup {s7.from} /\ s4' = Update!Without(s4, s6) /\ Update!Goto("prune")
    <3>1. DOMAIN s4' = DOMAIN s4 \ {s6} /\ s4' = [i \in DOMAIN s4' |-> s4'[i]]
      BY <1>8, <2>2, WithoutOne DEF Update!Keep, Update!Without
    <3> QED BY <1>8, <2>2, <3>1 DEF Update!Keep
  <2> QED BY <1>8, <2>1, <2>2 DEF Update!Keep
<1>9. CASE Update!Prune
  <2>1. PICK k \in SUBSET Update!Stale, t \in SUBSET DOMAIN s4, pc \in {"done", "rollback"} :
          s5' = s5 \ k /\ s4' = Update!Restrict(s4, DOMAIN s4 \ t) /\ Update!Goto(pc)
    BY <1>9 DEF Update!Prune
  <2>2. DOMAIN s4' = DOMAIN s4 \ t /\ s4' = [i \in DOMAIN s4' |-> s4'[i]]
    BY <2>1, WithoutOne
  <2> QED BY <1>9, <2>1, <2>2 DEF Update!Prune, Update!Stale
<1>10. CASE Update!Rollback
  BY <1>10 DEF Update!Rollback
<1>11. CASE Update!Restore
  <2>1. CASE s6 \in DOMAIN s4
    <3>1. DOMAIN s4' = DOMAIN s4 \ {s6} /\ s4' = [i \in DOMAIN s4' |-> s4'[i]]
      BY <1>11, <2>1, WithoutOne DEF Update!Restore, Update!Without
    <3> QED BY <1>11, <2>1, <3>1 DEF Update!Restore, Somewhere
  <2>2. CASE s6 \notin DOMAIN s4
    BY <1>11, <2>2 DEF Update!Restore, Somewhere
  <2> QED BY <2>1, <2>2
<1>12. CASE Update!Kill
  BY <1>12 DEF Update!Kill, Somewhere
<1>13. CASE Update!Recover
  <2>1. CASE UNCHANGED <<s1, s4, s5>>
    BY <1>13, <2>1 DEF Update!Recover, Somewhere
  <2>2. ASSUME s1 \notin Update!Version, NEW v \in s5, s1' = v, s5' = s5 \ {v}, s4' = s4
        PROVE  UpdateInv'
    BY <1>13, <2>2 DEF Update!Recover, Somewhere
  <2>3. ASSUME s1 \notin Update!Version, NEW i \in DOMAIN s4, s1' = s4[i],
               s4' = Update!Without(s4, i), s5' = s5
        PROVE  UpdateInv'
    <3>1. /\ DOMAIN s4' = DOMAIN s4 \ {i} /\ s4' = [j \in DOMAIN s4' |-> s4'[j]]
          /\ \A j \in DOMAIN s4 \ {i} : s4'[j] = s4[j]
      BY <2>3, WithoutOne DEF Update!Without
    <3> QED BY <1>13, <2>3, <3>1 DEF Update!Recover, Somewhere
  <2> QED BY <1>13, <2>1, <2>2, <2>3 DEF Update!Recover
<1>14. CASE UNCHANGED <<s1, s2, s3, s4, s5, s6, s7>>
  BY <1>14 DEF Somewhere
<1> QED BY <1>1, <1>2, <1>3, <1>4, <1>5, <1>6, <1>7, <1>8, <1>9, <1>10, <1>11, <1>12, <1>13,
        <1>14 DEF Update!Next

-----------------------------------------------------------------------------
(* Schema: the proofs are those of SchemaProofs, about the same module     *)
(* instantiated once more, whose definitions are those of Database         *)

Migrations == INSTANCE SchemaProofs WITH
    db <- s1, vec <- s2, proc <- s3, launches <- s4, was <- s5

LEMMA SameColumns == Migrations!Added = Database!Added
BY DEF Migrations!Of, Database!Of, Migrations!Base, Database!Base, Migrations!By,
     Database!By, Migrations!Initial, Database!Initial, Migrations!AddedFirst,
     Database!AddedFirst, Migrations!AddedTables, Database!AddedTables,
     Migrations!AddedSignals, Database!AddedSignals, Migrations!AddedAccounting,
     Database!AddedAccounting, Migrations!AddedFoundation, Database!AddedFoundation,
     Migrations!AddedSource, Database!AddedSource, Migrations!AddedBooking,
     Database!AddedBooking, Migrations!AddedRotation, Database!AddedRotation,
     Migrations!AddedPrices, Database!AddedPrices, Migrations!OperatorFees,
     Database!OperatorFees, Migrations!Ids, Database!Ids, Migrations!Added, Database!Added,
     Migrations!AddedUpTo, Database!AddedUpTo, Migrations!AddedIn, Database!AddedIn

LEMMA SameInit == Migrations!Init <=> Database!Init
BY SameColumns DEF Migrations!Of, Database!Of, Migrations!AddedUpTo, Database!AddedUpTo,
     Migrations!Key, Database!Key, Migrations!Fresh, Database!Fresh, Migrations!Left,
     Database!Left, Migrations!Held, Database!Held, Migrations!Keyed, Database!Keyed,
     Migrations!Snapshots, Database!Snapshots, Migrations!Filled, Database!Filled,
     Migrations!Off, Database!Off, Migrations!Init, Database!Init

LEMMA SameUp ==
    ASSUME NEW v, NEW d
    PROVE  /\ Migrations!Up(v, d) = Database!Up(v, d)
           /\ Migrations!Throws(v, d) <=> Database!Throws(v, d)
<1>1. Migrations!AddedIn(v) = Database!AddedIn(v) /\ Migrations!Copied = Database!Copied
  BY SameColumns, Zenon DEF Migrations!AddedIn, Database!AddedIn, Migrations!Copied,
       Database!Copied, Migrations!AddedUpTo, Database!AddedUpTo
<1>2. Migrations!DedupeSnapshots(d) = Database!DedupeSnapshots(d)
  BY Zenon DEF Migrations!DedupeSnapshots, Database!DedupeSnapshots
<1>3. Migrations!ByPosition(d) = Database!ByPosition(d)
  BY Zenon DEF Migrations!ByPosition, Database!ByPosition, Migrations!Ids, Database!Ids,
       Migrations!Key, Database!Key
<1>4. Migrations!ForEth(d) = Database!ForEth(d)
  BY Zenon DEF Migrations!ForEth, Database!ForEth
<1>5. Migrations!Repair(d) = Database!Repair(d)
  BY Zenon DEF Migrations!Repair, Database!Repair, Migrations!Of, Database!Of
<1>6. Migrations!Up(v, d) = Database!Up(v, d)
  BY <1>1, <1>2, <1>3, <1>4, <1>5 DEF Migrations!Up, Database!Up
<1>7. Migrations!Throws(v, d) <=> Database!Throws(v, d)
  BY <1>1 DEF Migrations!Throws, Database!Throws, Migrations!OperatorFees,
       Database!OperatorFees, Migrations!Of, Database!Of
<1> QED BY <1>6, <1>7

LEMMA SameNext == Migrations!Next <=> Database!Next
<1>0. ASSUME NEW p, NEW c, NEW n
      PROVE  /\ Migrations!At(p, c) <=> Database!At(p, c)
             /\ Migrations!Goto(p, c, n) <=> Database!Goto(p, c, n)
             /\ Migrations!Dies(p) <=> Database!Dies(p)
  BY Zenon DEF Migrations!At, Database!At, Migrations!Goto, Database!Goto, Migrations!Dies,
       Database!Dies, Migrations!Off, Database!Off
<1>a. Migrations!Last = Database!Last /\ Migrations!Version = Database!Version
  BY Zenon DEF Migrations!Last, Database!Last, Migrations!Version, Database!Version,
       Migrations!Max, Database!Max
<1>1. ASSUME NEW p PROVE Migrations!Open(p) <=> Database!Open(p)
  BY <1>0, <1>a, Zenon DEF Migrations!Open, Database!Open
<1>2. ASSUME NEW p PROVE Migrations!Check(p) <=> Database!Check(p)
  BY <1>0, <1>a, Zenon DEF Migrations!Check, Database!Check
<1>3. ASSUME NEW p PROVE Migrations!Busy(p) <=> Database!Busy(p)
  BY <1>0, <1>a, Zenon DEF Migrations!Busy, Database!Busy
<1>4. ASSUME NEW p PROVE (Migrations!Heal(p) <=> Database!Heal(p)) /\ (Migrations!Leave(p)
      <=> Database!Leave(p))
  BY <1>0, <1>a, Zenon DEF Migrations!Heal, Database!Heal, Migrations!Leave, Database!Leave
<1>5. ASSUME NEW p PROVE Migrations!Apply(p) <=> Database!Apply(p)
  BY <1>0, SameUp, Zenon DEF Migrations!Apply, Database!Apply
<1> QED BY <1>1, <1>2, <1>3, <1>4, <1>5, Zenon DEF Migrations!Next, Database!Next


LEMMA SameKept ==
    /\ Migrations!QueriesHold => Database!QueriesHold
    /\ Migrations!RowsKept => Database!RowsKept
<1>1. Migrations!Copied = Database!Copied /\ Migrations!OperatorFees = Database!OperatorFees
  BY SameColumns DEF Migrations!Copied, Database!Copied, Migrations!AddedUpTo,
       Database!AddedUpTo, Migrations!OperatorFees, Database!OperatorFees, Migrations!Of,
       Database!Of
<1>2. Migrations!QueriesHold => Database!QueriesHold
  BY <1>1 DEF Migrations!QueriesHold, Database!QueriesHold, Migrations!PositionWrite,
       Database!PositionWrite, Migrations!EventWrite, Database!EventWrite,
       Migrations!SnapshotWrite, Database!SnapshotWrite, Migrations!ClaimWrite,
       Database!ClaimWrite, Migrations!JobWrite, Database!JobWrite, Migrations!At,
       Database!At, Migrations!Of, Database!Of, Migrations!Base, Database!Base
<1>3. Migrations!RowsKept => Database!RowsKept
  BY Zenon DEF Migrations!RowsKept, Database!RowsKept, Migrations!Key, Database!Key,
     Migrations!Cardinality, Database!Cardinality
<1> QED BY <1>2, <1>3

\* A kill never leaves an install without the version that ran, and whoever opens the
\* file finds its columns and every row, for any number of versions, updates, processes
\* and openings.
THEOREM PreviousIsKept == Spec => []PreviousKept
<1> DEFINE J == /\ part = "update" => UpdateInv
                /\ part = "schema" => Migrations!SchemaInv
<1>1. Init => J
  <2> SUFFICES ASSUME Init PROVE J
    OBVIOUS
  <2>1. part = "schema" => Migrations!Init
    BY InitOf, SameInit
  <2>2. part = "schema" => Migrations!SchemaInv
    BY <2>1, Migrations!SchemaInit
  <2> QED BY <2>2, InitOf, UpdateInit
<1>2. J /\ [Next]_vars => J'
  <2> SUFFICES ASSUME J, [Next]_vars PROVE J'
    OBVIOUS
  <2>1. part = "schema" => [Migrations!Next]_(Migrations!vars)
    BY StepOf, SameNext DEF Migrations!vars
  <2>2. part = "schema" => Migrations!SchemaInv'
    BY <2>1, Migrations!SchemaNext
  <2> QED BY <2>2, StepOf, UpdateNext
<1>3. J => PreviousKept
  <2> SUFFICES ASSUME J PROVE PreviousKept
    OBVIOUS
  <2>1. part = "schema" => Database!RowsKept /\ Database!QueriesHold
    BY Migrations!SchemaKept, SameKept
  <2> QED BY <2>1, UpdateHolds DEF PreviousKept
<1> QED BY <1>1, <1>2, <1>3, PTL DEF Spec

-----------------------------------------------------------------------------
(* AcpTransport                                                            *)

LEMMA LeastExists ==
    ASSUME NEW S \in SUBSET Nat, S # {}
    PROVE  \E x \in S : \A y \in S : x <= y
<1> DEFINE T == {1 .. n : n \in S}
           R == StrictSubsetOrdering(Nat)
<1>1. T \subseteq FiniteSubsetsOf(Nat) /\ T # {}
  <2>1. ASSUME NEW n \in Nat PROVE IsFiniteSet(1 .. n)
    <3>1. 1 \in Int /\ n \in Int
      OBVIOUS
    <3> QED BY <3>1, FS_Interval, Zenon
  <2>2. ASSUME NEW n \in S PROVE 1 .. n \in FiniteSubsetsOf(Nat)
    <3>1. 1 .. n \subseteq Nat
      OBVIOUS
    <3> QED BY <2>1, <3>1, Zenon DEF FiniteSubsetsOf
  <2> QED BY <2>2
<1>2. IsWellFoundedOn(R, FiniteSubsetsOf(Nat))
  BY FS_StrictSubsetOrderingWellFounded
<1>3. PICK t \in T : \A u \in T : ~ (<<u, t>> \in R)
  <2> HIDE DEF T, R
  <2> QED BY <1>1, <1>2, WFMin
<1>4. PICK x \in S : t = 1 .. x
  OBVIOUS
<1>5. ASSUME NEW y \in S PROVE x <= y
  <2>1. CASE y < x
    <3>1. 1 .. y \in T /\ 1 .. y \subseteq t /\ 1 .. y # t /\ x \in t
      BY <1>4, <2>1
    <3>2. 1 .. y \subseteq Nat /\ t \subseteq Nat
      BY <1>4
    <3>3. <<1 .. y, t>> \in R
      BY <3>1, <3>2, Zenon DEF StrictSubsetOrdering
    <3> QED BY <3>1, <3>3, <1>3, Zenon
  <2> QED BY <2>1
<1> QED BY <1>5

Sample == [slow : BOOLEAN, age : Nat]

\* Eviction takes the oldest samples off.
LEMMA EvictedIsSuffix ==
    ASSUME NEW w \in Seq(Sample)
    PROVE  \E m \in 0 .. Len(w) :
             /\ Acp!Enough(w, m)
             /\ Acp!Evicted(w) = SubSeq(w, m + 1, Len(w))
<1> DEFINE S == {n \in 0 .. Len(w) : Acp!Enough(w, n)}
           m == Acp!Min(S)
<1>0. Len(w) \in Nat
  OBVIOUS
<1>1. Len(w) \in S /\ S \subseteq Nat
  BY <1>0 DEF Acp!Enough
<1>2. m \in S
  <2>1. \E x \in S : \A y \in S : x <= y
    BY <1>1, LeastExists
  <2> HIDE DEF S
  <2> QED BY <2>1, Zenon DEF Acp!Min
<1>3. Acp!Evicted(w) = SubSeq(w, m + 1, Len(w))
  BY Zenon DEF Acp!Evicted
<1> HIDE DEF m
<1> QED BY <1>2, <1>3

\* No sample is younger than the last one recorded.
AgesInv == s10 \in Seq(Sample) /\ s11 \in Nat /\ \A i \in 1 .. Len(s10) : s10[i].age >= s11

LEMMA EvictedKeepsAges ==
    ASSUME NEW w \in Seq(Sample), NEW q \in Nat, \A i \in 1 .. Len(w) : w[i].age >= q
    PROVE  /\ Acp!Evicted(w) \in Seq(Sample)
           /\ \A i \in 1 .. Len(Acp!Evicted(w)) : Acp!Evicted(w)[i].age >= q
<1>1. PICK m \in 0 .. Len(w) : Acp!Evicted(w) = SubSeq(w, m + 1, Len(w))
  BY EvictedIsSuffix
<1> DEFINE e == SubSeq(w, m + 1, Len(w))
<1>2. Len(w) \in Nat
  OBVIOUS
<1>3. e \in Seq(Sample)
  BY <1>2
<1>4. Len(e) = Len(w) - m /\ \A i \in 1 .. Len(w) - m : e[i] = w[i + m]
  BY <1>2
<1>5. ASSUME NEW i \in 1 .. Len(e) PROVE e[i].age >= q
  <2>1. i + m \in 1 .. Len(w) /\ e[i] = w[i + m]
    BY <1>2, <1>4
  <2> QED BY <2>1
<1> QED BY <1>1, <1>3, <1>5

\* Nothing is served from a window of stale samples only.
LEMMA StaleIsEvicted ==
    ASSUME AdvisorAssumption, AgesInv, s11 > MaxAge
    PROVE  Acp!Read(s10) = << >>
<1>1. PICK m \in 0 .. Len(s10) : /\ Acp!Enough(s10, m)
                                 /\ Acp!Evicted(s10) = SubSeq(s10, m + 1, Len(s10))
  BY EvictedIsSuffix DEF AgesInv
<1>2. Len(s10) \in Nat
  BY DEF AgesInv
<1>3. m = Len(s10)
  <2>1. CASE m < Len(s10) /\ s10[m + 1].age <= MaxAge
    <3>1. m + 1 \in 1 .. Len(s10)
      BY <1>2, <2>1
    <3>2. s10[m + 1].age >= s11 /\ s10[m + 1].age \in Nat
      <4>1. s10[m + 1] \in Sample
        BY <3>1 DEF AgesInv
      <4> QED BY <3>1, <4>1 DEF AgesInv, Sample
    <3>3. PICK a \in Nat : a = s10[m + 1].age
      BY <3>2
    <3> QED BY <3>2, <3>3, <2>1 DEF AgesInv, AdvisorAssumption
  <2>2. CASE ~(m < Len(s10) /\ s10[m + 1].age <= MaxAge)
    BY <2>2, <1>1, <1>2 DEF Acp!Enough
  <2> QED BY <2>1, <2>2
<1>4. SubSeq(s10, m + 1, Len(s10)) = << >>
  BY <1>2, <1>3 DEF AgesInv
<1> QED BY <1>1, <1>4 DEF Acp!Read

Frame == [kind : {"initialize", "new", "prompt"}, prompt : Prompt \cup {"nobody"}]

\* Whose words may still come: of a prompt in the inbox that is not the one the engine
\* waits for, it gave up waiting.
InboxInv ==
    /\ s3 \in Seq(Frame)
    /\ \A i \in 1 .. Len(s3) :
         s3[i].kind = "prompt" => s3[i].prompt \in s12 \/ (s8 = "prompt" /\ s3[i].prompt = s7.prompt)

CurInv == s7 = [prompt |-> s7.prompt, why |-> s7.why] /\ s7.prompt \in Prompt \cup {"nobody"}
TextInv == s8 = "prompt" => s6 \subseteq {s7.prompt} \cup s12

AcpInv == AgesInv /\ InboxInv /\ CurInv /\ TextInv /\ Acp!OwnWords

LEMMA AcpInit == ASSUME Acp!Init PROVE AcpInv
<1>1. s10 = << >> /\ s11 = 0 /\ s3 = << >> /\ s8 = "idle"
  BY DEF Acp!Init
<1>2. s7 = [prompt |-> "nobody", why |-> "none"] /\ s13.words = {}
  BY DEF Acp!Init, Acp!NoPrompt, Acp!Nobody
<1>3. AgesInv /\ InboxInv
  BY <1>1 DEF AgesInv, InboxInv
<1> QED BY <1>1, <1>2, <1>3 DEF AcpInv, CurInv, TextInv, Acp!OwnWords

LEMMA AcpHolds == ASSUME AcpInv PROVE Acp!OwnWords /\ Acp!SkipDrains
<1>1. CASE s11 > MaxAge
  <2>1. AdvisorAssumption
    BY PartsAssumption
  <2>2. Acp!Read(s10) = << >>
    BY <1>1, <2>1, StaleIsEvicted DEF AcpInv
  <2>3. Len(<< >>) = 0 /\ ~(0 >= MinSamples)
    BY <2>1 DEF AdvisorAssumption
  <2>4. ~Acp!SkipReview
    BY <2>2, <2>3 DEF Acp!SkipReview
  <2> QED BY <2>4 DEF AcpInv, Acp!SkipDrains
<1> QED BY <1>1 DEF AcpInv, Acp!SkipDrains

\* Recording a sample, and letting time pass, keep the ages in order.
LEMMA RecordKeeps ==
    ASSUME AgesInv, NEW slow \in BOOLEAN, Acp!Timed(slow)
    PROVE  AgesInv'
<1>1. CASE UNCHANGED <<s10, s11>>
  BY <1>1 DEF AgesInv
<1>2. CASE Acp!Record(slow)
  <2> DEFINE r == [slow |-> slow, age |-> 0]
             w == Append(s10, r)
  <2>1. r \in Sample
    BY DEF Sample
  <2>2. w \in Seq(Sample)
    BY <2>1 DEF AgesInv
  <2>3. \A i \in 1 .. Len(w) : w[i].age >= 0
    <3>1. \A i \in 1 .. Len(w) : w[i] \in Sample
      BY <2>2
    <3> HIDE DEF w
    <3> QED BY <3>1 DEF Sample
  <2>4. s10' = Acp!Evicted(w) /\ s11' = 0
    BY <1>2 DEF Acp!Record
  <2> HIDE DEF w
  <2> QED BY <2>2, <2>3, <2>4, EvictedKeepsAges DEF AgesInv
<1> QED BY <1>1, <1>2 DEF Acp!Timed

LEMMA TickKeeps ==
    ASSUME AgesInv, Acp!Tick
    PROVE  AgesInv'
<1> DEFINE w == [i \in DOMAIN s10 |-> [s10[i] EXCEPT !.age = @ + 1]]
<1>0. Len(s10) \in Nat /\ DOMAIN s10 = 1 .. Len(s10)
  BY DEF AgesInv
<1>1. ASSUME NEW i \in 1 .. Len(s10)
      PROVE  w[i] \in Sample /\ w[i].age >= s11 + 1 /\ w[i].age >= s11
  <2>1. s10[i] \in Sample /\ s10[i].age >= s11 /\ s11 \in Nat
    BY <1>0 DEF AgesInv
  <2>2. PICK a \in Nat : a = s10[i].age
    BY <2>1 DEF Sample
  <2>3. w[i] = [s10[i] EXCEPT !.age = @ + 1]
    BY <1>0
  <2>4. w[i] \in Sample /\ w[i].age = a + 1
    BY <2>1, <2>2, <2>3 DEF Sample
  <2> QED BY <2>1, <2>2, <2>4
<1>2. w \in Seq(Sample) /\ Len(w) = Len(s10)
  <2>1. w \in [1 .. Len(s10) -> Sample]
    BY <1>0, <1>1
  <2> HIDE DEF w
  <2> QED BY <2>1, <1>0
<1>3. s10' = Acp!Evicted(w) /\ s11' \in {s11, s11 + 1}
  BY DEF Acp!Tick, Acp!Read
<1>4. PICK q : q = s11'
  OBVIOUS
<1>a. \A i \in 1 .. Len(s10) : w[i].age >= s11 + 1 /\ w[i].age >= s11
  BY <1>1
<1> HIDE DEF w
<1>5. q \in Nat /\ \A i \in 1 .. Len(w) : w[i].age >= q
  <2>1. s11 \in Nat /\ q \in {s11, s11 + 1}
    BY <1>3, <1>4 DEF AgesInv
  <2>2. q \in Nat
    BY <2>1
  <2>3. \A i \in 1 .. Len(w) : w[i].age >= q
    BY <1>a, <1>2, <2>1
  <2> QED BY <2>2, <2>3
<1>6. /\ Acp!Evicted(w) \in Seq(Sample)
      /\ \A i \in 1 .. Len(Acp!Evicted(w)) : Acp!Evicted(w)[i].age >= q
  BY <1>2, <1>5, EvictedKeepsAges
<1> QED BY <1>3, <1>4, <1>5, <1>6 DEF AgesInv

\* A request of kind k of the prompt now in hand is sent, if the child hears it; the
\* prompt before is over, answered or given up.
LEMMA SentKeeps ==
    ASSUME InboxInv, CurInv', s12' = s12, NEW k \in {"initialize", "new", "prompt"}, Acp!Sent(k),
           s8 # "prompt"
    PROVE  InboxInv'
<1> DEFINE r == [kind |-> k, prompt |-> IF k = "prompt" THEN s7'.prompt ELSE "nobody"]
<1>1. s8' = k /\ s3' = IF s1' = "up" THEN Append(s3, r) ELSE s3
  BY DEF Acp!Sent, Acp!Nobody
<1>2. r \in Frame /\ r.kind = k /\ (k = "prompt" => r.prompt = s7'.prompt)
  BY DEF CurInv, Frame
<1> HIDE DEF r
<1>3. \A i \in 1 .. Len(s3) : s3[i].kind = "prompt" => s3[i].prompt \in s12
  BY DEF InboxInv
<1>4. CASE s3' = s3
  BY <1>3, <1>4 DEF InboxInv
<1>5. CASE s3' = Append(s3, r)
  <2>1. s3' \in Seq(Frame)
    BY <1>2, <1>5 DEF InboxInv
  <2>2. Len(s3') = Len(s3) + 1 /\ Len(s3) \in Nat
    BY <1>5 DEF InboxInv
  <2>3. s3'[Len(s3) + 1] = r /\ \A i \in 1 .. Len(s3) : s3'[i] = s3[i]
    BY <1>5 DEF InboxInv
  <2>4. ASSUME NEW i \in 1 .. Len(s3'), s3'[i].kind = "prompt"
        PROVE  s3'[i].prompt \in s12' \/ (s8' = "prompt" /\ s3'[i].prompt = s7'.prompt)
    <3>1. CASE i = Len(s3) + 1
      BY <3>1, <2>3, <2>4, <1>1, <1>2
    <3>2. CASE i \in 1 .. Len(s3)
      BY <3>2, <2>3, <2>4, <1>3
    <3> QED BY <3>1, <3>2, <2>2
  <2> QED BY <2>1, <2>4 DEF InboxInv
<1> QED BY <1>1, <1>4, <1>5

\* The engine stops waiting for the prompt in hand.
LEMMA GivenUpKeeps ==
    ASSUME InboxInv, Acp!OwnWords, s3' = s3, s13' = s13, s8' = "idle",
           s12' = IF s8 = "prompt" THEN s12 \cup {s7.prompt} ELSE s12
    PROVE  InboxInv' /\ TextInv' /\ Acp!OwnWords'
BY DEF InboxInv, TextInv, Acp!OwnWords

\* The frames behind the first one.
LEMMA TailIs ==
    ASSUME NEW q \in Seq(Frame), q # << >>
    PROVE  \A i \in 1 .. Len(q) - 1 : i + 1 \in 1 .. Len(q) /\ Tail(q)[i] = q[i + 1]
<1> SUFFICES ASSUME NEW i \in 1 .. Len(q) - 1
             PROVE  i + 1 \in 1 .. Len(q) /\ Tail(q)[i] = q[i + 1]
  OBVIOUS
<1>1. Len(q) \in Nat /\ i \in Nat /\ i >= 1 /\ i + 1 <= Len(q)
  OBVIOUS
<1>2. Tail(q)[i] = q[i + 1]
  BY <1>1
<1> QED BY <1>1, <1>2

LEMMA NoPromptFits == ASSUME s7' = Acp!NoPrompt PROVE CurInv'
BY DEF Acp!NoPrompt, Acp!Nobody, CurInv

LEMMA AcpNext ==
    ASSUME AcpInv, [Acp!Next]_<<s1, s2, s3, s4, s5, s6, s7, s8, s9, s10, s11, s12, s13>>
    PROVE  AcpInv'
<1>f. AgesInv /\ InboxInv /\ CurInv /\ TextInv /\ Acp!OwnWords
  BY DEF AcpInv
<1>1. ASSUME NEW p \in Prompt, NEW why \in {"review", "checkin"}, Acp!Ask(p, why)
      PROVE  AcpInv'
  <2>1. s8 = "idle" /\ s7' = [prompt |-> p, why |-> why] /\ UNCHANGED <<s10, s11, s12, s13>>
    BY <1>1 DEF Acp!Ask
  <2>2. CurInv'
    BY <2>1 DEF CurInv
  <2>3. \E k \in {"initialize", "new", "prompt"} : Acp!Sent(k) /\ (k = "prompt" => s6' = {})
    BY <1>1 DEF Acp!Ask, Acp!SentPrompt, Acp!ClearedText
  <2>4. PICK k \in {"initialize", "new", "prompt"} : Acp!Sent(k) /\ (k = "prompt" => s6' = {})
    BY <2>3
  <2>5. InboxInv'
    BY <2>1, <2>2, <2>4, <1>f, SentKeeps
  <2>6. TextInv'
    BY <2>4 DEF TextInv, Acp!Sent
  <2> QED BY <2>1, <2>2, <2>5, <2>6, <1>f DEF AcpInv, AgesInv, Acp!OwnWords
<1>2. CASE Acp!Chunk
  <2>1. /\ UNCHANGED <<s3, s7, s8, s10, s11, s12, s13>>
        /\ s6' = s6 \/ (s6' = s6 \cup {s3[1].prompt} /\ s3 # << >> /\ s3[1].kind = "prompt")
    BY <1>2 DEF Acp!Chunk
  <2>2. s3 # << >> => 1 \in 1 .. Len(s3)
    BY <1>f DEF InboxInv
  <2>3. TextInv'
    BY <2>1, <2>2, <1>f DEF TextInv, InboxInv
  <2> QED BY <2>1, <2>3, <1>f DEF AcpInv, AgesInv, InboxInv, CurInv, Acp!OwnWords
<1>3. CASE Acp!Respond
  <2>0. s3 # << >>
    BY <1>3 DEF Acp!Respond
  <2>1. CASE s3' = Tail(s3) /\ UNCHANGED <<s6, s7, s8, s10, s11, s12, s13>>
    <3>1. s3' \in Seq(Frame) /\ Len(s3') = Len(s3) - 1 /\ Len(s3) \in Nat
      BY <2>0, <2>1, <1>f DEF InboxInv
    <3>2. \A i \in 1 .. Len(s3') : i + 1 \in 1 .. Len(s3) /\ s3'[i] = s3[i + 1]
      <4>1. \A i \in 1 .. Len(s3) - 1 : i + 1 \in 1 .. Len(s3) /\ Tail(s3)[i] = s3[i + 1]
        BY <2>0, <1>f, TailIs DEF InboxInv
      <4> QED BY <2>1, <3>1, <4>1
    <3>3. InboxInv'
      BY <2>1, <3>1, <3>2, <1>f DEF InboxInv
    <3> QED BY <2>1, <3>3, <1>f DEF AcpInv, AgesInv, CurInv, TextInv, Acp!OwnWords
  <2>2. CASE Acp!Advance /\ UNCHANGED <<s7, s10, s11, s12, s13>>
    <3>1. CASE s8 = "initialize" /\ s8' = "new" /\ s3' = <<[kind |-> "new", prompt |-> "nobody"]>>
      <4>1. InboxInv'
        BY <3>1 DEF InboxInv, Frame
      <4> QED BY <2>2, <3>1, <4>1, <1>f DEF AcpInv, AgesInv, CurInv, TextInv, Acp!OwnWords
    <3>2. CASE /\ s8 = "new" /\ s8' = "prompt" /\ s6' = {}
               /\ s3' = <<[kind |-> "prompt", prompt |-> s7.prompt]>>
      <4>1. InboxInv'
        BY <2>2, <3>2, <1>f DEF InboxInv, Frame, CurInv
      <4> QED BY <2>2, <3>2, <4>1, <1>f DEF AcpInv, AgesInv, CurInv, TextInv, Acp!OwnWords
    <3> QED BY <2>2, <3>1, <3>2 DEF Acp!Advance, Acp!ClearedText, Acp!Nobody
  <2>3. CASE /\ s8 = "prompt" /\ s3' = << >> /\ s8' = "idle" /\ s7' = Acp!NoPrompt
             /\ s13' = [prompt |-> s7.prompt, words |-> s6] /\ UNCHANGED <<s6, s12>>
             /\ \E slow \in BOOLEAN : Acp!Timed(slow)
    <3>1. InboxInv' /\ TextInv'
      BY <2>3 DEF InboxInv, TextInv
    <3>2. Acp!OwnWords'
      BY <2>3, <1>f DEF TextInv, Acp!OwnWords
    <3>3. CurInv'
      BY <2>3, NoPromptFits
    <3> QED BY <2>3, <3>1, <3>2, <3>3, <1>f, RecordKeeps DEF AcpInv
  <2> QED BY <1>3, <2>1, <2>2, <2>3 DEF Acp!Respond, Acp!Unheard
<1>4. CASE Acp!Refuse
  <2>1. /\ s3' = << >> /\ s8' = "idle" /\ s7' = Acp!NoPrompt /\ UNCHANGED <<s12, s13>>
        /\ \E slow \in BOOLEAN : Acp!Timed(slow)
    BY <1>4 DEF Acp!Refuse
  <2>2. InboxInv' /\ TextInv'
    BY <2>1 DEF InboxInv, TextInv
  <2>3. Acp!OwnWords'
    BY <2>1, <1>f DEF Acp!OwnWords
  <2> QED BY <2>1, <2>2, <2>3, <1>f, NoPromptFits, RecordKeeps DEF AcpInv
<1>5. ASSUME s3' = s3, s13' = s13, s8' = "idle", s7' = Acp!NoPrompt, AgesInv',
             s12' = IF s8 = "prompt" THEN s12 \cup {s7.prompt} ELSE s12
      PROVE  AcpInv'
  BY <1>5, <1>f, GivenUpKeeps, NoPromptFits DEF AcpInv
<1>6. CASE Acp!Timeout
  <2>1. CASE Acp!Failed(TRUE)
    BY <1>5, <1>6, <2>1, <1>f, RecordKeeps DEF Acp!Timeout, Acp!Failed
  <2>2. CASE UNCHANGED <<s10, s11>>
    <3>1. AgesInv'
      BY <2>2, <1>f DEF AgesInv
    <3> QED BY <1>5, <1>6, <2>1, <3>1 DEF Acp!Timeout
  <2> QED BY <1>6, <2>1, <2>2 DEF Acp!Timeout
<1>7. CASE Acp!Die
  <2>1. s3' = << >> /\ UNCHANGED <<s6, s7, s8, s10, s11, s12, s13>>
    BY <1>7 DEF Acp!Die
  <2>2. InboxInv'
    BY <2>1 DEF InboxInv
  <2> QED BY <2>1, <2>2, <1>f DEF AcpInv, AgesInv, CurInv, TextInv, Acp!OwnWords
<1>8. CASE Acp!Close
  <2>1. CASE UNCHANGED <<s7, s8, s10, s11, s12>>
    BY <1>8, <2>1, <1>f DEF Acp!Close, AcpInv, AgesInv, InboxInv, CurInv, TextInv, Acp!OwnWords
  <2>2. ASSUME NEW slow \in BOOLEAN, Acp!Failed(slow) PROVE AcpInv'
    BY <1>5, <1>8, <2>2, <1>f, RecordKeeps DEF Acp!Close, Acp!Failed
  <2> QED BY <1>8, <2>1, <2>2 DEF Acp!Close
<1>9. CASE Acp!Tick
  <2>1. UNCHANGED <<s3, s6, s7, s8, s12, s13>>
    BY <1>9 DEF Acp!Tick
  <2> QED BY <2>1, <1>9, <1>f, TickKeeps DEF AcpInv, InboxInv, CurInv, TextInv, Acp!OwnWords
<1>10. CASE UNCHANGED <<s1, s2, s3, s4, s5, s6, s7, s8, s9, s10, s11, s12, s13>>
  BY <1>10, <1>f DEF AcpInv, AgesInv, InboxInv, CurInv, TextInv, Acp!OwnWords
<1> QED BY <1>1, <1>2, <1>3, <1>4, <1>6, <1>7, <1>8, <1>9, <1>10 DEF Acp!Next

-----------------------------------------------------------------------------
(* GatewayTransport                                                        *)

\* A run that is registered is of a prompt that was sent and is in hand.
GatewayInv ==
    /\ DOMAIN s8 = Question /\ s7 \subseteq Question
    /\ \A p \in Question : DOMAIN s8[p] = {"at", "on", "acked", "left"}
    /\ Gateway!NoRunLeft /\ Gateway!Handled

LEMMA GatewayInit == ASSUME Gateway!Init PROVE GatewayInv
BY DEF Gateway!Init, GatewayInv, Gateway!NoRunLeft, Gateway!Handled

\* Prompts that are in no run fail, or are sent.
LEMMA FailKeeps ==
    ASSUME GatewayInv, NEW F, Gateway!FailPrompts(F), s7' \subseteq s7 \ F, Gateway!Handled'
    PROVE  GatewayInv'
BY DEF GatewayInv, Gateway!FailPrompts, Gateway!NoRunLeft, Gateway!Handled

LEMMA ChatKeeps ==
    ASSUME GatewayInv, NEW ps \in SUBSET Question, NEW rs, Gateway!Chat(ps, rs),
           ps \cap s7 = {}, Gateway!Handled'
    PROVE  GatewayInv'
<1>1. CASE Gateway!FailPrompts(ps) /\ s7' = s7
  BY <1>1, FailKeeps
<1>2. CASE /\ s7' = s7 \cup ps
           /\ s8' = [p \in Question |-> IF p \in ps THEN [s8[p] EXCEPT !.at = "sent", !.on = s2]
                                        ELSE s8[p]]
  BY <1>2 DEF GatewayInv, Gateway!NoRunLeft, Gateway!Handled
<1> QED BY <1>1, <1>2 DEF Gateway!Chat

LEMMA GatewayNext ==
    ASSUME GatewayInv, [Gateway!Next]_<<s1, s2, s3, s4, s5, s6, s7, s8, s9>>
    PROVE  GatewayInv'
<1>0. /\ \A p \in s7 : p \in Question /\ s8[p].at = "sent"
      /\ \A ps : ~ Gateway!Unheard(ps)
  BY DEF GatewayInv, Gateway!NoRunLeft, Gateway!Unheard, Gateway!Awaits
<1>1. ASSUME NEW p \in Question, Gateway!Begin(p) PROVE GatewayInv'
  <2>1. s8[p].at = "new" /\ Gateway!Handled' /\ p \notin s7
    BY <1>0, <1>1 DEF Gateway!Begin, GatewayInv, Gateway!Handled
  <2>2. CASE Gateway!Chat({p}, s6)
    BY <2>1, <2>2, ChatKeeps
  <2>3. ASSUME NEW c, s8' = [s8 EXCEPT ![p].at = "connecting", ![p].on = c], s7' = s7
        PROVE  GatewayInv'
    BY <2>1, <2>3 DEF GatewayInv, Gateway!NoRunLeft, Gateway!Handled
  <2> QED BY <1>1, <2>2, <2>3 DEF Gateway!Begin
<1>2. ASSUME NEW p \in Question, Gateway!Abandon(p) PROVE GatewayInv'
  <2>1. /\ s8' = [s8 EXCEPT ![p].left = TRUE,
                            ![p].at = IF @ = "connecting" THEN "failed" ELSE @]
        /\ UNCHANGED <<s7, s9>>
    BY <1>2 DEF Gateway!Abandon
  <2> QED BY <2>1, <1>0 DEF GatewayInv, Gateway!NoRunLeft, Gateway!Handled
<1>3. ASSUME NEW p \in Question, Gateway!Ack(p) PROVE GatewayInv'
  <2>1. Gateway!Handled'
    BY <1>3 DEF Gateway!Ack, GatewayInv, Gateway!Handled
  <2>2. CASE /\ s8' = [s8 EXCEPT ![p].acked = TRUE,
                         ![p].at = IF @ = "sent" /\ p \notin s7 THEN "answered" ELSE @]
             /\ s7' = s7
    BY <2>1, <2>2, <1>0 DEF GatewayInv, Gateway!NoRunLeft, Gateway!Handled
  <2>3. CASE Gateway!FailPrompts({p}) /\ s7' = Gateway!RunsWithout({p})
    BY <2>1, <2>3, FailKeeps DEF Gateway!RunsWithout
  <2>4. CASE UNCHANGED <<s7, s8>>
    BY <2>1, <2>4 DEF GatewayInv, Gateway!NoRunLeft, Gateway!Handled
  <2> QED BY <1>3, <2>2, <2>3, <2>4 DEF Gateway!Ack
<1>4. ASSUME NEW p \in Question, Gateway!Reply(p) PROVE GatewayInv'
  <2>1. /\ s8' = [s8 EXCEPT ![p].at = IF s8[p].acked THEN "answered" ELSE @]
        /\ s7' = s7 \ {p} /\ s9' = s9
    BY <1>4 DEF Gateway!Reply
  <2> QED BY <2>1 DEF GatewayInv, Gateway!NoRunLeft, Gateway!Handled
<1>5. ASSUME NEW p \in Question, Gateway!RunFails(p) PROVE GatewayInv'
  <2>1. Gateway!FailPrompts({p}) /\ s7' = s7 \ {p} /\ s9' = (s9 \/ Gateway!Unheard({p}))
    BY <1>5 DEF Gateway!RunFails
  <2>2. Gateway!Handled'
    BY <2>1, <1>0, Zenon DEF GatewayInv, Gateway!Handled
  <2> QED BY <2>1, <2>2, FailKeeps
<1>6. ASSUME UNCHANGED <<s7, s8, s9>> PROVE GatewayInv'
  BY <1>6 DEF GatewayInv, Gateway!NoRunLeft, Gateway!Handled
<1>7. ASSUME NEW s \in Socket, Gateway!Hello(s) PROVE GatewayInv'
  <2>1. Gateway!Chat(Gateway!Waiting(s), Gateway!Forget(s)) /\ Gateway!Handled'
    BY <1>7 DEF Gateway!Hello, GatewayInv, Gateway!Handled
  <2>2. Gateway!Waiting(s) \subseteq Question /\ Gateway!Waiting(s) \cap s7 = {}
    BY <1>0 DEF Gateway!Waiting
  <2> QED BY <2>1, <2>2, ChatKeeps
<1>8. ASSUME NEW s, NEW at, Gateway!Closed(s, at), NEW F, Gateway!FailPrompts(F) PROVE GatewayInv'
  <2>1. s7' = {} /\ s9' = (s9 \/ Gateway!Unheard(s7))
    BY <1>8 DEF Gateway!Closed
  <2>2. Gateway!Handled'
    BY <2>1, <1>0, Zenon DEF GatewayInv, Gateway!Handled
  <2> QED BY <2>1, <2>2, <1>8, FailKeeps
<1>9. ASSUME NEW s \in Socket, Gateway!HandshakeFails(s) PROVE GatewayInv'
  <2>1. CASE Gateway!FailPrompts(Gateway!Waiting(s)) /\ UNCHANGED <<s7, s9>>
    <3>1. s7 \subseteq s7 \ Gateway!Waiting(s)
      BY <1>0 DEF Gateway!Waiting
    <3>2. Gateway!Handled'
      BY <2>1 DEF GatewayInv, Gateway!Handled
    <3> QED BY <2>1, <3>1, <3>2, FailKeeps
  <2>2. CASE /\ Gateway!Closed(s, "failed")
             /\ Gateway!FailPrompts(Gateway!Waiting(s) \cup Gateway!InHand(Gateway!Dropped))
    BY <2>2, <1>8
  <2> QED BY <1>9, <2>1, <2>2 DEF Gateway!HandshakeFails
<1>10. ASSUME NEW s \in Socket, Gateway!CloseEvent(s) PROVE GatewayInv'
  BY <1>8, <1>10 DEF Gateway!CloseEvent
<1>11. ASSUME NEW s \in Socket,
              Gateway!Opens(s) \/ Gateway!Challenged(s) \/ Gateway!Rejected(s) \/ Gateway!Breaks(s)
       PROVE  GatewayInv'
  BY <1>6, <1>11 DEF Gateway!Opens, Gateway!Challenged, Gateway!Rejected, Gateway!Breaks
<1> QED BY <1>1, <1>2, <1>3, <1>4, <1>5, <1>6, <1>7, <1>9, <1>10, <1>11 DEF Gateway!Next

\* A reply holds the words of no other prompt but one the engine gave up, a slow
\* period does not latch the skipping of reviews, no promise is rejected unheard and no
\* run outlives its prompt, for any prompts, window, children and sockets.
THEOREM AdvisorIsSound == Spec => []AdvisorSound
<1> DEFINE J == (part = "acp" => AcpInv) /\ (part = "gateway" => GatewayInv)
<1>1. Init => J
  BY InitOf, AcpInit, GatewayInit
<1>2. J /\ [Next]_vars => J'
  BY StepOf, AcpNext, GatewayNext
<1>3. J => AdvisorSound
  BY AcpHolds DEF AdvisorSound, GatewayInv
<1> QED BY <1>1, <1>2, <1>3, PTL DEF Spec

-----------------------------------------------------------------------------
(* Accounts: the links                                                     *)

\* Of a code that is still free, nobody was told that it linked.
CodesInv ==
    /\ s6 \in [Code -> Nat] /\ s4 \in [Code -> Links!Row]
    /\ \A c \in Code : s6[c] <= 1 /\ (~s4[c].used => s6[c] = 0)

\* The confirmations in flight are of codes.
ConfirmsInv ==
    /\ DOMAIN s5 = Confirmation
    /\ \A r \in Confirmation :
         DOMAIN s5[r] = {"pc", "code", "chat", "row"} /\ (s5[r].pc # "off" => s5[r].code \in Code)

LinksInv == CodesInv /\ ConfirmsInv

LEMMA LinksInit == ASSUME Links!Init PROVE LinksInv
BY DEF Links!Init, LinksInv, CodesInv, ConfirmsInv, Links!NoRow, Links!Row, Links!Idle

\* A confirmation that is started, moved on or put aside.
LEMMA ConfirmsKept ==
    ASSUME ConfirmsInv, NEW r \in Confirmation, NEW q, s5' = [s5 EXCEPT ![r] = q],
           DOMAIN q = {"pc", "code", "chat", "row"}, q.pc # "off" => q.code \in Code
    PROVE  ConfirmsInv'
BY DEF ConfirmsInv

LEMMA LinksNext ==
    ASSUME LinksInv, [Links!Next]_<<s1, s2, s3, s4, s5, s6, s7, s8, s9>>
    PROVE  LinksInv'
<1> USE DEF LinksInv
<1>n. Links!NoRow \in Links!Row /\ ~Links!NoRow.used
  BY DEF Links!NoRow, Links!Row
<1>i. DOMAIN Links!Idle = {"pc", "code", "chat", "row"} /\ Links!Idle.pc = "off"
  BY DEF Links!Idle
<1>1. ASSUME UNCHANGED <<s4, s5, s6>> PROVE LinksInv'
  BY <1>1 DEF CodesInv, ConfirmsInv
<1>2. ASSUME NEW u \in User, NEW c \in Code, Links!StartLink(u, c) PROVE LinksInv'
  <2>1. /\ s4[c] = Links!NoRow /\ UNCHANGED <<s5, s6>>
        /\ s4' = [d \in Code |-> IF d = c THEN [Links!NoRow EXCEPT !.owner = u]
                                 ELSE IF s4[d].owner = u THEN [s4[d] EXCEPT !.used = TRUE]
                                 ELSE s4[d]]
    BY <1>2 DEF Links!StartLink
  <2>2. CodesInv'
    <3>1. ASSUME NEW d \in Code
          PROVE  s4'[d] \in Links!Row /\ (s4'[d].used \/ s4'[d].used = s4[d].used)
      <4>1. CASE d = c
        BY <2>1, <1>n, <4>1 DEF Links!Row, Links!NoRow
      <4>2. CASE d # c
        BY <2>1, <4>2 DEF Links!Row, CodesInv
      <4> QED BY <4>1, <4>2
    <3> QED BY <2>1, <3>1 DEF CodesInv
  <2> QED BY <2>1, <2>2 DEF ConfirmsInv
<1>3. ASSUME NEW c \in Code, Links!CodeExpires(c) PROVE LinksInv'
  <2>1. s4' = [s4 EXCEPT ![c].expired = TRUE] /\ UNCHANGED <<s5, s6>>
    BY <1>3 DEF Links!CodeExpires
  <2>2. CodesInv'
    BY <2>1 DEF CodesInv, Links!Row
  <2> QED BY <2>1, <2>2 DEF ConfirmsInv
<1>4. ASSUME NEW r \in Confirmation, NEW c \in Code, NEW t \in LinkChat, Links!ConfirmRead(r, c, t)
      PROVE  LinksInv'
  <2> DEFINE q == [pc |-> "count", code |-> c, chat |-> t, row |-> s4[c]]
  <2>1. s5' = [s5 EXCEPT ![r] = q] /\ UNCHANGED <<s4, s6>>
    BY <1>4 DEF Links!ConfirmRead
  <2>2. DOMAIN q = {"pc", "code", "chat", "row"} /\ q.code \in Code
    OBVIOUS
  <2> QED BY <2>1, <2>2, ConfirmsKept DEF CodesInv
<1>5. ASSUME NEW r \in Confirmation, Links!ConfirmCount(r) PROVE LinksInv'
  <2> DEFINE c == s5[r].code
  <2>1. s5[r].pc = "count" /\ c \in Code /\ s6' = s6
    BY <1>5 DEF Links!ConfirmCount, ConfirmsInv
  <2>2. ASSUME NEW k \in {Links!Idle, [s5[r] EXCEPT !.pc = "link"]}, s5' = [s5 EXCEPT ![r] = k]
        PROVE  ConfirmsInv'
    <3>1. DOMAIN k = {"pc", "code", "chat", "row"} /\ (k.pc # "off" => k.code \in Code)
      BY <1>i, <2>1, <2>2 DEF ConfirmsInv
    <3> QED BY <2>2, <3>1, ConfirmsKept
  <2>3. \E k \in {Links!Idle, [s5[r] EXCEPT !.pc = "link"]} : s5' = [s5 EXCEPT ![r] = k]
    BY <1>5 DEF Links!ConfirmCount, ConfirmsInv
  <2>4. CodesInv'
    <3>1. CASE s4' = [s4 EXCEPT ![c].attempts = @ + 1]
      BY <2>1, <3>1 DEF CodesInv, Links!Row
    <3>2. CASE s4' = s4
      BY <2>1, <3>2 DEF CodesInv
    <3> QED BY <1>5, <3>1, <3>2 DEF Links!ConfirmCount
  <2> QED BY <2>2, <2>3, <2>4
<1>6. ASSUME NEW r \in Confirmation, Links!ConfirmLink(r) PROVE LinksInv'
  <2> DEFINE c == s5[r].code
  <2>1. s5[r].pc = "link" /\ c \in Code /\ s5' = [s5 EXCEPT ![r] = Links!Idle]
    BY <1>6 DEF Links!ConfirmLink, ConfirmsInv
  <2>2. ConfirmsInv'
    BY <1>i, <2>1, ConfirmsKept
  <2>3. CASE /\ s4' = [s4 EXCEPT ![c].used = TRUE]
             /\ s6' = [s6 EXCEPT ![c] = IF Links!Claimed(c) THEN @ + 1 ELSE @]
    <3>0. PICK e : e = [s4[c] EXCEPT !.used = TRUE]
      OBVIOUS
    <3>1. s4' \in [Code -> Links!Row] /\ s4'[c].used /\ \A d \in Code \ {c} : s4'[d] = s4[d]
      <4>0. s4[c] \in Links!Row
        BY <2>1 DEF CodesInv
      <4>1. e \in Links!Row
        BY <3>0, <4>0 DEF Links!Row
      <4>3. e.used = TRUE
        BY <3>0, <4>0 DEF Links!Row
      <4>2. s4' = [s4 EXCEPT ![c] = e]
        BY <2>3, <3>0, Zenon
      <4> QED BY <2>1, <4>1, <4>2, <4>3 DEF CodesInv
    <3>2. s6[c] <= 1 /\ s6[c] \in Nat /\ (Links!Claimed(c) => s6[c] = 0)
      BY <2>1 DEF CodesInv, Links!Claimed
    <3>3. s6' \in [Code -> Nat] /\ s6'[c] <= 1 /\ \A d \in Code \ {c} : s6'[d] = s6[d]
      BY <2>1, <2>3, <3>2 DEF CodesInv
    <3> QED BY <2>2, <3>1, <3>3 DEF CodesInv
  <2>4. CASE UNCHANGED <<s4, s6>>
    BY <2>2, <2>4 DEF CodesInv
  <2> QED BY <1>6, <2>3, <2>4 DEF Links!ConfirmLink
<1>7. ASSUME NEW u \in User, Links!Register(u) \/ \E t \in LinkChat : Links!RegisterTelegram(u, t)
      PROVE  LinksInv'
  BY <1>1, <1>7 DEF Links!Register, Links!RegisterTelegram
<1> QED BY <1>1, <1>2, <1>3, <1>4, <1>5, <1>6, <1>7 DEF Links!Next

-----------------------------------------------------------------------------
(* Accounts: the referrals                                                 *)

AppliesTyped ==
    /\ s2 \subseteq Member /\ s7 \in [Member -> Member \cup {"nobody"}]
    /\ s9 \in [Member -> [Referrals!Reason -> Nat]]
    /\ DOMAIN s8 = Application
    /\ \A r \in Application :
         /\ DOMAIN s8[r] = {"pc", "referee", "referrer"}
         /\ s8[r].pc # "off" => s8[r].referee \in Member /\ s8[r].referrer \in Member

\* An application whose referral is inserted.
Inserted(r) == s8[r].pc \in {"referrer", "referee", "count"}

\* It is of the referral of its referee, the only one; no bonus was paid for it
\* before its turn.
InsertedInv ==
    /\ \A r \in Application : Inserted(r) => s7[s8[r].referee] = s8[r].referrer
    /\ \A r, q \in Application :
         Inserted(r) /\ Inserted(q) /\ s8[r].referee = s8[q].referee => r = q
    /\ \A r \in Application :
         s8[r].pc \in {"referrer", "referee"} => s9[s8[r].referee]["referee_bonus"] = 0

RefereeInv ==
    \A u \in Member :
      s9[u]["referee_bonus"] <= (IF s7[u] = "nobody" THEN 0 ELSE 1)

\* The referees for whom their referrer is still to be paid, and those who were paid
\* or are to be next.
Owing(u) == \E r \in Application : s8[r].pc = "referrer" /\ s8[r].referee = u
Earned(u) ==
    \/ s9[u]["referee_bonus"] > 0
    \/ \E r \in Application : s8[r].pc = "referee" /\ s8[r].referee = u

\* The referrer was paid for just the referees in P.
PaidFor(v, P) ==
    /\ P \subseteq Referrals!Referred(v) /\ Cardinality(P) = s9[v]["referral_bonus"]
    /\ \A u \in Referrals!Referred(v) : (Earned(u) => u \in P) /\ (Owing(u) => u \notin P)

ReferrerInv == \A v \in Member : \E P \in SUBSET Member : PaidFor(v, P)

ReferralsInv == AppliesTyped /\ InsertedInv /\ RefereeInv /\ ReferrerInv

LEMMA ReferralsInit == ASSUME Referrals!Init PROVE ReferralsInv
<1>1. AppliesTyped /\ InsertedInv /\ RefereeInv
  BY DEF Referrals!Init, AppliesTyped, InsertedInv, Inserted, RefereeInv, Referrals!Done,
     Referrals!Reason
<1>2. ASSUME NEW v \in Member PROVE PaidFor(v, {})
  BY FS_EmptySet DEF Referrals!Init, PaidFor, Earned, Owing, Referrals!Done, Referrals!Reason,
     Referrals!Referred
<1> QED BY <1>1, <1>2 DEF ReferralsInv, ReferrerInv

\* The instance counts as this module does.
LEMMA SameSize == ASSUME NEW S PROVE Referrals!Cardinality(S) = Cardinality(S)
BY Zenon DEF Referrals!Cardinality, Cardinality

LEMMA ReferralsHold == ASSUME ReferralsInv PROVE Referrals!BonusesBacked
<1> SUFFICES ASSUME NEW v \in Member
    PROVE  /\ s9[v]["referee_bonus"] <= (IF s7[v] = "nobody" THEN 0 ELSE 1)
           /\ s9[v]["referral_bonus"] <= Cardinality(Referrals!Referred(v))
           /\ Cardinality({u \in Referrals!Referred(v) : s9[u]["referee_bonus"] > 0})
                 <= s9[v]["referral_bonus"]
  BY SameSize, Zenon DEF Referrals!BonusesBacked
<1>1. PICK P \in SUBSET Member : PaidFor(v, P)
  BY DEF ReferralsInv, ReferrerInv
<1> DEFINE Q == {u \in Referrals!Referred(v) : s9[u]["referee_bonus"] > 0}
<1>2. IsFiniteSet(Referrals!Referred(v)) /\ P \in SUBSET Referrals!Referred(v)
  BY <1>1, PartsAssumption, FS_Subset DEF AccountsAssumption, Referrals!Referred, PaidFor
<1>3. Q \in SUBSET P /\ IsFiniteSet(P)
  BY <1>1, <1>2, FS_Subset DEF PaidFor, Earned
<1>4. Cardinality(Q) <= Cardinality(P)
  BY <1>3, FS_Subset
<1>5. Cardinality(P) <= Cardinality(Referrals!Referred(v))
  BY <1>2, FS_Subset
<1> QED BY <1>1, <1>4, <1>5 DEF PaidFor, ReferralsInv, RefereeInv

\* A step that pays no bonus and refers nobody, and leaves no referral more to pay.
LEMMA ReferrerStays ==
    ASSUME ReferralsInv, s7' = s7,
           \A u \in Member : /\ s9'[u]["referral_bonus"] = s9[u]["referral_bonus"]
                             /\ (Owing(u)' => Owing(u)) /\ (Earned(u)' => Earned(u))
    PROVE  ReferrerInv'
<1> SUFFICES ASSUME NEW v \in Member PROVE \E P \in SUBSET Member : PaidFor(v, P)'
  BY DEF ReferrerInv
<1>1. PICK P \in SUBSET Member : PaidFor(v, P)
  BY DEF ReferralsInv, ReferrerInv
<1>2. Referrals!Referred(v)' = Referrals!Referred(v) /\ Referrals!Referred(v) \subseteq Member
  BY DEF Referrals!Referred
<1>3. PaidFor(v, P)'
  BY <1>1, <1>2 DEF PaidFor
<1> QED BY <1>3

\* A new referral is owed, and nothing of it was paid.
LEMMA InsertKeeps ==
    ASSUME ReferralsInv, NEW r \in Application, s8[r].pc = "insert",
           Referrals!Insertable(s8[r].referee),
           s7' = [s7 EXCEPT ![s8[r].referee] = s8[r].referrer],
           s8' = [s8 EXCEPT ![r].pc = "referrer"], s9' = s9, s2' = s2
    PROVE  ReferralsInv'
<1> DEFINE n == s8[r].referee
<1>1. n \in Member /\ s7[n] = "nobody" /\ s8[r].referrer \in Member
  BY DEF ReferralsInv, AppliesTyped, Referrals!Insertable
<1>2. s9[n]["referee_bonus"] = 0
  BY <1>1 DEF ReferralsInv, AppliesTyped, RefereeInv, Referrals!Reason
<1>3. \A q \in Application : Inserted(q) => s8[q].referee # n
  BY <1>1, PartsAssumption DEF ReferralsInv, InsertedInv, AppliesTyped, AccountsAssumption, Inserted
<1>4. /\ s8'[r].pc = "referrer" /\ s8'[r].referee = n /\ s8'[r].referrer = s8[r].referrer
      /\ \A q \in Application \ {r} : s8'[q] = s8[q]
      /\ DOMAIN s8' = Application /\ DOMAIN s8'[r] = {"pc", "referee", "referrer"}
  BY DEF ReferralsInv, AppliesTyped
<1>5. AppliesTyped'
  BY <1>1, <1>4 DEF ReferralsInv, AppliesTyped
<1>6. /\ s7'[n] = s8[r].referrer /\ \A u \in Member \ {n} : s7'[u] = s7[u]
  BY <1>1 DEF ReferralsInv, AppliesTyped
<1>7. InsertedInv'
  BY <1>1, <1>2, <1>3, <1>4, <1>6 DEF ReferralsInv, AppliesTyped, InsertedInv, Inserted
<1>8. RefereeInv'
  BY <1>1, <1>2, <1>6, PartsAssumption DEF ReferralsInv, RefereeInv, AppliesTyped,
     Referrals!Reason, AccountsAssumption
<1>9. ReferrerInv'
  <2> SUFFICES ASSUME NEW v \in Member PROVE \E P \in SUBSET Member : PaidFor(v, P)'
    BY DEF ReferrerInv
  <2>1. PICK P \in SUBSET Member : PaidFor(v, P)
    BY DEF ReferralsInv, ReferrerInv
  <2>2. n \notin P /\ n \notin Referrals!Referred(v)
    BY <1>1, <2>1, PartsAssumption DEF PaidFor, Referrals!Referred, AccountsAssumption
  <2>3. Referrals!Referred(v) \subseteq Referrals!Referred(v)'
    BY <1>6, <2>2 DEF Referrals!Referred
  <2>4. \A u \in Referrals!Referred(v)' : u = n \/ u \in Referrals!Referred(v)
    BY <1>6 DEF Referrals!Referred
  <2>5. \A u \in Member \ {n} : (Earned(u)' => Earned(u)) /\ (Owing(u)' => Owing(u))
    BY <1>4 DEF Earned, Owing
  <2>6. ~Earned(n)'
    BY <1>2, <1>3, <1>4 DEF Earned, Inserted
  <2>7. PaidFor(v, P)'
    BY <2>1, <2>2, <2>3, <2>4, <2>5, <2>6 DEF PaidFor, Referrals!Referred
  <2> QED BY <2>7
<1> QED BY <1>5, <1>7, <1>8, <1>9 DEF ReferralsInv

\* An application that has no referral yet, or is past its bonuses, or gives up.
LEMMA RestKeeps ==
    ASSUME ReferralsInv, NEW r \in Application, NEW q, s8' = [s8 EXCEPT ![r] = q],
           DOMAIN q = {"pc", "referee", "referrer"},
           q.pc \in {"off", "insert"}, q.pc # "off" => q.referee \in Member /\ q.referrer \in Member,
           UNCHANGED <<s2, s7>>, s9' \in [Member -> [Referrals!Reason -> Nat]],
           \A u \in Member : /\ s9'[u]["referral_bonus"] = s9[u]["referral_bonus"]
                             /\ s9'[u]["referee_bonus"] = s9[u]["referee_bonus"]
    PROVE  ReferralsInv'
<1>1. /\ s8'[r] = q /\ DOMAIN s8' = Application /\ \A p \in Application \ {r} : s8'[p] = s8[p]
  BY DEF ReferralsInv, AppliesTyped
<1>2. AppliesTyped'
  BY <1>1 DEF ReferralsInv, AppliesTyped
<1>3. InsertedInv'
  <2>1. \A p \in Application : Inserted(p)' => p # r /\ Inserted(p)
    BY <1>1 DEF Inserted
  <2>2. \A p \in Application : Inserted(p) => s8[p].referee \in Member
    BY DEF ReferralsInv, AppliesTyped, Inserted
  <2>3. \A p \in Application : Inserted(p)' => s7'[s8'[p].referee] = s8'[p].referrer
    BY <1>1, <2>1 DEF ReferralsInv, InsertedInv
  <2>4. \A p, k \in Application :
          Inserted(p)' /\ Inserted(k)' /\ s8'[p].referee = s8'[k].referee => p = k
    BY <1>1, <2>1 DEF ReferralsInv, InsertedInv
  <2>5. \A p \in Application :
          s8'[p].pc \in {"referrer", "referee"} => s9'[s8'[p].referee]["referee_bonus"] = 0
    BY <1>1, <2>1, <2>2 DEF ReferralsInv, InsertedInv, Inserted
  <2> QED BY <2>3, <2>4, <2>5 DEF InsertedInv
<1>4. RefereeInv'
  BY DEF ReferralsInv, RefereeInv
<1>5. ReferrerInv'
  BY <1>1, ReferrerStays DEF Earned, Owing
<1> QED BY <1>2, <1>3, <1>4, <1>5 DEF ReferralsInv

\* The referrer is paid: the referee is one more he was paid for.
LEMMA ReferrerPaidKeeps ==
    ASSUME ReferralsInv, NEW r \in Application, s8[r].pc = "referrer",
           s9' = Referrals!Paid(s8[r].referrer, "referral_bonus"),
           s8' = [s8 EXCEPT ![r].pc = "referee"], UNCHANGED <<s2, s7>>
    PROVE  ReferralsInv'
<1> DEFINE n == s8[r].referee
           w == s8[r].referrer
<1>1. n \in Member /\ w \in Member /\ s7[n] = w /\ Inserted(r)
  BY DEF ReferralsInv, AppliesTyped, InsertedInv, Inserted
<1>2. /\ s9' \in [Member -> [Referrals!Reason -> Nat]]
      /\ s9'[w]["referral_bonus"] = s9[w]["referral_bonus"] + 1
      /\ \A u \in Member \ {w} : s9'[u]["referral_bonus"] = s9[u]["referral_bonus"]
      /\ \A u \in Member : s9'[u]["referee_bonus"] = s9[u]["referee_bonus"]
  BY <1>1 DEF ReferralsInv, AppliesTyped, Referrals!Paid, Referrals!Reason
<1>3. /\ s8'[r].pc = "referee" /\ s8'[r].referee = n /\ s8'[r].referrer = w
      /\ \A q \in Application \ {r} : s8'[q] = s8[q]
      /\ DOMAIN s8' = Application /\ DOMAIN s8'[r] = {"pc", "referee", "referrer"}
  BY DEF ReferralsInv, AppliesTyped
<1>4. AppliesTyped'
  BY <1>1, <1>2, <1>3 DEF ReferralsInv, AppliesTyped
<1>5. InsertedInv'
  <2>1. \A p \in Application : /\ Inserted(p)' <=> Inserted(p)
                               /\ s8'[p].referee = s8[p].referee
                               /\ s8'[p].referrer = s8[p].referrer
                               /\ Inserted(p) => s8[p].referee \in Member
    BY <1>1, <1>3 DEF Inserted, ReferralsInv, AppliesTyped
  <2>2. \A p \in Application :
          s8'[p].pc \in {"referrer", "referee"} => s8[p].pc \in {"referrer", "referee"}
    BY <1>3
  <2>3. \A p \in Application :
          s8'[p].pc \in {"referrer", "referee"} => s9'[s8'[p].referee]["referee_bonus"] = 0
    BY <1>2, <2>1, <2>2 DEF ReferralsInv, InsertedInv, Inserted
  <2> QED BY <2>1, <2>3 DEF ReferralsInv, InsertedInv
<1>6. RefereeInv'
  BY <1>2 DEF ReferralsInv, RefereeInv
<1>7. /\ \A u \in Member \ {n} : (Earned(u)' => Earned(u)) /\ (Owing(u)' => Owing(u))
      /\ Owing(n) /\ ~Owing(n)'
  <2>1. \A u \in Member \ {n} : (Earned(u)' => Earned(u)) /\ (Owing(u)' => Owing(u))
    BY <1>2, <1>3 DEF Earned, Owing
  <2>2. \A q \in Application \ {r} : Inserted(q) => s8[q].referee # n
    BY <1>1 DEF ReferralsInv, InsertedInv
  <2> QED BY <1>3, <2>1, <2>2 DEF Owing, Inserted
<1>8. ReferrerInv'
  <2> SUFFICES ASSUME NEW v \in Member PROVE \E P \in SUBSET Member : PaidFor(v, P)'
    BY DEF ReferrerInv
  <2>1. PICK P \in SUBSET Member : PaidFor(v, P)
    BY DEF ReferralsInv, ReferrerInv
  <2>2. Referrals!Referred(v)' = Referrals!Referred(v) /\ Referrals!Referred(v) \subseteq Member
    BY DEF Referrals!Referred
  <2>3. CASE v = w
    <3>1. n \in Referrals!Referred(v) /\ n \notin P
      BY <1>1, <1>7, <2>1, <2>3 DEF PaidFor, Referrals!Referred
    <3>2. IsFiniteSet(P)
      BY FS_Subset, PartsAssumption DEF AccountsAssumption
    <3>3. Cardinality(P \cup {n}) = Cardinality(P) + 1
      BY <3>1, <3>2, FS_AddElement
    <3>4. PaidFor(v, P \cup {n})'
      BY <1>2, <1>7, <2>1, <2>2, <2>3, <3>1, <3>3 DEF PaidFor
    <3> QED BY <1>1, <3>4
  <2>4. CASE v # w
    <3>1. n \notin Referrals!Referred(v)
      BY <1>1, <2>4 DEF Referrals!Referred
    <3>2. PaidFor(v, P)'
      BY <1>2, <1>7, <2>1, <2>2, <2>4, <3>1 DEF PaidFor
    <3> QED BY <3>2
  <2> QED BY <2>3, <2>4
<1> QED BY <1>4, <1>5, <1>6, <1>8 DEF ReferralsInv

\* The referee is paid, who was to be next.
LEMMA RefereePaidKeeps ==
    ASSUME ReferralsInv, NEW r \in Application, s8[r].pc = "referee",
           s9' = Referrals!Paid(s8[r].referee, "referee_bonus"),
           s8' = [s8 EXCEPT ![r].pc = "count"], UNCHANGED <<s2, s7>>
    PROVE  ReferralsInv'
<1> DEFINE n == s8[r].referee
<1>1. /\ n \in Member /\ s7[n] = s8[r].referrer /\ s7[n] \in Member /\ Inserted(r)
      /\ s9[n]["referee_bonus"] = 0
  BY DEF ReferralsInv, AppliesTyped, InsertedInv, Inserted
<1>2. /\ s9' \in [Member -> [Referrals!Reason -> Nat]]
      /\ s9'[n]["referee_bonus"] = 1
      /\ \A u \in Member \ {n} : s9'[u]["referee_bonus"] = s9[u]["referee_bonus"]
      /\ \A u \in Member : s9'[u]["referral_bonus"] = s9[u]["referral_bonus"]
  BY <1>1 DEF ReferralsInv, AppliesTyped, Referrals!Paid, Referrals!Reason
<1>3. /\ s8'[r].pc = "count" /\ s8'[r].referee = n /\ s8'[r].referrer = s8[r].referrer
      /\ \A q \in Application \ {r} : s8'[q] = s8[q]
      /\ DOMAIN s8' = Application /\ DOMAIN s8'[r] = {"pc", "referee", "referrer"}
  BY DEF ReferralsInv, AppliesTyped
<1>4. AppliesTyped'
  BY <1>1, <1>2, <1>3 DEF ReferralsInv, AppliesTyped
<1>5. InsertedInv'
  <2>1. \A p \in Application : /\ Inserted(p)' <=> Inserted(p)
                               /\ s8'[p].referee = s8[p].referee
                               /\ s8'[p].referrer = s8[p].referrer
                               /\ Inserted(p) => s8[p].referee \in Member
    BY <1>1, <1>3 DEF Inserted, ReferralsInv, AppliesTyped
  <2>2. \A p \in Application : s8'[p].pc \in {"referrer", "referee"} =>
          p # r /\ s8[p].pc \in {"referrer", "referee"} /\ Inserted(p) /\ s8[p].referee # n
    BY <1>1, <1>3 DEF ReferralsInv, InsertedInv, Inserted
  <2>3. \A p \in Application :
          s8'[p].pc \in {"referrer", "referee"} => s9'[s8'[p].referee]["referee_bonus"] = 0
    BY <1>2, <2>1, <2>2 DEF ReferralsInv, InsertedInv
  <2> QED BY <2>1, <2>3 DEF ReferralsInv, InsertedInv
<1>6. RefereeInv'
  BY <1>1, <1>2, PartsAssumption DEF ReferralsInv, RefereeInv, AccountsAssumption
<1>7. ReferrerInv'
  <2>1. \A u \in Member : (Earned(u)' => Earned(u)) /\ (Owing(u)' => Owing(u))
    BY <1>2, <1>3 DEF Earned, Owing
  <2> QED BY <1>2, <2>1, ReferrerStays
<1> QED BY <1>4, <1>5, <1>6, <1>7 DEF ReferralsInv

LEMMA ReferralsNext ==
    ASSUME ReferralsInv, [Referrals!Next]_<<s1, s2, s3, s4, s5, s6, s7, s8, s9>>
    PROVE  ReferralsInv'
<1>d. DOMAIN Referrals!Done = {"pc", "referee", "referrer"} /\ Referrals!Done.pc = "off"
  BY DEF Referrals!Done
<1>t. s9 \in [Member -> [Referrals!Reason -> Nat]]
  BY DEF ReferralsInv, AppliesTyped
<1>1. ASSUME UNCHANGED <<s7, s8, s9>>, s2' \subseteq Member PROVE ReferralsInv'
  <2>1. AppliesTyped' /\ InsertedInv' /\ RefereeInv'
    BY <1>1 DEF ReferralsInv, AppliesTyped, InsertedInv, Inserted, RefereeInv
  <2>2. ReferrerInv'
    BY <1>1, ReferrerStays DEF Earned, Owing
  <2> QED BY <2>1, <2>2 DEF ReferralsInv
<1>2. ASSUME NEW r \in Application, NEW u \in Member, NEW v \in Member,
             Referrals!ApplyCheck(r, u, v)
      PROVE  ReferralsInv'
  <2> DEFINE q == [pc |-> "insert", referee |-> u, referrer |-> v]
  <2>1. s8' = [s8 EXCEPT ![r] = q] /\ UNCHANGED <<s2, s7, s9>>
    BY <1>2 DEF Referrals!ApplyCheck, Referrals!accounts
  <2>2. DOMAIN q = {"pc", "referee", "referrer"} /\ q.pc = "insert" /\ q.referee = u /\ q.referrer = v
    OBVIOUS
  <2> HIDE DEF q
  <2> QED BY <1>t, <2>1, <2>2, RestKeeps
<1>3. ASSUME NEW r \in Application, s8' = [s8 EXCEPT ![r] = Referrals!Done],
             UNCHANGED <<s2, s7, s9>>
      PROVE  ReferralsInv'
  BY <1>d, <1>t, <1>3, RestKeeps
<1>4. ASSUME NEW r \in Application, Referrals!ApplyInsert(r) PROVE ReferralsInv'
  BY <1>3, <1>4, InsertKeeps DEF Referrals!ApplyInsert, Referrals!accounts
<1>5. ASSUME NEW r \in Application, Referrals!ApplyCredit(r) PROVE ReferralsInv'
  BY <1>3, <1>5, ReferrerPaidKeeps, RefereePaidKeeps DEF Referrals!ApplyCredit, Referrals!accounts
<1>6. ASSUME NEW r \in Application, Referrals!ApplyMilestone(r) PROVE ReferralsInv'
  <2>1. /\ s8[r].pc = "count" /\ s8' = [s8 EXCEPT ![r] = Referrals!Done] /\ UNCHANGED <<s2, s7>>
        /\ s9' = s9 \/ s9' = Referrals!Paid(s8[r].referrer, "milestone")
    BY <1>6 DEF Referrals!ApplyMilestone, Referrals!accounts
  <2>2. CASE s9' = Referrals!Paid(s8[r].referrer, "milestone")
    <3>1. s8[r].referrer \in Member
      BY <2>1 DEF ReferralsInv, AppliesTyped
    <3>2. /\ s9' \in [Member -> [Referrals!Reason -> Nat]]
          /\ \A u \in Member : /\ s9'[u]["referral_bonus"] = s9[u]["referral_bonus"]
                                /\ s9'[u]["referee_bonus"] = s9[u]["referee_bonus"]
      BY <1>t, <2>2, <3>1 DEF Referrals!Paid, Referrals!Reason
    <3> QED BY <1>d, <2>1, <3>2, RestKeeps
  <2> QED BY <1>3, <2>1, <2>2
<1>7. ASSUME NEW u \in Member, Referrals!Register(u) PROVE ReferralsInv'
  <2>1. s2' \subseteq Member
    BY <1>7 DEF Referrals!Register, ReferralsInv, AppliesTyped
  <2> QED BY <1>1, <1>7, <2>1 DEF Referrals!Register, Referrals!referring
<1>8. ASSUME NEW u \in Member, NEW c \in Code, Referrals!StartLink(u, c) PROVE ReferralsInv'
  BY <1>1, <1>8 DEF Referrals!StartLink, Referrals!referring, Referrals!accounts, ReferralsInv,
     AppliesTyped
<1>9. ASSUME NEW c \in Code, Referrals!CodeExpires(c) PROVE ReferralsInv'
  BY <1>1, <1>9 DEF Referrals!CodeExpires, Referrals!referring, Referrals!accounts, ReferralsInv,
     AppliesTyped
<1>10. CASE UNCHANGED <<s1, s2, s3, s4, s5, s6, s7, s8, s9>>
  BY <1>1, <1>10 DEF ReferralsInv, AppliesTyped
<1> QED BY <1>2, <1>4, <1>5, <1>6, <1>7, <1>8, <1>9, <1>10 DEF Referrals!Next

\* A code links once and every bonus has its referral, for any users, codes and
\* concurrent requests.
THEOREM AccountsAreSound == Spec => []AccountsSound
<1> DEFINE J == (part = "links" => LinksInv) /\ (part = "referrals" => ReferralsInv)
<1>1. Init => J
  BY InitOf, LinksInit, ReferralsInit
<1>2. J /\ [Next]_vars => J'
  BY StepOf, LinksNext, ReferralsNext
<1>3. J => AccountsSound
  BY ReferralsHold DEF AccountsSound, LinksInv, CodesInv, Links!LinkOnce
<1> QED BY <1>1, <1>2, <1>3, PTL DEF Spec

-----------------------------------------------------------------------------
\* Fees are harvested once and backed by what the chain paid, a mint is covered on both
\* legs, an exit is booked once and to its end, and a fee is claimed under terms that
\* were in force: for any amounts, terms, lifetimes and numbers of mints, restarts and
\* attempts.
THEOREM FundsAreAccounted == Spec => []FundsAccounted
<1> DEFINE J == /\ part = "terms" => TariffInv
                /\ part = "entry" => EntryInv
                /\ part = "harvest" => FeesInv
                /\ part = "books" => BooksInv
<1>1. Init => J
  BY InitOf, TariffInit, EntryInit, FeesInit, BooksInit
<1>2. J /\ [Next]_vars => J'
  BY StepOf, TariffNext, EntryNext, FeesNext, BooksNext
<1>3. J => FundsAccounted
  BY TariffClaims, EntryClaim, FeesClaims DEF FundsAccounted, BooksInv
<1> QED BY <1>1, <1>2, <1>3, PTL DEF Spec

-----------------------------------------------------------------------------
\* A report is counted once and kept until it is, an alert is sent again only after a
\* claim that was interrupted; the limits of both sides hold and what is told stored is
\* stored; a heartbeat is backed by its snapshot and fades with its report: for any
\* reports, batches, flushes, submitters, limits and lifetimes.
THEOREM AllIsDeliveredOnce == Spec => []DeliveredOnce
<1> DEFINE J == /\ part = "reports" => ErrorsInv
                /\ part = "alerts" => AlertsInv
                /\ part = "feedback" => RemarksInv
                /\ part = "limiter" => LimiterInv
                /\ part = "status" => StatusInv
<1>1. Init => J
  BY InitOf, ErrorsInit, AlertsInit, RemarksInit, LimiterInit, StatusInit
<1>2. J /\ [Next]_vars => J'
  BY StepOf, ErrorsNext, AlertsNext, RemarksNext, LimiterNext, StatusNext
<1>3. J => DeliveredOnce
  BY ErrorsClaims, AlertsClaims, RemarksClaims, LimiterClaims, StatusClaims DEF DeliveredOnce
<1> QED BY <1>1, <1>2, <1>3, PTL DEF Spec

-----------------------------------------------------------------------------
\* A candidate is proven, scanned while it is held and cools down once it has left; what
\* the gates enter the exit chain takes out on the same reading only for what no gate looks
\* at or a setting looser than it, and what they keep for later had passed them; an entry
\* fits every cap it is held to and is above its floor, and no book has a position too
\* many: for any pools, listings, metrics, settings and numbers of cycles.
THEOREM EntriesAreSound == Spec => []EntriesSound
<1> DEFINE J == /\ part = "candidates" => CandidatesInv
                /\ part = "gates" => GatesInv
                /\ part = "sizing" => SizingInv(FALSE, SizingCycles)
                /\ part = "paper" => SizingInv(TRUE, PaperCycles)
<1>1. Init => J
  BY InitOf, CandidatesInit, GatesInit, SizesInit
<1>2. J /\ [Next]_vars => J'
  BY StepOf, CandidatesNext, GatesNext, SizesNext
<1>3. J => EntriesSound
  BY CandidatesClaims, GatesClaims DEF EntriesSound, SizingInv
<1> QED BY <1>1, <1>2, <1>3, PTL DEF Spec

=============================================================================
