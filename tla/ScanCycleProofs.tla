-------------------------- MODULE ScanCycleProofs --------------------------
(***************************************************************************)
(* Proofs about ScanCycle, for every number of pools, positions, proposals *)
(* and cycles.  The queue of proposals comes first: what its operators     *)
(* keep, as lemmas about their values.  Then the shape of the decisions    *)
(* that pass through the tail, what the tail knows of its proposal, and    *)
(* the types of the variables.  Last what it does with capital: how many   *)
(* positions a pool gets, and what the wallet still counts when a live     *)
(* entry is sent.                                                          *)
(***************************************************************************)
EXTENDS ScanCycle, FiniteSetTheorems, SequenceTheorems, TLAPS

-----------------------------------------------------------------------------
(* The queue                                                               *)

IsProposal(x) ==
    /\ x = [id |-> x.id, pool |-> x.pool, act |-> x.act, approved |-> x.approved,
            live |-> x.live]
    /\ x.pool \in Pool /\ x.act \in Act
    /\ x.approved \in BOOLEAN /\ x.live \in BOOLEAN

\* A queue when ids up to n - 1 were given out and a human approved those in e.
WellFormed(q, n, e) ==
    /\ IsFiniteSet(q)
    /\ Cardinality(q) <= MaxQueue
    /\ \A x \in q : IsProposal(x) /\ x.id \in 1 .. n - 1
    /\ \A x, y \in q : x.pool = y.pool => x = y
    /\ \A x, y \in q : x.id = y.id => x = y
    /\ \A x \in q : x.approved => x.id \in e

\* What only filters the queue keeps it well formed.
LEMMA FilteredQueue ==
    ASSUME NEW q, NEW n \in Nat, NEW e, WellFormed(q, n, e), NEW r \in SUBSET q
    PROVE  WellFormed(r, n, e)
<1>1. IsFiniteSet(r) /\ Cardinality(r) <= Cardinality(q)
  BY FS_Subset DEF WellFormed
<1>2. Cardinality(r) \in Nat /\ Cardinality(q) \in Nat /\ MaxQueue \in Nat
  BY <1>1, FS_CardinalityType, ScanCycleAssumption DEF WellFormed
<1>3. Cardinality(r) <= MaxQueue
  BY <1>1, <1>2 DEF WellFormed
<1> QED  BY <1>1, <1>3 DEF WellFormed

LEMMA Filters ==
    ASSUME NEW q, NEW i
    PROVE  /\ Prune(q) \subseteq q
           /\ Reject(q, i) \subseteq q
           /\ Dequeue(q, i) \subseteq q
BY DEF Prune, Reject, Dequeue

\* A received proposal leaves one of its pool, and room for itself.
LEMMA EnqueuedQueue ==
    ASSUME NEW q, NEW n \in Nat \ {0}, NEW e, WellFormed(q, n, e),
           NEW x, IsProposal(x), x.id = n, x.approved = FALSE
    PROVE  WellFormed(Enqueue(q, x), n + 1, e)
<1>1. ASSUME NEW r, WellFormed(r, n, e)
      PROVE  WellFormed(r, n + 1, e)
  <2>1. 1 .. n - 1 \subseteq 1 .. (n + 1) - 1
    OBVIOUS
  <2> QED  BY <1>1, <2>1 DEF WellFormed
<1>2. WellFormed(Prune(q), n, e)
  BY FilteredQueue, Filters
<1>3. WellFormed(Remaining(q, x), n, e)
  BY FilteredQueue DEF Remaining, Prune
<1>4. CASE ApprovedExists(q, x) \/ Cardinality(Remaining(q, x)) >= MaxQueue
  BY <1>1, <1>2, <1>4 DEF Enqueue
<1>5. CASE ~ (ApprovedExists(q, x) \/ Cardinality(Remaining(q, x)) >= MaxQueue)
  <2> DEFINE r == Remaining(q, x)
  <2>1. Enqueue(q, x) = r \cup {x}
    BY <1>5 DEF Enqueue
  <2>2. \A y \in r : y.pool # x.pool
    BY <1>5 DEF ApprovedExists, SamePool, Remaining
  <2> HIDE DEF r
  <2>3. IsFiniteSet(r) /\ Cardinality(r) \in Nat /\ MaxQueue \in Nat
    BY <1>3, FS_CardinalityType, ScanCycleAssumption DEF WellFormed, r
  <2>4. Cardinality(r) < MaxQueue
    BY <1>5, <2>3 DEF r
  <2>5. /\ IsFiniteSet(r \cup {x})
        /\ \/ Cardinality(r \cup {x}) = Cardinality(r)
           \/ Cardinality(r \cup {x}) = Cardinality(r) + 1
    BY <2>3, FS_AddElement
  <2>6. Cardinality(r \cup {x}) <= MaxQueue
    BY <2>3, <2>4, <2>5
  <2>7. WellFormed(r, n, e)
    BY <1>3 DEF r
  <2>8. \A y \in r \cup {x} : IsProposal(y) /\ y.id \in 1 .. (n + 1) - 1
    BY <2>7 DEF WellFormed
  <2>9. \A y, z \in r \cup {x} : y.pool = z.pool => y = z
    BY <2>2, <2>7 DEF WellFormed
  <2>10. \A y \in r : y.id # x.id
    BY <2>7 DEF WellFormed
  <2>11. \A y, z \in r \cup {x} : y.id = z.id => y = z
    BY <2>7, <2>10 DEF WellFormed
  <2>12. \A y \in r \cup {x} : y.approved => y.id \in e
    BY <2>7 DEF WellFormed
  <2> QED  BY <2>1, <2>5, <2>6, <2>8, <2>9, <2>11, <2>12 DEF WellFormed
<1> QED  BY <1>4, <1>5

\* y is a proposal with the id and the pool of x, approved only if x was or
\* its id is in d.
Rewritten(x, y, d) ==
    /\ IsProposal(y)
    /\ y.id = x.id /\ y.pool = x.pool
    /\ y.approved => x.approved \/ x.id \in d

\* f rewrites the proposals of q to those of r.
Rewrites(f, q, r, d) ==
    /\ f \in [q -> r]
    /\ \A y \in r : \E x \in q : y = f[x]
    /\ \A x \in q : Rewritten(x, f[x], d)

\* A replacement adds none.
LEMMA RewrittenQueue ==
    ASSUME NEW q, NEW n \in Nat, NEW e, NEW d, WellFormed(q, n, e), e \subseteq d,
           NEW r, NEW f, Rewrites(f, q, r, d)
    PROVE  WellFormed(r, n, d)
<1>1. f \in Surjection(q, r)
  BY DEF Surjection, Rewrites
<1>2. IsFiniteSet(r) /\ Cardinality(r) <= Cardinality(q)
  BY <1>1, FS_Surjection DEF WellFormed
<1>3. Cardinality(r) \in Nat /\ Cardinality(q) \in Nat /\ MaxQueue \in Nat
  BY <1>2, FS_CardinalityType, ScanCycleAssumption DEF WellFormed
<1>4. Cardinality(r) <= MaxQueue
  BY <1>2, <1>3 DEF WellFormed
<1>5. \A y \in r : IsProposal(y) /\ y.id \in 1 .. n - 1
  BY DEF WellFormed, Rewrites, Rewritten
<1>6. \A y \in r : y.approved => y.id \in d
  BY DEF WellFormed, Rewrites, Rewritten
<1>7. \A y, z \in r : y.pool = z.pool => y = z
  BY DEF WellFormed, Rewrites, Rewritten
<1>8. \A y, z \in r : y.id = z.id => y = z
  BY DEF WellFormed, Rewrites, Rewritten
<1> QED  BY <1>2, <1>4, <1>5, <1>6, <1>7, <1>8 DEF WellFormed

\* An approval marks one proposal and prunes.
LEMMA ApprovedQueue ==
    ASSUME NEW q, NEW n \in Nat, NEW e, NEW i, WellFormed(q, n, e)
    PROVE  WellFormed(Approve(q, i), n, e \cup {i})
<1> DEFINE g(x) == IF x.id = i THEN [x EXCEPT !.approved = TRUE] ELSE x
<1>1. \A x \in q : Rewritten(x, g(x), e \cup {i})
  <2> SUFFICES ASSUME NEW x \in q
               PROVE  Rewritten(x, g(x), e \cup {i})
    OBVIOUS
  <2>1. IsProposal(x) /\ (x.approved => x.id \in e)
    BY DEF WellFormed
  <2>2. CASE x.id = i
    <3>1. g(x) = [id |-> x.id, pool |-> x.pool, act |-> x.act,
                    approved |-> TRUE, live |-> x.live]
      BY <2>1, <2>2 DEF IsProposal
    <3> QED  BY <2>1, <2>2, <3>1 DEF Rewritten, IsProposal
  <2>3. CASE ~ (x.id = i)
    BY <2>1, <2>3 DEF Rewritten
  <2> QED  BY <2>2, <2>3
<1>2. PICK r : r = {g(x) : x \in q}
  OBVIOUS
<1>3. PICK f : f = [x \in q |-> g(x)]
  OBVIOUS
<1>4. Approve(q, i) \subseteq r
  BY <1>2 DEF Approve, Prune
<1> HIDE DEF g
<1>5. Rewrites(f, q, r, e \cup {i})
  <2>1. f \in [q -> r]
    BY <1>2, <1>3
  <2>2. \A y \in r : \E x \in q : y = f[x]
    BY <1>2, <1>3
  <2>3. \A x \in q : f[x] = g(x)
    BY <1>3
  <2>4. \A x \in q : Rewritten(x, f[x], e \cup {i})
    BY <1>1, <2>3
  <2> QED  BY <2>1, <2>2, <2>4 DEF Rewrites
<1>6. e \subseteq e \cup {i}
  OBVIOUS
<1>7. WellFormed(r, n, e \cup {i})
  BY <1>5, <1>6, RewrittenQueue
<1> QED  BY <1>4, <1>7, FilteredQueue

\* A proposal that expires stays what it was.
LEMMA ExpiredQueue ==
    ASSUME NEW q, NEW n \in Nat, NEW e, WellFormed(q, n, e), NEW x \in q
    PROVE  WellFormed((q \ {x}) \cup {[x EXCEPT !.live = FALSE]}, n, e)
<1> DEFINE g(y) == IF y = x THEN [x EXCEPT !.live = FALSE] ELSE y
<1>1. \A y \in q : Rewritten(y, g(y), e)
  <2> SUFFICES ASSUME NEW y \in q
               PROVE  Rewritten(y, g(y), e)
    OBVIOUS
  <2>1. IsProposal(y) /\ (y.approved => y.id \in e)
    BY DEF WellFormed
  <2>2. CASE y = x
    <3>1. g(y) = [id |-> y.id, pool |-> y.pool, act |-> y.act,
                    approved |-> y.approved, live |-> FALSE]
      BY <2>1, <2>2 DEF IsProposal
    <3> QED  BY <2>1, <2>2, <3>1 DEF Rewritten, IsProposal
  <2>3. CASE ~ (y = x)
    BY <2>1, <2>3 DEF Rewritten
  <2> QED  BY <2>2, <2>3
<1>2. PICK r : r = (q \ {x}) \cup {[x EXCEPT !.live = FALSE]}
  OBVIOUS
<1>3. PICK f : f = [y \in q |-> g(y)]
  OBVIOUS
<1>4. r = {g(y) : y \in q}
  BY <1>2
<1> HIDE DEF g
<1>5. Rewrites(f, q, r, e)
  <2>1. f \in [q -> r]
    BY <1>3, <1>4
  <2>2. \A z \in r : \E y \in q : z = f[y]
    BY <1>3, <1>4
  <2>3. \A y \in q : f[y] = g(y)
    BY <1>3
  <2>4. \A y \in q : Rewritten(y, f[y], e)
    BY <1>1, <2>3
  <2> QED  BY <2>1, <2>2, <2>4 DEF Rewrites
<1>6. WellFormed(r, n, e)
  BY <1>5, RewrittenQueue
<1> QED  BY <1>2, <1>6

\* The newest usable proposal of a pool is the only one.
LEMMA FoundPending ==
    ASSUME NEW q, NEW n \in Nat, NEW e, WellFormed(q, n, e), NEW p, NEW s,
           Usable(q, p, s) # {}
    PROVE  FindPending(q, p, s) \in Usable(q, p, s)
<1>1. PICK x \in Usable(q, p, s) : TRUE
  OBVIOUS
<1>2. \A y \in Usable(q, p, s) : y = x /\ y.id \in Nat
  BY DEF Usable, SamePool, Prune, WellFormed
<1>3. \A y \in Usable(q, p, s) : y.id <= x.id
  BY <1>2
<1> QED  BY <1>1, <1>3 DEF FindPending

-----------------------------------------------------------------------------
(* The queue in the specification                                          *)

QueueInv ==
    /\ nextId \in Nat \ {0}
    /\ WellFormed(queue, nextId, endorsed)

LEMMA QueueInit == Init => QueueInv
<1>1. IsFiniteSet({}) /\ Cardinality({}) = 0
  BY FS_EmptySet
<1>2. MaxQueue \in Nat
  BY ScanCycleAssumption
<1>3. WellFormed({}, 1, {})
  BY <1>1, <1>2 DEF WellFormed
<1>4. Init => queue = {} /\ nextId = 1 /\ endorsed = {}
  BY DEF Init
<1> QED  BY <1>3, <1>4 DEF QueueInv

\* The engine gives out no id and endorses nothing: it only filters.
LEMMA EngineFilters ==
    ASSUME Engine
    PROVE  queue' \subseteq queue /\ nextId' = nextId /\ endorsed' = endorsed
<1> USE DEF proposals, Prune, Reject, Dequeue
<1>1. CASE StartCycle
  BY <1>1 DEF StartCycle
<1>2. ASSUME NEW p \in Pool, Evaluate(p)
      PROVE  queue' \subseteq queue /\ nextId' = nextId /\ endorsed' = endorsed
  BY <1>2 DEF Evaluate
<1>3. ASSUME NEW p \in Pool, EvaluateFails(p)
      PROVE  queue' \subseteq queue /\ nextId' = nextId /\ endorsed' = endorsed
  BY <1>3 DEF EvaluateFails
<1>4. CASE PoolsDone
  BY <1>4 DEF PoolsDone
<1>5. CASE Overlay
  <2>1. ASSUME NEW r, NEW a, NEW id, Accepts(r, a, id) \/ Refuses(r, id)
        PROVE  queue' \subseteq queue
    BY <2>1 DEF Accepts, Refuses
  <2> QED  BY <1>5, <2>1 DEF Overlay, NoOverlay, Veto, Asks
<1>6. CASE RiskDenies
  BY <1>6 DEF RiskDenies, DeniedProposal
<1>7. CASE Capacity
  BY <1>7 DEF Capacity
<1>8. CASE Pass
  BY <1>8 DEF Pass
<1>9. CASE Send
  BY <1>9 DEF Send, Dispatch
<1>10. CASE Finalize
  BY <1>10 DEF Finalize, Consume
<1>11. CASE RedeployEnds
  BY <1>11 DEF RedeployEnds
<1>12. ASSUME NEW p \in Pool, RedeploySkips(p)
       PROVE  queue' \subseteq queue /\ nextId' = nextId /\ endorsed' = endorsed
  BY <1>12 DEF RedeploySkips
<1>13. ASSUME NEW p \in Pool, RedeployOverlay(p)
       PROVE  queue' \subseteq queue /\ nextId' = nextId /\ endorsed' = endorsed
  <2>1. ASSUME NEW r, NEW a, NEW id, RedeployAccepts(r, a, id) \/ Refuses(r, id)
        PROVE  queue' \subseteq queue
    BY <2>1 DEF RedeployAccepts, Refuses
  <2> QED  BY <1>13, <2>1 DEF RedeployOverlay
<1>14. CASE RedeployDenied
  BY <1>14 DEF RedeployDenied, DeniedProposal
<1>15. CASE RedeployUnfunded
  BY <1>15 DEF RedeployUnfunded
<1>16. CASE RedeployPass
  BY <1>16 DEF RedeployPass
<1>17. CASE RedeploySend
  BY <1>17 DEF RedeploySend, Dispatch
<1>18. CASE RedeployFinalize
  BY <1>18 DEF RedeployFinalize, Consume
<1> QED
  BY <1>1, <1>2, <1>3, <1>4, <1>5, <1>6, <1>7, <1>8, <1>9, <1>10, <1>11, <1>12,
     <1>13, <1>14, <1>15, <1>16, <1>17, <1>18 DEF Engine

LEMMA QueueStep == QueueInv /\ [Next]_vars => QueueInv'
<1> SUFFICES ASSUME QueueInv, [Next]_vars
             PROVE  QueueInv'
  OBVIOUS
<1>1. nextId \in Nat \ {0} /\ WellFormed(queue, nextId, endorsed)
  BY DEF QueueInv
<1>2. ASSUME queue' \subseteq queue, nextId' = nextId, endorsed' = endorsed
      PROVE  QueueInv'
  BY <1>1, <1>2, FilteredQueue DEF QueueInv
<1>3. ASSUME NEW p \in Pool, NEW a \in Advice, Propose(p, a)
      PROVE  QueueInv'
  <2> DEFINE x == [id |-> nextId, pool |-> p, act |-> a, approved |-> FALSE,
                   live |-> TRUE]
  <2>1. IsProposal(x) /\ x.id = nextId /\ x.approved = FALSE
    BY ScanCycleAssumption DEF IsProposal
  <2>2. /\ queue' = Enqueue(queue, x)
        /\ nextId' = nextId + 1 /\ endorsed' = endorsed
    BY <1>3 DEF Propose
  <2> HIDE DEF x
  <2>3. WellFormed(Enqueue(queue, x), nextId + 1, endorsed)
    BY <1>1, <2>1, EnqueuedQueue
  <2> QED  BY <1>1, <2>2, <2>3 DEF QueueInv
<1>4. ASSUME NEW x \in queue, HumanApproves(x)
      PROVE  QueueInv'
  <2>1. /\ queue' = Approve(queue, x.id)
        /\ nextId' = nextId /\ endorsed' = endorsed \cup {x.id}
    BY <1>4 DEF HumanApproves
  <2>2. WellFormed(Approve(queue, x.id), nextId, endorsed \cup {x.id})
    BY <1>1, ApprovedQueue
  <2> QED  BY <1>1, <2>1, <2>2 DEF QueueInv
<1>5. ASSUME NEW x \in queue, Expires(x)
      PROVE  QueueInv'
  <2>1. /\ queue' = (queue \ {x}) \cup {[x EXCEPT !.live = FALSE]}
        /\ nextId' = nextId /\ endorsed' = endorsed
    BY <1>5 DEF Expires
  <2>2. WellFormed((queue \ {x}) \cup {[x EXCEPT !.live = FALSE]}, nextId, endorsed)
    BY <1>1, ExpiredQueue
  <2> QED  BY <1>1, <2>1, <2>2 DEF QueueInv
<1>6. ASSUME NEW p \in Pool, Elapses(p)
      PROVE  QueueInv'
  BY <1>2, <1>6 DEF Elapses, proposals
<1>7. CASE Restart
  BY <1>2, <1>7 DEF Restart
<1>8. CASE Engine
  BY <1>2, <1>8, EngineFilters
<1>9. CASE UNCHANGED vars
  BY <1>2, <1>9 DEF vars, proposals
<1> QED
  BY <1>3, <1>4, <1>5, <1>6, <1>7, <1>8, <1>9 DEF Next, Environment

LEMMA QueueInvariant == Spec => []QueueInv
BY QueueInit, QueueStep, PTL DEF Spec

\* The queue never holds two proposals of a pool, and never more than its
\* bound, whatever arrives, is approved, expires or is consumed in between.
THEOREM OnePerPool == Spec => []OneProposalPerPool
<1>1. QueueInv => OneProposalPerPool
  BY DEF QueueInv, WellFormed, OneProposalPerPool
<1> QED  BY <1>1, QueueInvariant, PTL

-----------------------------------------------------------------------------
(* The shape of decisions                                                  *)

IsDecision(d) == d = [act |-> d.act, pool |-> d.pool, pos |-> d.pos]

\* A sequence of decisions.
Decisions(s) == \E S : s \in Seq(S) /\ \A d \in S : IsDecision(d)

IsTaken(c) ==
    /\ c = [raw |-> c.raw, dec |-> c.dec, prop |-> c.prop, agent |-> c.agent,
            done |-> c.done, short |-> c.short]
    /\ c.done \in BOOLEAN
    /\ IsDecision(c.raw) /\ IsDecision(c.dec)

LEMMA ConcatSeq ==
    ASSUME NEW s, NEW t, Decisions(s), Decisions(t)
    PROVE  Decisions(s \o t)
<1>1. PICK S : s \in Seq(S) /\ \A d \in S : IsDecision(d)
  BY DEF Decisions
<1>2. PICK T : t \in Seq(T) /\ \A d \in T : IsDecision(d)
  BY DEF Decisions
<1>3. s \in Seq(S \cup T) /\ t \in Seq(S \cup T)
  BY <1>1, <1>2
<1>4. s \o t \in Seq(S \cup T)
  BY <1>3
<1> QED  BY <1>1, <1>2, <1>4 DEF Decisions

LEMMA HeadTail ==
    ASSUME NEW s, Decisions(s), s # <<>>
    PROVE  IsDecision(Head(s)) /\ Decisions(Tail(s))
<1>1. PICK S : s \in Seq(S) /\ \A d \in S : IsDecision(d)
  BY DEF Decisions
<1> QED  BY <1>1 DEF Decisions

LEMMA NoDecision == Decisions(<<>>)
<1>1. PICK S : S = {d \in {} : IsDecision(d)}
  OBVIOUS
<1>2. <<>> \in Seq(S) /\ \A d \in S : IsDecision(d)
  BY <1>1
<1> QED  BY <1>2 DEF Decisions

LEMMA OneDecision ==
    ASSUME NEW d, IsDecision(d)
    PROVE  Decisions(<<d>>)
<1>1. PICK S : S = {d}
  OBVIOUS
<1>2. <<d>> \in Seq(S) /\ \A c \in S : IsDecision(c)
  BY <1>1
<1> QED  BY <1>2 DEF Decisions

LEMMA InOrderSeq ==
    ASSUME NEW f, NEW p, NEW some, IsFiniteSet(some), NEW s \in Opened(some)
    PROVE  Decisions(InOrder(f, p, s))
<1> DEFINE n == Cardinality(some)
           e(i) == [act |-> f[s[i]], pool |-> p, pos |-> s[i]]
           S == {e(i) : i \in 1 .. n}
<1>1. n \in Nat
  BY FS_CardinalityType
<1>2. \A d \in S : IsDecision(d)
  BY DEF IsDecision
<1>3. InOrder(f, p, s) = [i \in 1 .. n |-> e(i)]
  BY DEF InOrder, Opened
<1> HIDE DEF n, e
<1>4. [i \in 1 .. n |-> e(i)] \in [1 .. n -> S]
  OBVIOUS
<1>5. [i \in 1 .. n |-> e(i)] \in Seq(S)
  BY <1>1, <1>4
<1> QED  BY <1>2, <1>3, <1>5 DEF Decisions

LEMMA FinitePositions ==
    ASSUME NEW p, IsFiniteSet(book)
    PROVE  IsFiniteSet(PositionsOf(p))
<1>1. PICK B : B = {y \in book : y.pool = p}
  OBVIOUS
<1>2. IsFiniteSet(B)
  BY <1>1, FS_Subset
<1>3. PICK f : f = [x \in B |-> x.id]
  OBVIOUS
<1>4. PositionsOf(p) = {x.id : x \in B}
  BY <1>1 DEF PositionsOf
<1>5. f \in Surjection(B, PositionsOf(p))
  BY <1>3, <1>4 DEF Surjection
<1> QED  BY <1>2, <1>5, FS_Surjection

\* What supervised mode and the stops make of a decision is a decision.
LEMMA JudgedDecisions ==
    ASSUME IsTaken(cur), NEW d \in Judged
    PROVE  IsDecision(d)
<1>1. IsDecision(SupervisedHold(cur))
  BY DEF SupervisedHold, IsTaken, IsDecision
<1> HIDE DEF SupervisedHold
<1> QED  BY <1>1 DEF Judged, Stops, IsDecision

-----------------------------------------------------------------------------
(* What the overlay puts in the tail                                       *)

ShapeInv ==
    /\ IsTaken(cur)
    /\ Decisions(raw)
    /\ pc \in {"tail", "gate", "send", "final"} => raw # <<>>
    /\ IsFiniteSet(book)
    /\ restarts \in Nat

\* No proposal, or one of the queue that the mode lets a decision use.
Backed(i, p) ==
    \/ i = NoId
    \/ \E x \in queue : /\ x.id = i /\ x.pool = p
                        /\ setting.agent = "supervised" => x.approved

LEMMA FoundIsBacked ==
    ASSUME QueueInv, NEW p,
           Usable(queue, p, setting.agent = "supervised") # {}
    PROVE  Backed(FindPending(queue, p, setting.agent = "supervised").id, p)
<1>1. FindPending(queue, p, setting.agent = "supervised")
          \in Usable(queue, p, setting.agent = "supervised")
  BY FoundPending DEF QueueInv
<1> QED  BY <1>1 DEF Usable, SamePool, Prune, Backed

\* The decision d that stands for r is about the same pool, keeps an EXIT and
\* makes no ENTER, and its proposal i is one of the queue.
Stands(r, d, i) ==
    /\ IsDecision(d)
    /\ r.act = "EXIT" => d.act = "EXIT"
    /\ d.act = "ENTER" => r.act = "ENTER"
    /\ d.act \in {r.act} \cup Act
    /\ d.pool = r.pool
    /\ d.pos \in {r.pos, NoPos} \cup PositionsOf(r.pool)
    /\ Backed(i, r.pool)

Takes(r) ==
    \E d, i : \E a \in BOOLEAN : cur' = Taken(r, d, i, a) /\ Stands(r, d, i)

LEMMA Unchanging ==
    ASSUME NEW r, IsDecision(r), cur' = Taken(r, r, NoId, FALSE)
    PROVE  Takes(r)
<1>1. Stands(r, r, NoId)
  BY DEF Stands, Backed
<1> QED  BY <1>1 DEF Takes

LEMMA Accepting ==
    ASSUME NEW r, IsDecision(r), NEW a \in Act, NEW i, Accepts(r, a, i),
           Backed(i, r.pool)
    PROVE  Takes(r)
<1>1. CASE setting.agent = "suggest"
  BY <1>1, Unchanging DEF Accepts
<1>2. CASE setting.agent # "suggest"
  <2>1. PICK d \in Adjusted(a, r) : cur' = Taken(r, d, i, TRUE)
    BY <1>2 DEF Accepts
  <2>2. (r.act = "EXIT" => a = "EXIT") /\ (a = "ENTER" => r.act = "ENTER")
    BY DEF Accepts, Admissible
  <2>3. /\ IsDecision(d) /\ d.act = a /\ d.pool = r.pool
        /\ d.pos \in {r.pos, NoPos} \cup PositionsOf(r.pool)
    BY DEF Adjusted, Targets, IsDecision
  <2>4. Stands(r, d, i)
    BY <2>2, <2>3 DEF Stands
  <2> QED  BY <2>1, <2>4 DEF Takes
<1> QED  BY <1>1, <1>2

\* The decision the tail gets stands for the head of the list.
LEMMA OverlayTakes ==
    ASSUME QueueInv, ShapeInv, Overlay
    PROVE  Takes(Head(raw))
<1>1. PICK r : r = Head(raw)
  OBVIOUS
<1>2. PICK x : x = FindPending(queue, r.pool, setting.agent = "supervised")
  OBVIOUS
<1>3. IsDecision(r)
  BY <1>1, HeadTail DEF ShapeInv, Overlay
<1>4. \/ NoOverlay(r)
      \/ Veto(r)
      \/ /\ Usable(queue, r.pool, setting.agent = "supervised") # {}
         /\ Accepts(r, x.act, x.id) \/ Refuses(r, x.id)
      \/ Asks(r)
  BY <1>1, <1>2 DEF Overlay
<1>5. CASE NoOverlay(r)
  BY <1>1, <1>3, <1>5, Unchanging DEF NoOverlay
<1>6. CASE Veto(r)
  <2>1. PICK d \in {r} \cup {[r EXCEPT !.act = "HOLD"]} :
            /\ r.act = "EXIT" => d = r
            /\ cur' = Taken(r, d, NoId, FALSE)
    BY <1>6 DEF Veto
  <2>2. /\ IsDecision(d) /\ d.pool = r.pool /\ d.pos = r.pos
        /\ d.act \in {r.act, "HOLD"} /\ (r.act = "EXIT" => d.act = "EXIT")
    BY <1>3, <2>1 DEF IsDecision
  <2>3. Stands(r, d, NoId)
    BY <2>2, ScanCycleAssumption DEF Stands, Backed
  <2> QED  BY <1>1, <2>1, <2>3 DEF Takes
<1>7. CASE /\ Usable(queue, r.pool, setting.agent = "supervised") # {}
           /\ Accepts(r, x.act, x.id) \/ Refuses(r, x.id)
  <2>1. Backed(x.id, r.pool)
    BY <1>2, <1>7, FoundIsBacked
  <2>2. CASE Accepts(r, x.act, x.id)
    <3>1. x.act \in Act
      BY <1>2, <1>7, FoundPending DEF QueueInv, Usable, SamePool, Prune, WellFormed, IsProposal
    <3> QED  BY <1>1, <1>3, <2>1, <2>2, <3>1, Accepting
  <2>3. CASE Refuses(r, x.id)
    BY <1>1, <1>3, <2>3, Unchanging DEF Refuses
  <2> QED  BY <1>7, <2>2, <2>3
<1>8. CASE Asks(r)
  <2>1. Backed(NoId, r.pool)
    BY DEF Backed
  <2>2. ASSUME NEW a \in Advice, Accepts(r, a, NoId)
        PROVE  Takes(r)
    BY <1>3, <2>1, <2>2, Accepting, ScanCycleAssumption
  <2>3. CASE cur' = Taken(r, r, NoId, FALSE)
    BY <1>1, <1>3, <2>3, Unchanging
  <2> QED  BY <1>1, <1>8, <2>2, <2>3 DEF Asks, Refuses
<1> QED  BY <1>4, <1>5, <1>6, <1>7, <1>8

\* The redeployment's decision is its own entry, or there is none.
LEMMA RedeployTakes ==
    ASSUME QueueInv, NEW p \in Pool, RedeployOverlay(p)
    PROVE  cur' = Idle \/ Takes(RedeployCandidate(p))
<1>1. PICK r : r = RedeployCandidate(p)
  OBVIOUS
<1>2. PICK x : x = FindPending(queue, p, setting.agent = "supervised")
  OBVIOUS
<1>3. IsDecision(r) /\ r.pool = p
  BY <1>1 DEF RedeployCandidate, IsDecision
<1>4. \/ cur' = Taken(r, r, NoId, FALSE)
      \/ /\ Usable(queue, p, setting.agent = "supervised") # {}
         /\ RedeployAccepts(r, x.act, x.id) \/ Refuses(r, x.id)
      \/ \E a \in Advice : RedeployAccepts(r, a, NoId) \/ Refuses(r, NoId)
  BY <1>1, <1>2 DEF RedeployOverlay
<1>5. ASSUME NEW a, NEW i, Backed(i, p), RedeployAccepts(r, a, i) \/ Refuses(r, i)
      PROVE  cur' = Idle \/ Takes(r)
  <2>1. Stands(r, r, i)
    BY <1>3, <1>5 DEF Stands
  <2>2. \/ cur' = Idle
        \/ cur' = Taken(r, r, NoId, FALSE)
        \/ cur' = Taken(r, r, i, TRUE)
    BY <1>5 DEF RedeployAccepts, Refuses
  <2>3. CASE cur' = Taken(r, r, NoId, FALSE)
    BY <1>3, <2>3, Unchanging
  <2>4. CASE cur' = Taken(r, r, i, TRUE)
    BY <2>1, <2>4 DEF Takes
  <2> QED  BY <2>2, <2>3, <2>4
<1>6. CASE cur' = Taken(r, r, NoId, FALSE)
  BY <1>1, <1>3, <1>6, Unchanging
<1>7. CASE /\ Usable(queue, p, setting.agent = "supervised") # {}
           /\ RedeployAccepts(r, x.act, x.id) \/ Refuses(r, x.id)
  <2>1. Backed(x.id, p)
    BY <1>2, <1>7, FoundIsBacked
  <2> QED  BY <1>1, <1>5, <1>7, <2>1
<1>8. CASE \E a \in Advice : RedeployAccepts(r, a, NoId) \/ Refuses(r, NoId)
  <2>1. Backed(NoId, p)
    BY DEF Backed
  <2> QED  BY <1>1, <1>5, <1>8, <2>1
<1> QED  BY <1>4, <1>6, <1>7, <1>8

-----------------------------------------------------------------------------
(* The shape is kept                                                       *)

LEMMA IdleTaken == IsTaken(Idle)
BY DEF IsTaken, IsDecision, Idle

LEMMA TakenTaken ==
    ASSUME NEW r, IsDecision(r), Takes(r)
    PROVE  IsTaken(cur')
<1>1. PICK d, i : \E a \in BOOLEAN : cur' = Taken(r, d, i, a) /\ Stands(r, d, i)
  BY DEF Takes
<1>2. IsDecision(d)
  BY <1>1 DEF Stands
<1> QED  BY <1>1, <1>2 DEF Taken, IsTaken

LEMMA NextShape ==
    ASSUME ShapeInv, pc \in {"gate", "final"}, NextDecision
    PROVE  /\ IsTaken(cur') /\ Decisions(raw')
           /\ pc' \in {"tail", "gate", "send", "final"} => raw' # <<>>
<1>1. Decisions(Tail(raw))
  BY HeadTail DEF ShapeInv
<1> QED  BY <1>1, IdleTaken DEF NextDecision

\* The list of pool p: the decisions s and t on its positions, then maybe an entry.
Chosen(p, f, enter) ==
    \E first, rest, s, t :
       /\ first \subseteq DOMAIN f /\ rest \subseteq DOMAIN f
       /\ IsFiniteSet(first) /\ IsFiniteSet(rest)
       /\ s \in Opened(first) /\ t \in Opened(rest)
       /\ raw' \in Listed(p, Decided(f, p, s, t, enter))

\* What Evaluate(p) chooses, and the list that comes of it.
LEMMA EvaluatedChoice ==
    ASSUME IsFiniteSet(book), NEW p \in Pool, Evaluate(p)
    PROVE  \E f \in PositionDecisions(p), enter \in BOOLEAN :
              Chosen(p, f, enter) /\ (enter => EnterAllowed(p))
<1>1. PICK f \in PositionDecisions(p), enter \in BOOLEAN :
        /\ enter => EnterAllowed(p)
        /\ \E first \in SUBSET {i \in DOMAIN f : f[i] = "EXIT"} :
           \E s \in Opened(first), t \in Opened(DOMAIN f \ first) :
             raw' \in Listed(p, Decided(f, p, s, t, enter))
  BY DEF Evaluate
<1>2. PICK first \in SUBSET {i \in DOMAIN f : f[i] = "EXIT"} :
        \E s \in Opened(first), t \in Opened(DOMAIN f \ first) :
          raw' \in Listed(p, Decided(f, p, s, t, enter))
  BY <1>1
<1>3. IsFiniteSet(DOMAIN f)
  BY FinitePositions DEF PositionDecisions
<1>4. IsFiniteSet(first) /\ IsFiniteSet(DOMAIN f \ first)
  BY <1>2, <1>3, FS_Subset
<1>5. first \subseteq DOMAIN f /\ DOMAIN f \ first \subseteq DOMAIN f
  BY <1>2
<1>6. Chosen(p, f, enter)
  BY <1>2, <1>4, <1>5 DEF Chosen
<1> QED  BY <1>1, <1>6

\* A pool's list of decisions.
LEMMA EvaluatedDecisions ==
    ASSUME ShapeInv, NEW p \in Pool, Evaluate(p)
    PROVE  Decisions(raw') /\ (pc' = "tail" => raw' # <<>>) /\ pc' \in {"pool", "tail"}
<1>1. PICK f \in PositionDecisions(p), enter \in BOOLEAN : Chosen(p, f, enter)
  BY EvaluatedChoice DEF ShapeInv
<1>2. PICK first, rest, s, t :
        /\ IsFiniteSet(first) /\ IsFiniteSet(rest)
        /\ s \in Opened(first) /\ t \in Opened(rest)
        /\ raw' \in Listed(p, Decided(f, p, s, t, enter))
  BY <1>1 DEF Chosen
<1>3. PICK last : last = IF enter THEN <<[act |-> "ENTER", pool |-> p, pos |-> NoPos]>>
                                  ELSE <<>>
  OBVIOUS
<1>4. PICK some : some = Decided(f, p, s, t, enter)
  OBVIOUS
<1>5. some = InOrder(f, p, s) \o InOrder(f, p, t) \o last
  BY <1>3, <1>4 DEF Decided
<1>6. Decisions(InOrder(f, p, s)) /\ Decisions(InOrder(f, p, t))
  BY <1>2, InOrderSeq
<1>7. ASSUME NEW a
      PROVE  Decisions(<<[act |-> a, pool |-> p, pos |-> NoPos]>>)
  <2>1. IsDecision([act |-> a, pool |-> p, pos |-> NoPos])
    BY DEF IsDecision
  <2> QED  BY <2>1, OneDecision
<1>8. Decisions(last)
  BY <1>3, <1>7, NoDecision
<1>9. Decisions(some)
  <2>1. Decisions(InOrder(f, p, s) \o InOrder(f, p, t))
    BY <1>6, ConcatSeq
  <2> QED  BY <1>5, <1>8, <2>1, ConcatSeq
<1>10. Decisions(raw')
  BY <1>2, <1>4, <1>7, <1>9, NoDecision DEF Listed
<1>11. pc' = IF raw' = <<>> THEN "pool" ELSE "tail"
  BY DEF Evaluate
<1> QED  BY <1>10, <1>11

LEMMA FiniteBook ==
    ASSUME IsFiniteSet(book), NEW d, Executes(d) \/ Fails(d) \/ book' = book
    PROVE  IsFiniteSet(book')
<1>1. ASSUME NEW p, Enters(p)
      PROVE  IsFiniteSet(book')
  BY <1>1, FS_AddElement DEF Enters
<1>2. ASSUME NEW i, Exits(i)
      PROVE  IsFiniteSet(book')
  BY <1>2, FS_Subset DEF Exits
<1> QED  BY <1>1, <1>2 DEF Executes, Fails

LEMMA SentShape ==
    ASSUME IsTaken(cur), NEW done \in BOOLEAN, NEW short, Dispatch(done, short)
    PROVE  /\ IsTaken(cur') /\ cur'.done = done
           /\ cur'.raw = cur.raw /\ cur'.dec = cur.dec /\ cur'.prop = cur.prop
BY DEF IsTaken, Dispatch

LEMMA ShapeInit == Init => ShapeInv
<1> SUFFICES ASSUME Init
             PROVE  ShapeInv
  OBVIOUS
<1>1. IsFiniteSet(book)
  BY ScanCycleAssumption DEF Init
<1> QED  BY <1>1, IdleTaken, NoDecision DEF Init, ShapeInv

LEMMA ShapeStep == QueueInv /\ ShapeInv /\ [Next]_vars => ShapeInv'
<1> SUFFICES ASSUME QueueInv, ShapeInv, [Next]_vars
             PROVE  ShapeInv'
  OBVIOUS
<1>1. /\ IsTaken(cur) /\ Decisions(raw) /\ IsFiniteSet(book) /\ restarts \in Nat
      /\ pc \in {"tail", "gate", "send", "final"} => raw # <<>>
  BY DEF ShapeInv
<1> USE IdleTaken, NoDecision DEF capital, proposals
<1>2. ASSUME UNCHANGED <<cur, raw, pc, book, restarts>>
      PROVE  ShapeInv'
  BY <1>1, <1>2 DEF ShapeInv
<1>3. CASE Environment
  <2>1. CASE Restart
    BY <1>1, <2>1 DEF Restart, ShapeInv
  <2> QED
    BY <1>2, <1>3, <2>1 DEF Environment, Propose, HumanApproves, Expires, Elapses
<1>4. CASE StartCycle
  BY <1>1, <1>4 DEF StartCycle, ShapeInv
<1>5. ASSUME NEW p \in Pool, Evaluate(p)
      PROVE  ShapeInv'
  BY <1>1, <1>5, EvaluatedDecisions DEF Evaluate, ShapeInv
<1>6. ASSUME NEW p \in Pool, EvaluateFails(p)
      PROVE  ShapeInv'
  BY <1>2, <1>6 DEF EvaluateFails
<1>7. CASE PoolsDone
  BY <1>1, <1>7 DEF PoolsDone, ShapeInv
<1>8. CASE Overlay
  <2>1. IsDecision(Head(raw))
    BY <1>1, <1>8, HeadTail DEF Overlay
  <2>2. IsTaken(cur')
    BY <1>8, <2>1, OverlayTakes, TakenTaken
  <2> QED  BY <1>1, <1>8, <2>2 DEF Overlay, ShapeInv
<1>9. CASE RiskDenies
  BY <1>1, <1>9, NextShape DEF RiskDenies, ShapeInv
<1>10. CASE Capacity
  BY <1>1, <1>10, NextShape DEF Capacity, ShapeInv
<1>11. CASE Pass
  <2>1. PICK d \in Judged : cur' = [cur EXCEPT !.dec = d]
    BY <1>11 DEF Pass
  <2>2. IsDecision(d)
    BY <1>1, <2>1, JudgedDecisions
  <2>3. IsTaken(cur')
    BY <1>1, <2>1, <2>2 DEF IsTaken
  <2> QED  BY <1>1, <1>11, <2>3 DEF Pass, ShapeInv
<1>12. CASE Send \/ RedeploySend
  <2>1. PICK done \in BOOLEAN, short \in BOOLEAN : Dispatch(done, short)
    BY <1>12 DEF Send, RedeploySend
  <2>2. IsTaken(cur')
    BY <1>1, <2>1, SentShape
  <2>3. IsFiniteSet(book')
    BY <1>1, <1>12, FiniteBook DEF Send, RedeploySend
  <2>4. raw' = raw /\ restarts' = restarts
    BY <2>1 DEF Dispatch
  <2>5. pc' \in {"tail", "gate", "send", "final"}
            => pc \in {"tail", "gate", "send", "final"}
    BY <1>12 DEF Send, RedeploySend
  <2> QED  BY <1>1, <2>2, <2>3, <2>4, <2>5 DEF ShapeInv
<1>13. CASE Finalize
  BY <1>1, <1>13, NextShape DEF Finalize, ShapeInv
<1>14. CASE RedeployEnds
  BY <1>1, <1>14 DEF RedeployEnds, ShapeInv
<1>15. ASSUME NEW p \in Pool, RedeploySkips(p)
       PROVE  ShapeInv'
  BY <1>2, <1>15 DEF RedeploySkips
<1>16. ASSUME NEW p \in Pool, RedeployOverlay(p)
       PROVE  ShapeInv'
  <2>1. IsDecision(RedeployCandidate(p))
    BY DEF RedeployCandidate, IsDecision
  <2>2. IsTaken(cur')
    BY <1>16, <2>1, RedeployTakes, TakenTaken
  <2> QED  BY <1>1, <1>16, <2>2 DEF RedeployOverlay, ShapeInv
<1>17. CASE RedeployDenied
  BY <1>1, <1>17 DEF RedeployDenied, ShapeInv
<1>18. CASE RedeployUnfunded
  BY <1>1, <1>18 DEF RedeployUnfunded, ShapeInv
<1>19. CASE RedeployPass
  BY <1>1, <1>19 DEF RedeployPass, ShapeInv
<1>20. CASE RedeployFinalize
  BY <1>1, <1>20 DEF RedeployFinalize, ShapeInv
<1>21. CASE UNCHANGED vars
  BY <1>2, <1>21 DEF vars
<1> QED
  BY <1>3, <1>4, <1>5, <1>6, <1>7, <1>8, <1>9, <1>10, <1>11, <1>12, <1>13,
     <1>14, <1>15, <1>16, <1>17, <1>18, <1>19, <1>20, <1>21 DEF Next, Engine

LEMMA ShapeInvariant == Spec => [](QueueInv /\ ShapeInv)
<1>1. Init => QueueInv /\ ShapeInv
  BY QueueInit, ShapeInit
<1>2. QueueInv /\ ShapeInv /\ [Next]_vars => (QueueInv /\ ShapeInv)'
  BY QueueStep, ShapeStep
<1> QED  BY <1>1, <1>2, PTL DEF Spec

-----------------------------------------------------------------------------
(* What the tail knows of its decision and its proposal                    *)

Deploys == cur.dec.act \in {"ENTER", "REBALANCE"}

TailInv ==
    /\ pc = "gate" /\ cur.raw.act = "EXIT" => cur.dec.act = "EXIT"
    /\ cur.prop \in 0 .. nextId - 1
    /\ setting.agent = "supervised" /\ cur.prop # NoId => cur.prop \in endorsed
    /\ setting.agent = "supervised" /\ pc \in {"send", "rgate", "rsend"} /\ Deploys
           => cur.prop # NoId

\* An id that took part in an execution is in no queue, but for the one whose
\* execution has yet to be booked.
UsedInv ==
    /\ used \subseteq 1 .. nextId - 1
    /\ pc \in {"gate", "send", "rgate", "rsend"} => cur.prop \notin used
    /\ \A x \in queue : x.id \in used
           => pc \in {"final", "rfinal"} /\ cur.done /\ cur.prop = x.id

Inv == QueueInv /\ ShapeInv /\ TailInv /\ UsedInv

LEMMA BackedProposal ==
    ASSUME QueueInv, NEW i, NEW p, Backed(i, p)
    PROVE  /\ i \in 0 .. nextId - 1
           /\ setting.agent = "supervised" /\ i # NoId => i \in endorsed
           /\ i # NoId => \E x \in queue : x.id = i
<1>1. CASE i = NoId
  BY <1>1 DEF NoId, QueueInv
<1>2. CASE i # NoId
  <2>1. PICK x \in queue : x.id = i /\ (setting.agent = "supervised" => x.approved)
    BY <1>2 DEF Backed
  <2>2. x.id \in 1 .. nextId - 1 /\ (x.approved => x.id \in endorsed)
    BY DEF QueueInv, WellFormed
  <2>3. nextId \in Nat
    BY DEF QueueInv
  <2> QED  BY <2>1, <2>2, <2>3
<1> QED  BY <1>1, <1>2

\* What a step takes into the tail: nothing spent, nothing unapproved.
LEMMA TakenTail ==
    ASSUME Inv, NEW r, Takes(r), pc \notin {"final", "rfinal"}
    PROVE  /\ cur'.raw = r
           /\ r.act = "EXIT" => cur'.dec.act = "EXIT"
           /\ cur'.prop \in 0 .. nextId - 1 /\ cur'.prop \notin used
           /\ setting.agent = "supervised" /\ cur'.prop # NoId => cur'.prop \in endorsed
<1>1. PICK d, i : \E a \in BOOLEAN : cur' = Taken(r, d, i, a) /\ Stands(r, d, i)
  BY DEF Takes
<1>2. cur'.raw = r /\ cur'.dec = d /\ cur'.prop = i
  BY <1>1 DEF Taken
<1>3. Backed(i, r.pool) /\ (r.act = "EXIT" => d.act = "EXIT")
  BY <1>1 DEF Stands
<1>4. /\ i \in 0 .. nextId - 1
      /\ setting.agent = "supervised" /\ i # NoId => i \in endorsed
      /\ i # NoId => \E x \in queue : x.id = i
  BY <1>3, BackedProposal DEF Inv
<1>5. i \notin used
  BY <1>4 DEF Inv, UsedInv, NoId
<1> QED  BY <1>2, <1>3, <1>4, <1>5

LEMMA TailInit == Init => TailInv /\ UsedInv
BY DEF Init, TailInv, UsedInv, Idle, NoId, Deploys

\* The steps that neither take a decision nor carry one on.
Quiet ==
    /\ UNCHANGED <<setting, used>>
    /\ \/ cur' = cur /\ pc' = pc
       \/ /\ cur' = cur /\ pc \in {"idle", "pool", "redeploy"}
          /\ pc' \in {"idle", "pool", "tail", "redeploy"}
       \/ cur' = Idle /\ pc \notin {"final", "rfinal"}
       \/ cur' = Idle /\ queue' = {}

\* Those that do: from the overlay to the end of an execution.
Carries ==
    \/ Overlay
    \/ Pass
    \/ Send
    \/ Finalize
    \/ \E p \in Pool : RedeployOverlay(p)
    \/ RedeployPass
    \/ RedeploySend
    \/ RedeployFinalize

LEMMA QuietOrCarries ==
    ASSUME ShapeInv, [Next]_vars
    PROVE  Quiet \/ Carries
<1> USE DEF Quiet, capital, proposals
<1>1. CASE Environment
  BY <1>1 DEF Environment, Propose, HumanApproves, Expires, Elapses, Restart
<1>2. CASE StartCycle \/ PoolsDone \/ RedeployEnds
  BY <1>2 DEF StartCycle, PoolsDone, RedeployEnds
<1>3. ASSUME NEW p \in Pool, Evaluate(p)
      PROVE  Quiet
  BY <1>3, EvaluatedDecisions DEF Evaluate
<1>4. ASSUME NEW p \in Pool, EvaluateFails(p) \/ RedeploySkips(p)
      PROVE  Quiet
  BY <1>4 DEF EvaluateFails, RedeploySkips
<1>5. CASE RiskDenies \/ Capacity
  BY <1>5 DEF RiskDenies, Capacity, NextDecision
<1>6. CASE RedeployDenied \/ RedeployUnfunded
  BY <1>6 DEF RedeployDenied, RedeployUnfunded
<1>7. CASE UNCHANGED vars
  BY <1>7 DEF vars
<1> QED
  BY <1>1, <1>2, <1>3, <1>4, <1>5, <1>6, <1>7 DEF Next, Engine, Carries

\* Ids and endorsements only grow, and the queue only gets a new id.
LEMMA Grows ==
    ASSUME QueueInv, [Next]_vars
    PROVE  /\ endorsed \subseteq endorsed' /\ nextId' \in {nextId, nextId + 1}
           /\ \A x \in queue' : x.id = nextId \/ \E y \in queue : y.id = x.id
<1>1. ASSUME NEW p \in Pool, NEW a \in Advice, Propose(p, a)
      PROVE  \A x \in queue' : x.id = nextId \/ \E y \in queue : y.id = x.id
  BY <1>1 DEF Propose, Enqueue, Remaining, Prune
<1>2. ASSUME NEW x \in queue, HumanApproves(x)
      PROVE  \A y \in queue' : \E z \in queue : z.id = y.id
  <2>1. \A z \in queue : IsProposal(z)
    BY DEF QueueInv, WellFormed
  <2>2. ASSUME NEW z \in queue
        PROVE  [z EXCEPT !.approved = TRUE].id = z.id
    BY <2>1 DEF IsProposal
  <2> QED  BY <1>2, <2>2 DEF HumanApproves, Approve, Prune
<1>3. ASSUME NEW x \in queue, Expires(x)
      PROVE  \A y \in queue' : \E z \in queue : z.id = y.id
  <2>1. IsProposal(x)
    BY DEF QueueInv, WellFormed
  <2>2. [x EXCEPT !.live = FALSE].id = x.id
    BY <2>1 DEF IsProposal
  <2> QED  BY <1>3, <2>2 DEF Expires
<1>4. CASE Environment
  BY <1>1, <1>2, <1>3, <1>4
     DEF Environment, Propose, HumanApproves, Expires, Elapses, Restart, proposals
<1>5. CASE Engine
  BY <1>5, EngineFilters
<1>6. CASE UNCHANGED vars
  BY <1>6 DEF vars, proposals
<1> QED  BY <1>4, <1>5, <1>6 DEF Next

\* In supervised mode what is judged deploys only if it has a proposal.
LEMMA JudgedDeploys ==
    ASSUME IsTaken(cur), setting.agent = "supervised", NEW d \in Judged,
           d.act \in {"ENTER", "REBALANCE"}
    PROVE  cur.prop # NoId
<1>1. IsDecision(SupervisedHold(cur))
  BY DEF SupervisedHold, IsTaken, IsDecision
<1>2. d = SupervisedHold(cur)
  BY <1>1 DEF Judged, Stops, IsDecision
<1> QED  BY <1>2 DEF SupervisedHold, IsTaken, IsDecision

LEMMA TailStep == Inv /\ [Next]_vars => TailInv'
<1> SUFFICES ASSUME Inv, [Next]_vars
             PROVE  TailInv'
  OBVIOUS
<1>1. /\ QueueInv /\ ShapeInv /\ ShapeInv' /\ nextId \in Nat \ {0} /\ IsTaken(cur)
      /\ pc = "gate" /\ cur.raw.act = "EXIT" => cur.dec.act = "EXIT"
      /\ cur.prop \in 0 .. nextId - 1
      /\ setting.agent = "supervised" /\ cur.prop # NoId => cur.prop \in endorsed
      /\ setting.agent = "supervised" /\ pc \in {"send", "rgate", "rsend"} /\ Deploys
             => cur.prop # NoId
  BY ShapeStep DEF Inv, TailInv, QueueInv, ShapeInv
<1>2. endorsed \subseteq endorsed' /\ nextId' \in {nextId, nextId + 1}
  BY <1>1, Grows
<1>3. ASSUME cur' = Idle
      PROVE  TailInv'
  BY <1>1, <1>2, <1>3 DEF TailInv, Idle, NoId, Deploys
<1>4. ASSUME cur'.raw = cur.raw, cur'.dec = cur.dec, cur'.prop = cur.prop,
             setting' = setting,
             \/ pc' = pc
             \/ pc' \notin {"gate", "send", "rgate", "rsend"}
             \/ pc = "rgate" /\ pc' = "rsend"
      PROVE  TailInv'
  BY <1>1, <1>2, <1>4 DEF TailInv, Deploys
<1>5. CASE Quiet
  BY <1>3, <1>4, <1>5 DEF Quiet
<1>6. CASE Overlay
  <2>1. Takes(Head(raw)) /\ pc' = "gate" /\ setting' = setting
    BY <1>1, <1>6, OverlayTakes DEF Overlay
  <2> QED  BY <1>2, <1>6, <2>1, TakenTail DEF Overlay, TailInv
<1>7. CASE Pass
  <2>1. PICK d \in Judged : cur' = [cur EXCEPT !.dec = d]
    BY <1>7 DEF Pass
  <2>2. cur'.dec = d /\ cur'.prop = cur.prop /\ cur'.raw = cur.raw
    BY <1>1, <2>1 DEF IsTaken
  <2>3. pc' = "send" /\ setting' = setting
    BY <1>7 DEF Pass
  <2>4. setting.agent = "supervised" /\ d.act \in {"ENTER", "REBALANCE"}
            => cur.prop # NoId
    BY <1>1, JudgedDeploys
  <2> QED  BY <1>1, <1>2, <2>2, <2>3, <2>4 DEF TailInv, Deploys
<1>8. CASE Send \/ RedeploySend
  <2>1. PICK done \in BOOLEAN, short \in BOOLEAN : Dispatch(done, short)
    BY <1>8 DEF Send, RedeploySend
  <2>2. cur'.raw = cur.raw /\ cur'.dec = cur.dec /\ cur'.prop = cur.prop
    BY <1>1, <2>1, SentShape
  <2> QED  BY <1>4, <1>8, <2>1, <2>2 DEF Send, RedeploySend, Dispatch
<1>9. CASE Finalize \/ RedeployFinalize
  BY <1>3, <1>9 DEF Finalize, RedeployFinalize, NextDecision
<1>10. ASSUME NEW p \in Pool, RedeployOverlay(p)
       PROVE  TailInv'
  <2>1. /\ cur' = Idle \/ Takes(RedeployCandidate(p))
        /\ pc = "redeploy" /\ setting' = setting
        /\ pc' = IF SupervisedHold(cur').act = "ENTER" THEN "rgate" ELSE "redeploy"
    BY <1>1, <1>10, RedeployTakes DEF RedeployOverlay
  <2>2. CASE Takes(RedeployCandidate(p))
    <3>1. /\ cur'.prop \in 0 .. nextId - 1
          /\ setting.agent = "supervised" /\ cur'.prop # NoId => cur'.prop \in endorsed
      BY <2>1, <2>2, TakenTail
    <3>2. IsTaken(cur')
      BY <1>1 DEF ShapeInv
    <3>3. setting.agent = "supervised" /\ pc' = "rgate"
              /\ cur'.dec.act \in {"ENTER", "REBALANCE"} => cur'.prop # NoId
      BY <2>1, <3>2 DEF SupervisedHold, IsTaken, IsDecision
    <3> QED  BY <1>1, <1>2, <2>1, <3>1, <3>3 DEF TailInv, Deploys
  <2> QED  BY <1>3, <2>1, <2>2
<1>11. CASE RedeployPass
  BY <1>4, <1>11 DEF RedeployPass
<1> QED
  BY <1>1, <1>5, <1>6, <1>7, <1>8, <1>9, <1>10, <1>11, QuietOrCarries DEF Carries

LEMMA UsedStep == Inv /\ [Next]_vars => UsedInv'
<1> SUFFICES ASSUME Inv, [Next]_vars
             PROVE  UsedInv'
  OBVIOUS
<1>1. /\ QueueInv /\ ShapeInv /\ nextId \in Nat \ {0} /\ IsTaken(cur)
      /\ cur.prop \in 0 .. nextId - 1 /\ used \subseteq 1 .. nextId - 1
      /\ pc \in {"gate", "send", "rgate", "rsend"} => cur.prop \notin used
  BY DEF Inv, TailInv, UsedInv, QueueInv, ShapeInv
<1>2. /\ nextId' \in {nextId, nextId + 1}
      /\ \A x \in queue' : x.id = nextId \/ \E y \in queue : y.id = x.id
  BY <1>1, Grows
<1>3. \A x \in queue : x.id \in used
          => pc \in {"final", "rfinal"} /\ cur.done /\ cur.prop = x.id
  BY DEF Inv, UsedInv
<1>4. used \subseteq 1 .. nextId' - 1 /\ nextId \notin used
  <2> SUFFICES ASSUME NEW u \in used
               PROVE  u \in 1 .. nextId' - 1 /\ nextId \notin used
    BY <1>1
  <2>1. nextId' \in Nat /\ nextId \in Nat /\ nextId <= nextId'
    BY <1>1, <1>2
  <2>2. \A v \in used : v \in Nat /\ 1 <= v /\ v <= nextId - 1
    BY <1>1
  <2>3. u \in 1 .. nextId' - 1
    BY <2>1, <2>2
  <2>4. nextId \notin used
    BY <2>1, <2>2
  <2> QED  BY <2>3, <2>4
<1>5. \A x \in queue' : x.id \in used
          => pc \in {"final", "rfinal"} /\ cur.done /\ cur.prop = x.id
  BY <1>2, <1>3, <1>4
<1>6. ASSUME used' = used, pc \notin {"final", "rfinal"} \/ queue' = {},
             \/ cur' = Idle
             \/ cur'.prop = cur.prop /\ pc' \notin {"gate", "send", "rgate", "rsend"}
             \/ cur'.prop \notin used
      PROVE  UsedInv'
  BY <1>1, <1>4, <1>5, <1>6 DEF UsedInv, Idle, NoId
<1>7. CASE Quiet
  <2>1. CASE cur' = cur /\ pc' = pc
    BY <1>1, <1>5, <1>4, <1>7, <2>1 DEF Quiet, UsedInv
  <2>2. CASE ~ (cur' = cur /\ pc' = pc)
    BY <1>6, <1>7, <2>2 DEF Quiet
  <2> QED  BY <2>1, <2>2
<1>8. CASE Overlay
  <2>1. Takes(Head(raw)) /\ pc = "tail" /\ used' = used
    BY <1>1, <1>8, OverlayTakes DEF Overlay
  <2> QED  BY <1>6, <2>1, TakenTail
<1>9. CASE Pass
  <2>1. cur'.prop = cur.prop
    BY <1>1, <1>9 DEF Pass, IsTaken
  <2>2. pc = "gate" /\ used' = used
    BY <1>9 DEF Pass
  <2> QED  BY <1>1, <1>6, <2>1, <2>2
<1>10. CASE Send \/ RedeploySend
  <2>1. PICK done \in BOOLEAN, short \in BOOLEAN : Dispatch(done, short)
    BY <1>10 DEF Send, RedeploySend
  <2>2. cur'.done = done /\ cur'.prop = cur.prop
    BY <1>1, <2>1, SentShape
  <2>3. /\ pc \in {"send", "rsend"} /\ pc' \in {"final", "rfinal"}
        /\ used' = IF done /\ cur.prop # NoId THEN used \cup {cur.prop} ELSE used
    BY <1>10, <2>1 DEF Send, RedeploySend, Dispatch
  <2>4. used' \subseteq 1 .. nextId' - 1
    <3>1. cur.prop # NoId => cur.prop \in 1 .. nextId' - 1
      BY <1>1, <1>2 DEF NoId
    <3> QED  BY <1>4, <2>3, <3>1
  <2>5. \A x \in queue' : x.id \in used' => done /\ cur.prop = x.id
    BY <1>5, <2>3
  <2> QED  BY <2>2, <2>3, <2>4, <2>5 DEF UsedInv
<1>11. CASE Finalize \/ RedeployFinalize
  <2>1. cur' = Idle /\ used' = used /\ Consume
    BY <1>11 DEF Finalize, RedeployFinalize, NextDecision
  <2>2. ASSUME NEW x \in queue'
        PROVE  x.id \notin used
    <3>1. SUFFICES ASSUME x.id \in used
                   PROVE  FALSE
      OBVIOUS
    <3>2. cur.done /\ cur.prop = x.id
      BY <1>5, <3>1
    <3>3. cur.prop # NoId
      BY <1>1, <3>1, <3>2 DEF NoId
    <3>4. queue' = Dequeue(queue, cur.prop)
      BY <2>1, <3>2, <3>3 DEF Consume
    <3> QED  BY <3>2, <3>4 DEF Dequeue, Prune
  <2> QED  BY <1>4, <2>1, <2>2 DEF UsedInv, Idle, NoId
<1>12. ASSUME NEW p \in Pool, RedeployOverlay(p)
       PROVE  UsedInv'
  <2>1. /\ cur' = Idle \/ Takes(RedeployCandidate(p))
        /\ pc = "redeploy" /\ used' = used
    BY <1>1, <1>12, RedeployTakes DEF RedeployOverlay
  <2> QED  BY <1>6, <2>1, TakenTail
<1>13. CASE RedeployPass
  BY <1>1, <1>6, <1>13 DEF RedeployPass
<1> QED
  BY <1>1, <1>7, <1>8, <1>9, <1>10, <1>11, <1>12, <1>13, QuietOrCarries DEF Carries

LEMMA Invariant == Spec => []Inv
<1>1. Init => Inv
  BY QueueInit, ShapeInit, TailInit DEF Inv
<1>2. Inv /\ [Next]_vars => Inv'
  BY QueueStep, ShapeStep, TailStep, UsedStep DEF Inv
<1> QED  BY <1>1, <1>2, PTL DEF Spec

-----------------------------------------------------------------------------
(* The properties                                                          *)

\* In supervised mode nothing is entered or rebalanced without a proposal
\* that a human approved, in the tail and in the redeployment.
THEOREM HumanInTheLoop == Spec => []SupervisedBoundary
<1>1. Inv => SupervisedBoundary
  BY DEF Inv, TailInv, SupervisedBoundary, Deploys
<1> QED  BY <1>1, Invariant, PTL

\* A decided EXIT passes the overlay, the supervised mode and the risk engine
\* as an EXIT.
THEOREM ExitIsKept == Spec => SafetyExitKept
<1> DEFINE Kept == pc = "gate" /\ cur.raw.act = "EXIT" /\ pc' # "gate"
                       /\ restarts' = restarts
                   => pc' = "send" /\ cur'.dec.act = "EXIT"
<1>1. Inv /\ [Next]_vars => Kept
  <2> SUFFICES ASSUME Inv, [Next]_vars, pc = "gate", cur.raw.act = "EXIT",
                      pc' # "gate", restarts' = restarts
               PROVE  pc' = "send" /\ cur'.dec.act = "EXIT"
    OBVIOUS
  <2>1. IsTaken(cur) /\ cur.dec.act = "EXIT" /\ restarts \in Nat
    BY DEF Inv, TailInv, ShapeInv
  <2>2. \A d \in Judged : d = cur.dec
    BY <2>1 DEF Judged, Stops, SupervisedHold
  <2>3. RiskDenies \/ Capacity \/ Pass
    <3>1. ~ Environment
      <4>1. ~ Restart
        BY <2>1 DEF Restart
      <4>2. \A p \in Pool : ~ Elapses(p)
        BY DEF Elapses
      <4> QED  BY <4>1, <4>2 DEF Environment, Propose, HumanApproves, Expires
    <3>2. CASE Engine
      BY <3>2 DEF Engine, StartCycle, Evaluate, EvaluateFails, PoolsDone, Overlay,
         Send, Finalize, RedeployEnds, RedeploySkips, RedeployOverlay,
         RedeployDenied, RedeployUnfunded, RedeployPass, RedeploySend,
         RedeployFinalize
    <3> QED  BY <3>1, <3>2 DEF Next, vars
  <2>4. ~ RiskDenies /\ ~ Capacity
    BY <2>1, <2>2 DEF RiskDenies, Capacity, MayDeny
  <2>5. Pass
    BY <2>3, <2>4
  <2>6. PICK d \in Judged : cur' = [cur EXCEPT !.dec = d]
    BY <2>5 DEF Pass
  <2>7. cur'.dec = d
    BY <2>1, <2>6 DEF IsTaken
  <2> QED  BY <2>1, <2>2, <2>5, <2>7 DEF Pass
<1>2. Inv /\ [Next]_vars => [Kept]_vars
  BY <1>1
<1> QED  BY <1>2, Invariant, PTL DEF Spec, SafetyExitKept

\* A proposal takes part in at most one successful execution.
THEOREM UsedOnce == Spec => ConsumedOnce
<1> DEFINE Once == Sends /\ cur'.done => cur.prop \notin used
<1>1. Inv => (Sends => cur.prop \notin used)
  BY DEF Inv, UsedInv, Sends
<1>2. Inv /\ [Next]_vars => [Once]_vars
  BY <1>1
<1> QED  BY <1>2, Invariant, PTL DEF Spec, ConsumedOnce

-----------------------------------------------------------------------------
(* An approved proposal                                                    *)

\* x, approved and not expired, is in the queue and will not be.
Leaves(x) ==
    x \in queue /\ x.live /\ x.approved /\ \A y \in queue' : y.id # x.id

\* The step that may take it: one on a decision of its pool, or a crash.
Answers(x) ==
    \/ pc \in {"gate", "final", "rgate", "rfinal"} /\ cur.prop = x.id
    \/ pc = "tail" /\ Head(raw).pool = x.pool
    \/ pc = "redeploy" /\ cands' # cands
    \/ restarts' # restarts

\* Nothing that happens around the cycle takes it away, a crash excepted.
LEMMA EnvironmentKeeps ==
    ASSUME QueueInv, Environment, NEW x, Leaves(x)
    PROVE  Restart
<1>1. /\ x \in queue /\ x.live /\ x.approved /\ \A y \in queue' : y.id # x.id
      /\ \A y \in queue : IsProposal(y)
      /\ \A y, z \in queue : y.id = z.id => y = z
  BY DEF Leaves, QueueInv, WellFormed
<1>2. ASSUME NEW p \in Pool, NEW a \in Advice, Propose(p, a)
      PROVE  FALSE
  <2>1. x \in Prune(queue)
    BY <1>1 DEF Prune
  <2>2. x \in queue'
    BY <1>1, <1>2, <2>1 DEF Propose, Enqueue, Remaining
  <2> QED  BY <1>1, <2>2
<1>3. ASSUME NEW y \in queue, HumanApproves(y)
      PROVE  FALSE
  <2>1. [x EXCEPT !.approved = TRUE].id = x.id /\ [x EXCEPT !.approved = TRUE].live
    BY <1>1 DEF IsProposal
  <2>2. \E z \in queue' : z.id = x.id
    BY <1>1, <1>3, <2>1 DEF HumanApproves, Approve, Prune
  <2> QED  BY <1>1, <2>2
<1>4. ASSUME NEW y \in queue, Expires(y)
      PROVE  FALSE
  <2>1. [y EXCEPT !.live = FALSE].id = y.id
    BY <1>1 DEF IsProposal
  <2> QED  BY <1>1, <1>4, <2>1 DEF Expires
<1>5. ASSUME NEW p \in Pool, Elapses(p)
      PROVE  FALSE
  BY <1>1, <1>5 DEF Elapses, proposals
<1> QED  BY <1>2, <1>3, <1>4, <1>5 DEF Environment

\* What filters the queue by id keeps the approved proposals of other ids.
LEMMA FilterKeeps ==
    ASSUME NEW x, Leaves(x), NEW i,
           \/ queue' = Prune(queue)
           \/ queue' = Dequeue(queue, i)
           \/ queue' = Reject(queue, i)
    PROVE  x.id = i
BY DEF Leaves, Prune, Dequeue, Reject

LEMMA EngineAnswers ==
    ASSUME QueueInv, ShapeInv, Engine, NEW x, Leaves(x)
    PROVE  Answers(x)
<1>1. x \in queue /\ x.id # NoId
  BY DEF Leaves, QueueInv, WellFormed, NoId
<1>2. \A y \in queue : y.id = x.id => y.pool = x.pool
  BY <1>1 DEF QueueInv, WellFormed
<1>3. queue' # queue
  BY DEF Leaves
<1>4. CASE Overlay
  <2>1. PICK r : r = Head(raw)
    OBVIOUS
  <2>2. PICK y : y = FindPending(queue, r.pool, setting.agent = "supervised")
    OBVIOUS
  <2>3. \/ NoOverlay(r)
        \/ Veto(r)
        \/ /\ Usable(queue, r.pool, setting.agent = "supervised") # {}
           /\ Accepts(r, y.act, y.id) \/ Refuses(r, y.id)
        \/ Asks(r)
    BY <1>4, <2>1, <2>2 DEF Overlay
  <2>4. ~ NoOverlay(r) /\ ~ Veto(r)
    BY <1>3 DEF NoOverlay, Veto
  <2>5. ASSUME NEW a, NEW i, Accepts(r, a, i) \/ Refuses(r, i)
        PROVE  x.id = i
    <3>1. \/ queue' = Prune(queue)
          \/ queue' = Dequeue(queue, i)
          \/ queue' = Reject(queue, i)
      BY <2>5 DEF Accepts, Refuses
    <3> QED  BY <3>1, FilterKeeps
  <2>6. ~ Asks(r)
    <3>1. queue' # Prune(queue)
      BY DEF Leaves, Prune
    <3> QED  BY <1>1, <2>5, <3>1 DEF Asks
  <2>7. x.id = y.id
    BY <2>3, <2>4, <2>5, <2>6
  <2>8. Backed(y.id, r.pool)
    BY <2>2, <2>3, <2>4, <2>6, FoundIsBacked
  <2>9. x.pool = r.pool
    BY <1>1, <1>2, <2>7, <2>8 DEF Backed
  <2> QED  BY <1>4, <2>1, <2>9 DEF Overlay, Answers
<1>5. CASE RiskDenies \/ RedeployDenied
  BY <1>3, <1>5, FilterKeeps DEF RiskDenies, RedeployDenied, DeniedProposal, Answers
<1>6. CASE Finalize \/ RedeployFinalize
  BY <1>3, <1>6, FilterKeeps DEF Finalize, RedeployFinalize, Consume, Answers
<1>7. ASSUME NEW p \in Pool, RedeployOverlay(p)
      PROVE  Answers(x)
  BY <1>7 DEF RedeployOverlay, Answers
<1> QED
  BY <1>3, <1>4, <1>5, <1>6, <1>7
     DEF Engine, proposals, StartCycle, Evaluate, EvaluateFails, PoolsDone,
         Capacity, Pass, Send, Dispatch, RedeployEnds, RedeploySkips,
         RedeployUnfunded, RedeployPass, RedeploySend

\* While it has not expired, an approved proposal leaves the queue only by a
\* step of the engine on a decision of its pool, or by a crash.
THEOREM ApprovalIsHonoured == Spec => ApprovalHonoured
<1> DEFINE Honoured == \A x \in queue :
               x.live /\ x.approved /\ (\A y \in queue' : y.id # x.id)
               => \/ pc \in {"gate", "final", "rgate", "rfinal"} /\ cur.prop = x.id
                  \/ pc = "tail" /\ Head(raw).pool = x.pool
                  \/ pc = "redeploy" /\ cands' # cands
                  \/ restarts' # restarts
<1>1. Inv /\ Next => Honoured
  <2> SUFFICES ASSUME Inv, Next, NEW x \in queue, Leaves(x)
               PROVE  Answers(x)
    BY DEF Leaves, Answers
  <2>1. QueueInv /\ ShapeInv /\ restarts \in Nat
    BY DEF Inv, ShapeInv
  <2>2. CASE Environment
    <3>1. Restart
      BY <2>1, <2>2, EnvironmentKeeps
    <3> QED  BY <2>1, <3>1 DEF Restart, Answers
  <2>3. CASE Engine
    BY <2>1, <2>3, EngineAnswers
  <2> QED  BY <2>2, <2>3 DEF Next
<1>2. Inv /\ [Next]_vars => [Honoured]_vars
  BY <1>1
<1> QED  BY <1>2, Invariant, PTL DEF Spec, ApprovalHonoured

-----------------------------------------------------------------------------
(* The native budget                                                       *)

\* The entry at hand is paid in ETH, and its price is known.
Priced == Live /\ cur.dec.act = "ENTER" /\ cur.dec.pool \in Native /\ budget.priced

\* A priced budget never promises more than the wallet has; what it promised
\* to the entry that is about to be sent comes on top.
FundsInv ==
    /\ eth \in Nat
    /\ budget \in [known : BOOLEAN, priced : BOOLEAN, free : Nat]
    /\ budget.priced => budget.free <= eth
    /\ pc \in {"send", "rsend"} /\ Priced => budget.free + 1 <= eth

LEMMA ReservedBudget ==
    ASSUME FundsInv, NEW p, budget' = [budget EXCEPT !.free = @ - Need(p)], Funds(p)
    PROVE  /\ budget' \in [known : BOOLEAN, priced : BOOLEAN, free : Nat]
           /\ budget'.priced = budget.priced
           /\ budget.priced => budget'.free <= eth
           /\ budget.priced /\ p \in Native => budget'.free + 1 <= eth
BY DEF FundsInv, Funds, Need

\* What an execution, done or failed, leaves in the wallet.
LEMMA SpentFunds ==
    ASSUME FundsInv, pc \in {"send", "rsend"}, Executes(cur.dec) \/ Fails(cur.dec)
    PROVE  eth' \in Nat /\ (budget.priced => budget.free <= eth')
<1>1. MaxEth \in Nat
  BY ScanCycleAssumption
<1>2. CASE Fails(cur.dec)
  BY <1>2 DEF Fails, FundsInv, Priced
<1>3. CASE cur.dec.act = "ENTER" /\ Enters(cur.dec.pool)
  BY <1>3 DEF Enters, FundsInv, Priced
<1>4. ASSUME NEW i, Exits(i)
      PROVE  eth' \in Nat /\ eth <= eth'
  BY <1>1, <1>4 DEF Exits, FundsInv
<1>5. CASE UNCHANGED <<book, eth, wallet>>
  BY <1>5 DEF FundsInv
<1>6. CASE cur.dec.act = "EXIT" /\ Exits(cur.dec.pos)
  BY <1>4, <1>6 DEF FundsInv
<1> QED  BY <1>2, <1>3, <1>5, <1>6 DEF Executes

LEMMA RefreshedBudget ==
    ASSUME FundsInv, NEW ok \in BOOLEAN, RefreshBudget(ok)
    PROVE  /\ budget' \in [known : BOOLEAN, priced : BOOLEAN, free : Nat]
           /\ budget'.priced => budget'.free <= eth
<1>1. PICK n : n = IF ok THEN eth ELSE 0
  OBVIOUS
<1>2. n \in Nat /\ n <= eth
  BY <1>1 DEF FundsInv
<1>3. budget' = IF Live THEN [budget EXCEPT !.known = TRUE, !.free = n] ELSE budget
  BY <1>1 DEF RefreshBudget
<1>4. CASE Live
  <2>1. budget' = [known |-> TRUE, priced |-> budget.priced, free |-> n]
    BY <1>3, <1>4 DEF FundsInv
  <2> QED  BY <1>2, <2>1 DEF FundsInv
<1>5. CASE ~ Live
  BY <1>3, <1>5 DEF FundsInv
<1> QED  BY <1>4, <1>5

LEMMA FundsInit == Init => FundsInv
BY ScanCycleAssumption DEF Init, FundsInv, Priced, Idle

LEMMA FundsStep == Inv /\ FundsInv /\ [Next]_vars => FundsInv'
<1> SUFFICES ASSUME Inv, FundsInv, [Next]_vars
             PROVE  FundsInv'
  OBVIOUS
<1>1. /\ eth \in Nat /\ budget \in [known : BOOLEAN, priced : BOOLEAN, free : Nat]
      /\ budget.priced => budget.free <= eth
  BY DEF FundsInv
<1>2. IsTaken(cur)
  BY DEF Inv, ShapeInv
<1> USE DEF capital, proposals
<1>3. ASSUME UNCHANGED <<eth, budget>>, pc' \notin {"send", "rsend"}
      PROVE  FundsInv'
  BY <1>1, <1>3 DEF FundsInv
<1>4. ASSUME UNCHANGED <<eth, budget, setting, cur, pc>>
      PROVE  FundsInv'
  BY <1>4 DEF FundsInv, Priced, Live
<1>5. CASE Environment
  <2>1. CASE Restart
    BY <1>1, <2>1 DEF Restart, FundsInv
  <2> QED
    BY <1>4, <1>5, <2>1 DEF Environment, Propose, HumanApproves, Expires, Elapses
<1>6. CASE StartCycle
  <2>1. PICK ok \in BOOLEAN : ReadBudget(ok)
    BY <1>6 DEF StartCycle
  <2>2. eth' = eth /\ pc' = "pool"
    BY <1>6 DEF StartCycle
  <2> QED  BY <1>1, <2>1, <2>2 DEF ReadBudget, FundsInv
<1>7. ASSUME NEW p \in Pool, Evaluate(p)
      PROVE  FundsInv'
  <2>1. pc' \in {"pool", "tail"}
    BY <1>7, EvaluatedDecisions DEF Inv
  <2> QED  BY <1>3, <1>7, <2>1 DEF Evaluate
<1>8. ASSUME NEW p \in Pool, EvaluateFails(p) \/ RedeploySkips(p)
      PROVE  FundsInv'
  BY <1>4, <1>8 DEF EvaluateFails, RedeploySkips
<1>9. CASE PoolsDone \/ Overlay \/ RedeployEnds
  BY <1>3, <1>9 DEF PoolsDone, Overlay, RedeployEnds
<1>10. CASE RiskDenies \/ Capacity
  BY <1>3, <1>10 DEF RiskDenies, Capacity, NextDecision
<1>11. CASE Pass
  <2>1. PICK d \in Judged :
            /\ Live /\ d.act = "ENTER" => Funds(d.pool)
            /\ cur' = [cur EXCEPT !.dec = d]
            /\ budget' = IF Live /\ d.act = "ENTER"
                         THEN [budget EXCEPT !.free = @ - Need(d.pool)] ELSE budget
    BY <1>11 DEF Pass
  <2>2. cur'.dec = d
    BY <1>2, <2>1 DEF IsTaken
  <2>3. eth' = eth /\ setting' = setting
    BY <1>11 DEF Pass
  <2>4. CASE Live /\ d.act = "ENTER"
    <3>1. /\ budget' \in [known : BOOLEAN, priced : BOOLEAN, free : Nat]
          /\ budget'.priced = budget.priced
          /\ budget.priced => budget'.free <= eth
          /\ budget.priced /\ d.pool \in Native => budget'.free + 1 <= eth
      BY <2>1, <2>4, ReservedBudget
    <3> QED  BY <1>1, <2>2, <2>3, <3>1 DEF FundsInv, Priced
  <2>5. CASE ~ (Live /\ d.act = "ENTER")
    BY <1>1, <2>1, <2>2, <2>3, <2>5 DEF FundsInv, Priced, Live
  <2> QED  BY <2>4, <2>5
<1>12. CASE Send \/ RedeploySend
  <2>1. /\ pc \in {"send", "rsend"} /\ pc' \in {"final", "rfinal"}
        /\ budget' = budget
        /\ Executes(cur.dec) \/ Fails(cur.dec) \/ eth' = eth
    BY <1>12 DEF Send, RedeploySend, Dispatch
  <2>2. eth' \in Nat /\ (budget.priced => budget.free <= eth')
    BY <1>1, <2>1, SpentFunds
  <2> QED  BY <1>1, <2>1, <2>2 DEF FundsInv
<1>13. CASE Finalize \/ RedeployFinalize
  <2>1. PICK ok \in BOOLEAN : RefreshBudget(ok)
    BY <1>13 DEF Finalize, RedeployFinalize
  <2>2. eth' = eth /\ pc' \notin {"send", "rsend"}
    BY <1>13 DEF Finalize, RedeployFinalize, NextDecision
  <2> QED  BY <1>1, <2>1, <2>2, RefreshedBudget DEF FundsInv
<1>14. ASSUME NEW p \in Pool, RedeployOverlay(p)
       PROVE  FundsInv'
  BY <1>3, <1>14 DEF RedeployOverlay
<1>15. CASE RedeployDenied \/ RedeployUnfunded
  BY <1>3, <1>15 DEF RedeployDenied, RedeployUnfunded
<1>16. CASE RedeployPass
  <2>1. /\ eth' = eth /\ cur' = cur /\ setting' = setting
        /\ Live => Funds(cur.dec.pool)
        /\ budget' = IF Live THEN [budget EXCEPT !.free = @ - Need(cur.dec.pool)]
                             ELSE budget
    BY <1>16 DEF RedeployPass
  <2>2. CASE Live
    <3>1. /\ budget' \in [known : BOOLEAN, priced : BOOLEAN, free : Nat]
          /\ budget'.priced = budget.priced
          /\ budget.priced => budget'.free <= eth
          /\ budget.priced /\ cur.dec.pool \in Native => budget'.free + 1 <= eth
      BY <2>1, <2>2, ReservedBudget
    <3> QED  BY <1>1, <2>1, <3>1 DEF FundsInv, Priced
  <2>3. CASE ~ Live
    BY <1>1, <2>1, <2>3 DEF FundsInv, Priced, Live
  <2> QED  BY <2>2, <2>3
<1>17. CASE UNCHANGED vars
  BY <1>4, <1>17 DEF vars
<1> QED
  BY <1>5, <1>6, <1>7, <1>8, <1>9, <1>10, <1>11, <1>12, <1>13, <1>14, <1>15,
     <1>16, <1>17 DEF Next, Engine

\* In a cycle whose balance and price were read, an entry that spends ETH is
\* sent only while the wallet has some.
THEOREM EntriesAreFunded == Spec => FundedDispatch
<1> DEFINE Funded == Sends /\ Live /\ cur.dec.act = "ENTER" /\ cur.dec.pool \in Native
                         /\ budget.priced
                     => eth > 0
<1>1. Init => Inv /\ FundsInv
  BY QueueInit, ShapeInit, TailInit, FundsInit DEF Inv
<1>2. Inv /\ FundsInv /\ [Next]_vars => (Inv /\ FundsInv)'
  BY QueueStep, ShapeStep, TailStep, UsedStep, FundsStep DEF Inv
<1>3. FundsInv => Funded
  BY DEF FundsInv, Sends, Priced
<1>4. Inv /\ FundsInv /\ [Next]_vars => [Funded]_vars
  BY <1>3
<1> QED  BY <1>1, <1>2, <1>4, PTL DEF Spec, FundedDispatch

-----------------------------------------------------------------------------
(* The list of a pool and the decision in the tail                         *)

Taking == [raw : Decision, dec : Decision, prop : 0 .. MaxId,
           agent : BOOLEAN, done : BOOLEAN, short : BOOLEAN]

\* What a position of pool p may be decided to do.
Ordinary(p) ==
    {d \in Decision : /\ d.act # "ENTER" /\ d.pool = p
                      /\ d.pos \in PositionsOf(p) \cup {NoPos}}

LEMMA OrdinaryInOrder ==
    ASSUME TypeOK, NEW p \in Pool, NEW f \in PositionDecisions(p),
           NEW some \in SUBSET DOMAIN f, IsFiniteSet(some), NEW s \in Opened(some)
    PROVE  InOrder(f, p, s) \in Seq(Ordinary(p))
<1>1. DOMAIN f = PositionsOf(p) /\ PositionsOf(p) \subseteq 1 .. MaxPos
  BY DEF PositionDecisions, PositionsOf, TypeOK
<1>2. \A i \in DOMAIN f : f[i] \in {"HOLD", "REBALANCE", "EXIT"} \cap Act
  BY <1>1 DEF PositionDecisions
<1>3. PICK n \in Nat : n = Cardinality(some)
  BY FS_CardinalityType
<1>4. DOMAIN s = 1 .. n /\ \A i \in 1 .. n : s[i] \in some
  BY <1>3 DEF Opened
<1> DEFINE e(i) == [act |-> f[s[i]], pool |-> p, pos |-> s[i]]
<1>5. MaxPos \in Nat
  BY ScanCycleAssumption
<1>6. \A i \in 1 .. n : e(i) \in Ordinary(p)
  BY <1>1, <1>2, <1>4, <1>5 DEF Ordinary, Decision, NoPos
<1>7. InOrder(f, p, s) = [i \in 1 .. n |-> e(i)]
  BY <1>4 DEF InOrder
<1> HIDE DEF e
<1>8. [i \in 1 .. n |-> e(i)] \in [1 .. n -> Ordinary(p)]
  BY <1>6
<1> QED  BY <1>3, <1>7, <1>8

\* The list of pool p: decisions on its positions, then maybe an entry that the
\* gates allow.
LEMMA EvaluatedList ==
    ASSUME TypeOK, ShapeInv, NEW p \in Pool, Evaluate(p)
    PROVE  /\ raw' \in Seq(Decision)
           /\ \A i \in 1 .. Len(raw') :
                /\ raw'[i].pool = p
                /\ raw'[i].pos \in PositionsOf(p) \cup {NoPos}
                /\ raw'[i].act = "ENTER" => i = Len(raw') /\ EnterAllowed(p)
<1>1. PICK f \in PositionDecisions(p), enter \in BOOLEAN :
        Chosen(p, f, enter) /\ (enter => EnterAllowed(p))
  BY EvaluatedChoice DEF ShapeInv
<1>2. PICK first, rest, s, t :
        /\ first \subseteq DOMAIN f /\ rest \subseteq DOMAIN f
        /\ IsFiniteSet(first) /\ IsFiniteSet(rest)
        /\ s \in Opened(first) /\ t \in Opened(rest)
        /\ raw' \in Listed(p, Decided(f, p, s, t, enter))
  BY <1>1 DEF Chosen
<1>3. PICK S : S = Ordinary(p)
  OBVIOUS
<1>4. InOrder(f, p, s) \in Seq(S) /\ InOrder(f, p, t) \in Seq(S)
  BY <1>2, <1>3, OrdinaryInOrder
<1>5. PICK a : a = InOrder(f, p, s) \o InOrder(f, p, t)
  OBVIOUS
<1>6. a \in Seq(S)
  BY <1>4, <1>5
<1>7. PICK last : last = [act |-> "ENTER", pool |-> p, pos |-> NoPos]
  OBVIOUS
<1>8. PICK none : none = [act |-> "HOLD", pool |-> p, pos |-> NoPos]
  OBVIOUS
<1>9. MaxPos \in Nat /\ {"HOLD", "ENTER"} \subseteq Act
  BY ScanCycleAssumption
<1>10. none \in S /\ last \in Decision
  BY <1>3, <1>7, <1>8, <1>9 DEF Ordinary, Decision, NoPos
<1>11. \A d \in S : /\ d \in Decision /\ d.pool = p /\ d.act # "ENTER"
                    /\ d.pos \in PositionsOf(p) \cup {NoPos}
  BY <1>3 DEF Ordinary
<1>12. \/ raw' \in Seq(S)
       \/ enter /\ raw' = a \o <<last>>
  <2>1. CASE enter
    <3>1. Decided(f, p, s, t, enter) = a \o <<last>>
      BY <1>5, <1>7, <2>1 DEF Decided
    <3>2. a \o <<last>> # <<>>
      BY <1>6, <1>10, <1>11
    <3> QED  BY <1>2, <2>1, <3>1, <3>2 DEF Listed
  <2>2. CASE ~ enter
    <3>1. Decided(f, p, s, t, enter) = a \o <<>>
      BY <1>5, <2>2 DEF Decided
    <3>2. a \o <<>> \in Seq(S)
      BY <1>6
    <3>3. <<>> \in Seq(S) /\ <<none>> \in Seq(S)
      BY <1>10
    <3> QED  BY <1>2, <1>8, <3>1, <3>2, <3>3 DEF Listed
  <2> QED  BY <2>1, <2>2
<1>13. CASE raw' \in Seq(S)
  <2>1. \A i \in 1 .. Len(raw') : raw'[i] \in S
    BY <1>13
  <2>2. raw' \in Seq(Decision)
    BY <1>11, <1>13
  <2> QED  BY <1>11, <2>1, <2>2
<1>14. CASE enter /\ raw' = a \o <<last>>
  <2>1. /\ a \in Seq(Decision) /\ Len(raw') = Len(a) + 1 /\ raw'[Len(a) + 1] = last
        /\ \A i \in 1 .. Len(a) : raw'[i] = a[i] /\ a[i] \in S
    BY <1>6, <1>10, <1>11, <1>14
  <2>2. raw' \in Seq(Decision)
    BY <1>10, <1>14, <2>1
  <2>3. Len(a) \in Nat /\ \A i \in 1 .. Len(raw') : i \in 1 .. Len(a) \/ i = Len(a) + 1
    BY <1>6, <2>1
  <2> QED  BY <1>1, <1>7, <1>11, <1>14, <2>1, <2>2, <2>3
<1> QED  BY <1>12, <1>13, <1>14

-----------------------------------------------------------------------------
(* The types                                                               *)

ProposalTypes ==
    /\ queue \subseteq [id : Id, pool : Pool, act : Act, approved : BOOLEAN,
                        live : BOOLEAN]
    /\ nextId \in 1 .. MaxId + 1
    /\ endorsed \subseteq Id
    /\ used \subseteq Id

DecisionTypes ==
    /\ raw \in Seq(Decision)
    /\ cur \in Taking

\* The wallet and what the engine knows of it.
CapitalTypes ==
    /\ setting \in Setting
    /\ eth \in 0 .. MaxEth
    /\ book \subseteq [id : 1 .. MaxPos, pool : Pool, own : BOOLEAN]
    /\ budget \in [known : BOOLEAN, priced : BOOLEAN, free : 0 .. MaxEth]
    /\ blocked \in BOOLEAN
    /\ walletRead \in BOOLEAN
    /\ wallet \in WalletState

CycleTypes ==
    /\ entryBackoff \subseteq Pool
    /\ cooling \subseteq Pool
    /\ advisor \subseteq Pool
    /\ pc \in {"idle", "pool", "tail", "gate", "send", "final",
               "redeploy", "rgate", "rsend", "rfinal"}
    /\ todo \subseteq Pool
    /\ cands \subseteq Pool
    /\ exited \subseteq Pool
    /\ cycles \in 0 .. MaxCycles
    /\ restarts \in 0 .. MaxRestarts

LEMMA TypeParts ==
    TypeOK <=> ProposalTypes /\ DecisionTypes /\ CapitalTypes /\ CycleTypes
BY DEF TypeOK, ProposalTypes, DecisionTypes, CapitalTypes, CycleTypes, Taking

LEMMA IdleTyped == Idle \in Taking /\ AnyPool \in Pool
<1>1. AnyPool \in Pool
  BY ScanCycleAssumption DEF AnyPool
<1> QED  BY <1>1, ScanCycleAssumption DEF Idle, Taking, Decision, NoPos, NoId

LEMMA TypeInit == Init => TypeOK
<1> SUFFICES ASSUME Init
             PROVE  TypeOK
  OBVIOUS
<1>1. MaxEth \in Nat /\ MaxId \in Nat /\ MaxCycles \in Nat /\ MaxRestarts \in Nat
  BY ScanCycleAssumption
<1>2. book \subseteq [id : 1 .. MaxPos, pool : Pool, own : BOOLEAN]
  BY ScanCycleAssumption DEF Init
<1>3. ProposalTypes
  BY <1>1 DEF Init, ProposalTypes
<1>4. DecisionTypes
  BY IdleTyped DEF Init, DecisionTypes
<1>5. CapitalTypes
  <2>1. budget \in [known : BOOLEAN, priced : BOOLEAN, free : 0 .. MaxEth]
    BY <1>1 DEF Init
  <2>2. eth \in 0 .. MaxEth
    BY <1>1 DEF Init
  <2> QED  BY <1>2, <2>1, <2>2 DEF Init, CapitalTypes, WalletState
<1>6. CycleTypes
  BY <1>1 DEF Init, CycleTypes
<1> QED  BY <1>3, <1>4, <1>5, <1>6, TypeParts

LEMMA ProposalTypesStep ==
    ASSUME TypeOK, Inv, Inv', [Next]_vars
    PROVE  ProposalTypes'
<1>1. MaxId \in Nat /\ nextId \in 1 .. MaxId + 1 /\ endorsed \subseteq Id
  BY ScanCycleAssumption DEF TypeOK
<1>2. nextId' \in 1 .. MaxId + 1
  <2>1. ASSUME NEW p \in Pool, NEW a \in Advice, Propose(p, a)
        PROVE  nextId' \in 1 .. MaxId + 1
    BY <1>1, <2>1 DEF Propose
  <2>2. CASE Engine
    BY <1>1, <2>2, EngineFilters
  <2>3. \/ \E p \in Pool, a \in Advice : Propose(p, a)
        \/ Engine
        \/ nextId' = nextId
    BY DEF Next, Environment, HumanApproves, Expires, Elapses, Restart, vars, proposals
  <2> QED  BY <1>1, <2>1, <2>2, <2>3
<1>3. \A i \in 1 .. nextId' - 1 : i \in Id
  <2>1. PICK n \in 1 .. MaxId + 1 : n = nextId'
    BY <1>2
  <2>2. \A i \in 1 .. n - 1 : i \in Id
    BY <1>1 DEF Id
  <2> QED  BY <2>1, <2>2
<1>4. queue' \subseteq [id : Id, pool : Pool, act : Act, approved : BOOLEAN,
                        live : BOOLEAN]
  <2>1. \A x \in queue' : IsProposal(x) /\ x.id \in 1 .. nextId' - 1
    BY DEF Inv, QueueInv, WellFormed
  <2> QED  BY <1>3, <2>1 DEF IsProposal
<1>5. used' \subseteq Id
  BY <1>3 DEF Inv, UsedInv
<1>6. endorsed' \subseteq Id
  <2>1. ASSUME NEW x \in queue, HumanApproves(x)
        PROVE  endorsed' \subseteq Id
    <3>1. x.id \in Id
      BY DEF TypeOK
    <3> QED  BY <1>1, <2>1, <3>1 DEF HumanApproves
  <2>2. CASE Engine
    BY <1>1, <2>2, EngineFilters
  <2>3. CASE endorsed' = endorsed
    BY <1>1, <2>3
  <2> QED
    BY <2>1, <2>2, <2>3 DEF Next, Environment, Propose, Expires, Elapses,
                            Restart, vars, proposals
<1> QED  BY <1>2, <1>4, <1>5, <1>6 DEF ProposalTypes

\* What the overlay takes into the tail for r.
LEMMA TakenTyped ==
    ASSUME TypeOK, Inv, NEW r \in Decision, Takes(r)
    PROVE  /\ cur' \in Taking /\ cur'.done = FALSE
           /\ cur'.dec.pool = r.pool
           /\ cur'.dec.act = "ENTER" => r.act = "ENTER"
           /\ cur'.dec.pos \in {r.pos, NoPos} \cup PositionsOf(r.pool)
<1>1. PICK d, i : \E a \in BOOLEAN : cur' = Taken(r, d, i, a) /\ Stands(r, d, i)
  BY DEF Takes
<1>2. PICK a \in BOOLEAN : cur' = Taken(r, d, i, a)
  BY <1>1
<1>3. /\ IsDecision(d) /\ d.pool = r.pool /\ d.act \in {r.act} \cup Act
      /\ d.act = "ENTER" => r.act = "ENTER"
      /\ d.pos \in {r.pos, NoPos} \cup PositionsOf(r.pool)
      /\ Backed(i, r.pool)
  BY <1>1 DEF Stands
<1>4. MaxPos \in Nat /\ MaxId \in Nat
  BY ScanCycleAssumption
<1>5. d.pos \in 0 .. MaxPos
  BY <1>3, <1>4 DEF TypeOK, Decision, NoPos, PositionsOf
<1>6. d \in Decision
  BY <1>3, <1>5 DEF IsDecision, Decision
<1>7. i \in 0 .. MaxId
  <2>1. i \in 0 .. nextId - 1
    BY <1>3, BackedProposal DEF Inv
  <2> QED  BY <1>4, <2>1 DEF TypeOK
<1> QED  BY <1>2, <1>3, <1>6, <1>7 DEF Taken, Taking

\* What supervised mode and the stops make of the decision.
LEMMA JudgedTyped ==
    ASSUME TypeOK, NEW d \in Judged
    PROVE  /\ d \in Decision /\ d.pool = cur.dec.pool
           /\ d.act = "ENTER" => cur.dec.act = "ENTER"
           /\ d.pos \in {cur.dec.pos} \cup PositionsOf(cur.dec.pool)
<1>1. cur.dec \in Decision /\ {"HOLD", "EXIT"} \subseteq Act /\ MaxPos \in Nat
  BY ScanCycleAssumption DEF TypeOK
<1>2. PICK c : c = SupervisedHold(cur)
  OBVIOUS
<1>3. /\ c \in Decision /\ c.pool = cur.dec.pool /\ c.pos = cur.dec.pos
      /\ c.act = "ENTER" => cur.dec.act = "ENTER"
  BY <1>1, <1>2 DEF SupervisedHold, Decision
<1>4. d \in Stops(c)
  BY <1>2 DEF Judged
<1>5. CASE d = c
  BY <1>3, <1>5
<1>6. CASE d # c
  <2>1. PICK i \in First(c.pool) : d = [c EXCEPT !.act = "EXIT", !.pos = i]
    BY <1>4, <1>6 DEF Stops
  <2>2. i \in PositionsOf(c.pool) /\ i \in 0 .. MaxPos
    BY <1>1 DEF First, PositionsOf, TypeOK
  <2> QED  BY <1>1, <1>3, <2>1, <2>2 DEF Decision
<1> QED  BY <1>5, <1>6

LEMMA SentTyped ==
    ASSUME TypeOK, NEW done \in BOOLEAN, NEW short \in BOOLEAN, Dispatch(done, short)
    PROVE  cur' \in Taking /\ cur'.dec = cur.dec /\ cur'.done = done
BY DEF TypeOK, Dispatch, Taking

LEMMA NextTyped ==
    ASSUME TypeOK, raw # <<>>, NextDecision
    PROVE  /\ raw' \in Seq(Decision) /\ cur' = Idle
           /\ pc' = IF raw' = <<>> THEN "pool" ELSE "tail"
           /\ Len(raw') = Len(raw) - 1
           /\ \A i \in 1 .. Len(raw') : raw'[i] = raw[i + 1] /\ i + 1 \in 2 .. Len(raw)
<1>1. raw \in Seq(Decision)
  BY DEF TypeOK
<1> QED  BY <1>1 DEF NextDecision

LEMMA DecisionTypesStep ==
    ASSUME TypeOK, Inv, [Next]_vars
    PROVE  DecisionTypes'
<1>1. /\ raw \in Seq(Decision) /\ cur \in Taking
      /\ Idle \in Taking /\ <<>> \in Seq(Decision)
      /\ QueueInv /\ ShapeInv
      /\ pc \in {"tail", "gate", "send", "final"} => raw # <<>>
  BY IdleTyped DEF TypeOK, Taking, Inv, ShapeInv
<1>2. ASSUME raw' = raw, cur' \in {cur, Idle}
      PROVE  DecisionTypes'
  BY <1>1, <1>2 DEF DecisionTypes
<1>3. CASE Environment
  BY <1>1, <1>2, <1>3
     DEF Environment, Propose, HumanApproves, Expires, Elapses, Restart, DecisionTypes
<1>4. ASSUME NEW p \in Pool, Evaluate(p)
      PROVE  DecisionTypes'
  BY <1>1, <1>4, EvaluatedList DEF Evaluate, DecisionTypes
<1>5. CASE Overlay
  <2>1. Head(raw) \in Decision /\ Takes(Head(raw)) /\ raw' = raw
    BY <1>1, <1>5, OverlayTakes DEF Overlay
  <2> QED  BY <1>1, <2>1, TakenTyped DEF DecisionTypes
<1>6. CASE RiskDenies \/ Capacity \/ Finalize
  <2>1. NextDecision /\ raw # <<>>
    BY <1>1, <1>6 DEF RiskDenies, Capacity, Finalize
  <2> QED  BY <1>1, <2>1, NextTyped DEF DecisionTypes
<1>7. CASE Pass
  <2>1. PICK d \in Judged : cur' = [cur EXCEPT !.dec = d]
    BY <1>7 DEF Pass
  <2>2. d \in Decision
    BY JudgedTyped
  <2> QED  BY <1>1, <1>7, <2>1, <2>2 DEF Pass, DecisionTypes, Taking
<1>8. CASE Send \/ RedeploySend
  <2>1. PICK done \in BOOLEAN, short \in BOOLEAN : Dispatch(done, short)
    BY <1>8 DEF Send, RedeploySend
  <2>2. raw' = raw
    BY <2>1 DEF Dispatch
  <2> QED  BY <1>1, <2>1, <2>2, SentTyped DEF DecisionTypes
<1>9. ASSUME NEW p \in Pool, RedeployOverlay(p)
      PROVE  DecisionTypes'
  <2>1. RedeployCandidate(p) \in Decision
    BY ScanCycleAssumption DEF RedeployCandidate, Decision, NoPos
  <2>2. (cur' = Idle \/ Takes(RedeployCandidate(p))) /\ raw' = raw
    BY <1>1, <1>9, RedeployTakes DEF RedeployOverlay
  <2>3. cur' \in Taking
    BY <1>1, <2>1, <2>2, TakenTyped
  <2> QED  BY <1>1, <2>2, <2>3 DEF DecisionTypes
<1>10. CASE UNCHANGED vars
  BY <1>2, <1>10 DEF vars
<1> QED
  BY <1>2, <1>3, <1>4, <1>5, <1>6, <1>7, <1>8, <1>9, <1>10
     DEF Next, Engine, StartCycle, EvaluateFails, PoolsDone, RedeployEnds, RedeploySkips,
         RedeployDenied, RedeployUnfunded, RedeployPass, RedeployFinalize

LEMMA ReadTypes ==
    ASSUME CapitalTypes
    PROVE  /\ \A ok \in BOOLEAN : ReadWallet(ok) =>
                 walletRead' \in BOOLEAN /\ wallet' \in WalletState
           /\ \A ok \in BOOLEAN : ReadBudget(ok) =>
                 budget' \in [known : BOOLEAN, priced : BOOLEAN, free : 0 .. MaxEth]
           /\ \A ok \in BOOLEAN : Reread(ok) =>
                 wallet' \in WalletState /\ blocked' \in BOOLEAN
           /\ \A ok \in BOOLEAN : RefreshBudget(ok) =>
                 budget' \in [known : BOOLEAN, priced : BOOLEAN, free : 0 .. MaxEth]
<1>1. MaxEth \in Nat
  BY ScanCycleAssumption
<1>2. eth \in 0 .. MaxEth /\ 0 \in 0 .. MaxEth
  BY <1>1 DEF CapitalTypes
<1>3. ASSUME NEW ok \in BOOLEAN, ReadWallet(ok)
      PROVE  walletRead' \in BOOLEAN /\ wallet' \in WalletState
  BY <1>3 DEF ReadWallet, CapitalTypes, WalletState
<1>4. ASSUME NEW ok \in BOOLEAN, ReadBudget(ok)
      PROVE  budget' \in [known : BOOLEAN, priced : BOOLEAN, free : 0 .. MaxEth]
  BY <1>2, <1>4 DEF ReadBudget
<1>5. ASSUME NEW ok \in BOOLEAN, Reread(ok)
      PROVE  wallet' \in WalletState /\ blocked' \in BOOLEAN
  BY <1>5 DEF Reread, CapitalTypes, WalletState
<1>6. ASSUME NEW ok \in BOOLEAN, RefreshBudget(ok)
      PROVE  budget' \in [known : BOOLEAN, priced : BOOLEAN, free : 0 .. MaxEth]
  <2>1. PICK n \in 0 .. MaxEth : n = IF ok THEN eth ELSE 0
    BY <1>2
  <2>2. budget' = IF Live THEN [budget EXCEPT !.known = TRUE, !.free = n] ELSE budget
    BY <1>6, <2>1 DEF RefreshBudget
  <2> QED  BY <2>2 DEF CapitalTypes
<1> QED  BY <1>3, <1>4, <1>5, <1>6

\* What sending a decision leaves in the wallet and in the book.
LEMMA SentCapital ==
    ASSUME CapitalTypes, NEW d \in Decision,
           Executes(d) \/ Fails(d) \/ UNCHANGED <<book, eth, wallet>>
    PROVE  /\ eth' \in 0 .. MaxEth /\ wallet' \in WalletState
           /\ book' \subseteq [id : 1 .. MaxPos, pool : Pool, own : BOOLEAN]
<1>1. /\ MaxEth \in Nat /\ eth \in 0 .. MaxEth /\ d.pool \in Pool
      /\ book \subseteq [id : 1 .. MaxPos, pool : Pool, own : BOOLEAN]
      /\ wallet \in WalletState
  BY ScanCycleAssumption DEF CapitalTypes, Decision
<1>2. CASE Enters(d.pool)
  <2>1. \A i \in FreshPos : [id |-> i, pool |-> d.pool, own |-> TRUE]
                                  \in [id : 1 .. MaxPos, pool : Pool, own : BOOLEAN]
    BY <1>1 DEF FreshPos
  <2>2. book' \subseteq [id : 1 .. MaxPos, pool : Pool, own : BOOLEAN]
    BY <1>1, <1>2, <2>1 DEF Enters
  <2>3. eth' \in 0 .. MaxEth /\ wallet' \in WalletState
    BY <1>1, <1>2 DEF Enters, WalletState
  <2> QED  BY <2>2, <2>3
<1>3. ASSUME NEW i, Exits(i)
      PROVE  /\ eth' \in 0 .. MaxEth /\ wallet' \in WalletState
             /\ book' \subseteq [id : 1 .. MaxPos, pool : Pool, own : BOOLEAN]
  BY <1>1, <1>3 DEF Exits
<1>4. CASE Fails(d)
  BY <1>1, <1>4 DEF Fails
<1>5. CASE UNCHANGED <<book, eth, wallet>>
  BY <1>1, <1>5
<1> QED  BY <1>2, <1>3, <1>4, <1>5 DEF Executes

LEMMA CapitalTypesStep ==
    ASSUME TypeOK, Inv, FundsInv, [Next]_vars
    PROVE  CapitalTypes'
<1>1. CapitalTypes /\ cur.dec \in Decision /\ MaxEth \in Nat
  BY TypeParts, ScanCycleAssumption DEF TypeOK
<1> USE DEF capital
<1>2. ASSUME UNCHANGED <<setting, capital>>
      PROVE  CapitalTypes'
  BY <1>1, <1>2 DEF CapitalTypes
<1>3. CASE Restart
  <2>1. budget' \in [known : BOOLEAN, priced : BOOLEAN, free : 0 .. MaxEth]
    BY <1>1, <1>3 DEF Restart
  <2> QED  BY <1>1, <1>3, <2>1 DEF Restart, CapitalTypes, WalletState
<1>4. CASE StartCycle
  BY <1>1, <1>4, ReadTypes DEF StartCycle, CapitalTypes
<1>5. CASE Pass
  <2>1. PICK d \in Judged :
            /\ Live /\ d.act = "ENTER" => Funds(d.pool)
            /\ budget' = IF Live /\ d.act = "ENTER"
                         THEN [budget EXCEPT !.free = @ - Need(d.pool)] ELSE budget
    BY <1>5 DEF Pass
  <2>2. budget' \in [known : BOOLEAN, priced : BOOLEAN, free : 0 .. MaxEth]
    BY <1>1, <2>1 DEF CapitalTypes, Funds, Need
  <2> QED  BY <1>1, <1>5, <2>2 DEF Pass, CapitalTypes
<1>6. CASE Send \/ RedeploySend
  <2>1. /\ Executes(cur.dec) \/ Fails(cur.dec) \/ UNCHANGED <<book, eth, wallet>>
        /\ UNCHANGED <<setting, budget, blocked, walletRead>>
    BY <1>6 DEF Send, RedeploySend, Dispatch
  <2> QED  BY <1>1, <2>1, SentCapital DEF CapitalTypes
<1>7. CASE Finalize \/ RedeployFinalize
  <2>1. /\ \E ok \in BOOLEAN : Reread(ok)
        /\ \E ok \in BOOLEAN : RefreshBudget(ok)
        /\ UNCHANGED <<setting, eth, book, walletRead>>
    BY <1>7 DEF Finalize, RedeployFinalize
  <2> QED  BY <1>1, <2>1, ReadTypes DEF CapitalTypes
<1>8. CASE RedeployPass
  <2>1. budget' \in [known : BOOLEAN, priced : BOOLEAN, free : 0 .. MaxEth]
    BY <1>1, <1>8 DEF RedeployPass, CapitalTypes, Funds, Need
  <2> QED  BY <1>1, <1>8, <2>1 DEF RedeployPass, CapitalTypes
<1>9. CASE UNCHANGED vars
  BY <1>2, <1>9 DEF vars
<1> QED
  BY <1>2, <1>3, <1>4, <1>5, <1>6, <1>7, <1>8, <1>9
     DEF Next, Environment, Propose, HumanApproves, Expires, Elapses, Engine, Evaluate,
         EvaluateFails, PoolsDone, Overlay, RiskDenies, Capacity, RedeployEnds,
         RedeploySkips, RedeployOverlay, RedeployDenied, RedeployUnfunded

LEMMA CycleTypesStep ==
    ASSUME TypeOK, Inv, [Next]_vars
    PROVE  CycleTypes'
<1>1. /\ CycleTypes /\ cur.dec \in Decision /\ cur.dec.pool \in Pool
      /\ MaxCycles \in Nat /\ MaxRestarts \in Nat /\ QueueInv /\ ShapeInv
  BY TypeParts, ScanCycleAssumption DEF TypeOK, Decision, Inv
<1>2. CASE Environment
  <2>1. ASSUME NEW p \in Pool, Elapses(p)
        PROVE  CycleTypes'
    BY <1>1, <2>1 DEF Elapses, CycleTypes
  <2>2. CASE Restart
    BY <1>1, <2>2 DEF Restart, CycleTypes
  <2> QED
    BY <1>1, <1>2, <2>1, <2>2
       DEF Environment, Propose, HumanApproves, Expires, CycleTypes
<1>3. CASE StartCycle
  BY <1>1, <1>3 DEF StartCycle, CycleTypes
<1>4. ASSUME NEW p \in Pool, Evaluate(p)
      PROVE  CycleTypes'
  BY <1>1, <1>4 DEF Evaluate, CycleTypes
<1>5. ASSUME NEW p \in Pool, EvaluateFails(p) \/ RedeploySkips(p)
      PROVE  CycleTypes'
  BY <1>1, <1>5 DEF EvaluateFails, RedeploySkips, CycleTypes
<1>6. CASE PoolsDone \/ RedeployEnds
  BY <1>1, <1>6 DEF PoolsDone, RedeployEnds, CycleTypes
<1>7. CASE Overlay
  <2>1. Head(raw).pool \in Pool
    <3>1. raw \in Seq(Decision) /\ raw # <<>>
      BY <1>1, <1>7 DEF Overlay, ShapeInv, TypeOK
    <3>2. Head(raw) \in Decision
      BY <3>1
    <3> QED  BY <3>2 DEF Decision
  <2>2. ASSUME NEW r, NEW a, NEW id, r.pool \in Pool, Accepts(r, a, id) \/ Refuses(r, id)
        PROVE  advisor' \subseteq Pool
    BY <1>1, <2>2 DEF Accepts, Refuses, CycleTypes
  <2>3. advisor' \subseteq Pool
    BY <1>1, <1>7, <2>1, <2>2 DEF Overlay, NoOverlay, Veto, Asks, CycleTypes
  <2> QED  BY <1>1, <1>7, <2>3 DEF Overlay, CycleTypes
<1>8. CASE RiskDenies \/ Capacity
  BY <1>1, <1>8 DEF RiskDenies, Capacity, NextDecision, DeniedProposal, Forgive, CycleTypes
<1>9. CASE Pass
  <2>1. \A d \in Judged : d.pool \in Pool
    BY JudgedTyped DEF Decision
  <2>2. cooling' \subseteq Pool
    BY <1>1, <1>9, <2>1 DEF Pass, CycleTypes
  <2> QED  BY <1>1, <1>9, <2>2 DEF Pass, Forgive, CycleTypes
<1>10. CASE Send \/ RedeploySend
  BY <1>1, <1>10 DEF Send, RedeploySend, Dispatch, CycleTypes
<1>11. CASE Finalize \/ RedeployFinalize
  BY <1>1, <1>11 DEF Finalize, RedeployFinalize, NextDecision, EntryOutcome, CycleTypes
<1>12. ASSUME NEW p \in Pool, RedeployOverlay(p)
       PROVE  CycleTypes'
  <2>1. RedeployCandidate(p).pool = p
    BY DEF RedeployCandidate
  <2>2. ASSUME NEW r, NEW a, NEW id, r.pool = p, RedeployAccepts(r, a, id) \/ Refuses(r, id)
        PROVE  advisor' \subseteq Pool
    BY <1>1, <2>2 DEF RedeployAccepts, Refuses, CycleTypes
  <2>3. advisor' \subseteq Pool
    BY <1>1, <1>12, <2>1, <2>2 DEF RedeployOverlay, CycleTypes
  <2> QED  BY <1>1, <1>12, <2>3 DEF RedeployOverlay, CycleTypes
<1>13. CASE RedeployDenied \/ RedeployUnfunded
  BY <1>1, <1>13 DEF RedeployDenied, RedeployUnfunded, DeniedProposal, Forgive, CycleTypes
<1>14. CASE RedeployPass
  BY <1>1, <1>14 DEF RedeployPass, Forgive, CycleTypes
<1>15. CASE UNCHANGED vars
  BY <1>1, <1>15 DEF vars, CycleTypes
<1> QED
  BY <1>2, <1>3, <1>4, <1>5, <1>6, <1>7, <1>8, <1>9, <1>10, <1>11, <1>12, <1>13,
     <1>14, <1>15 DEF Next, Engine

\* Everything known so far.
BaseInv == Inv /\ FundsInv /\ TypeOK

LEMMA BaseInit == Init => BaseInv
BY QueueInit, ShapeInit, TailInit, FundsInit, TypeInit DEF BaseInv, Inv

LEMMA BaseStep == BaseInv /\ [Next]_vars => BaseInv'
<1> SUFFICES ASSUME BaseInv, [Next]_vars
             PROVE  BaseInv'
  OBVIOUS
<1>1. Inv /\ FundsInv /\ TypeOK
  BY DEF BaseInv
<1>2. Inv' /\ FundsInv'
  BY <1>1, QueueStep, ShapeStep, TailStep, UsedStep, FundsStep DEF Inv
<1>3. ProposalTypes' /\ DecisionTypes' /\ CapitalTypes' /\ CycleTypes'
  BY <1>1, <1>2, ProposalTypesStep, DecisionTypesStep, CapitalTypesStep, CycleTypesStep
<1>4. TypeOK'
  BY <1>3 DEF TypeOK, ProposalTypes, DecisionTypes, CapitalTypes, CycleTypes, Taking
<1> QED  BY <1>1, <1>2, <1>4 DEF BaseInv

\* Every variable keeps its type, the ids of the proposals among them.
THEOREM TypesHold == Spec => []TypeOK
<1>1. BaseInv => TypeOK
  BY DEF BaseInv
<1> QED  BY <1>1, BaseInit, BaseStep, PTL DEF Spec

-----------------------------------------------------------------------------
(* The decisions still to be sent                                          *)

\* Those of the list, but for the one whose execution is being booked.
Pending ==
    IF pc = "final" THEN 2 .. Len(raw)
    ELSE IF pc \in {"tail", "gate", "send"} THEN 1 .. Len(raw) ELSE {}

\* The list is about one pool and an entry comes last; so is the decision at
\* hand, which is an entry only if it is that one.
ListInv ==
    /\ \A i \in 1 .. Len(raw) : raw[i].pool = raw[1].pool
    /\ \A i \in 1 .. Len(raw) : raw[i].act = "ENTER" => i = Len(raw)
    /\ pc \in {"gate", "send", "final"} =>
          /\ cur.dec.pool = raw[1].pool
          /\ cur.dec.act = "ENTER" => raw[1].act = "ENTER"

\* On to the next decision, nothing bought or sold.
Advances == pc \in {"gate", "final"} /\ NextDecision /\ book' = book

\* Out of the tail and of the redeployment.
Ends ==
    /\ pc' \in {"idle", "pool", "redeploy"}
    /\ raw' \in {raw, <<>>} /\ book' = book

\* How a step moves the list, the decision at hand and the positions.
Moves ==
    \/ UNCHANGED <<pc, raw, cur, book>>
    \/ Ends
    \/ Advances
    \/ \E p \in Pool : Evaluate(p)
    \/ Overlay
    \/ Pass
    \/ Send
    \/ \E p \in Pool : RedeployOverlay(p)
    \/ RedeployPass
    \/ RedeploySend

LEMMA EveryStepMoves ==
    ASSUME [Next]_vars
    PROVE  Moves
<1> USE DEF Moves, Ends, Advances, capital
<1>1. CASE Environment
  BY <1>1 DEF Environment, Propose, HumanApproves, Expires, Elapses, Restart
<1>2. CASE StartCycle \/ PoolsDone \/ RedeployEnds
  BY <1>2 DEF StartCycle, PoolsDone, RedeployEnds
<1>3. ASSUME NEW p \in Pool, EvaluateFails(p) \/ RedeploySkips(p)
      PROVE  Moves
  BY <1>3 DEF EvaluateFails, RedeploySkips
<1>4. CASE RiskDenies \/ Capacity \/ Finalize
  BY <1>4 DEF RiskDenies, Capacity, Finalize
<1>5. CASE RedeployDenied \/ RedeployUnfunded \/ RedeployFinalize
  BY <1>5 DEF RedeployDenied, RedeployUnfunded, RedeployFinalize
<1>6. CASE UNCHANGED vars
  BY <1>6 DEF vars
<1> QED  BY <1>1, <1>2, <1>3, <1>4, <1>5, <1>6 DEF Next, Engine

\* The decisions ahead are those that were, one place nearer.
LEMMA AdvancedList ==
    ASSUME BaseInv, Advances
    PROVE  /\ cur' = Idle /\ pc' \in {"pool", "tail"}
           /\ raw' \in Seq(Decision) /\ Len(raw') = Len(raw) - 1 /\ Len(raw) \in Nat
           /\ \A i \in 1 .. Len(raw') : raw'[i] = raw[i + 1] /\ i + 1 \in 2 .. Len(raw)
           /\ \A i \in Pending' : i + 1 \in Pending /\ raw'[i] = raw[i + 1]
<1>1. /\ TypeOK /\ raw # <<>> /\ raw \in Seq(Decision) /\ NextDecision
      /\ pc \in {"gate", "final"}
  BY DEF BaseInv, Inv, ShapeInv, Advances, TypeOK
<1>2. /\ raw' \in Seq(Decision) /\ cur' = Idle
      /\ pc' = IF raw' = <<>> THEN "pool" ELSE "tail"
      /\ Len(raw') = Len(raw) - 1
      /\ \A i \in 1 .. Len(raw') : raw'[i] = raw[i + 1] /\ i + 1 \in 2 .. Len(raw)
  BY <1>1, NextTyped
<1>3. Len(raw) \in Nat
  BY <1>1
<1>4. \A i \in Pending' : i \in 1 .. Len(raw')
  BY <1>2 DEF Pending
<1>5. \A i \in 2 .. Len(raw) : i \in Pending
  BY <1>1, <1>3 DEF Pending
<1> QED  BY <1>2, <1>3, <1>4, <1>5

LEMMA ListInit == Init => ListInv
<1> SUFFICES ASSUME Init
             PROVE  ListInv
  OBVIOUS
<1>1. 1 .. Len(raw) = {} /\ pc = "idle"
  BY DEF Init
<1> QED  BY <1>1 DEF ListInv

LEMMA ListStep == BaseInv /\ ListInv /\ [Next]_vars => ListInv'
<1> SUFFICES ASSUME BaseInv, ListInv, [Next]_vars
             PROVE  ListInv'
  OBVIOUS
<1>1. /\ TypeOK /\ Inv /\ QueueInv /\ ShapeInv /\ raw \in Seq(Decision) /\ IsTaken(cur)
      /\ pc \in {"tail", "gate", "send", "final"} => raw # <<>>
  BY DEF BaseInv, Inv, ShapeInv, TypeOK
<1>2. /\ \A i \in 1 .. Len(raw) : raw[i].pool = raw[1].pool
      /\ \A i \in 1 .. Len(raw) : raw[i].act = "ENTER" => i = Len(raw)
      /\ pc \in {"gate", "send", "final"} =>
            /\ cur.dec.pool = raw[1].pool
            /\ cur.dec.act = "ENTER" => raw[1].act = "ENTER"
  BY DEF ListInv
<1>3. ASSUME raw' = raw, pc' \notin {"gate", "send", "final"}
      PROVE  ListInv'
  BY <1>2, <1>3 DEF ListInv
<1>4. CASE UNCHANGED <<pc, raw, cur, book>>
  BY <1>2, <1>4 DEF ListInv
<1>5. CASE Ends
  <2>1. CASE raw' = <<>>
    <3>1. 1 .. Len(raw') = {} /\ pc' \notin {"gate", "send", "final"}
      BY <1>5, <2>1 DEF Ends
    <3> QED  BY <3>1 DEF ListInv
  <2> QED  BY <1>3, <1>5, <2>1 DEF Ends
<1>6. CASE Advances
  <2>1. /\ pc' \in {"pool", "tail"} /\ Len(raw') = Len(raw) - 1 /\ Len(raw) \in Nat
        /\ \A i \in 1 .. Len(raw') : raw'[i] = raw[i + 1] /\ i + 1 \in 2 .. Len(raw)
    BY <1>6, AdvancedList
  <2>2. \A i \in 1 .. Len(raw') : raw'[i].pool = raw[1].pool
    BY <1>2, <2>1
  <2>3. \A i \in 1 .. Len(raw') : raw'[i].act = "ENTER" => i = Len(raw')
    BY <1>2, <2>1
  <2>4. \A i \in 1 .. Len(raw') : 1 \in 1 .. Len(raw')
    BY <2>1
  <2> QED  BY <2>1, <2>2, <2>3, <2>4 DEF ListInv
<1>7. ASSUME NEW p \in Pool, Evaluate(p)
      PROVE  ListInv'
  <2>1. PICK r : r = raw'
    OBVIOUS
  <2>2. /\ r \in Seq(Decision)
        /\ \A i \in 1 .. Len(r) : r[i].pool = p
        /\ \A i \in 1 .. Len(r) : r[i].act = "ENTER" => i = Len(r)
    BY <1>1, <1>7, <2>1, EvaluatedList
  <2>3. PICK n \in Nat : n = Len(r)
    BY <2>2
  <2>4. \A i \in 1 .. Len(r) : r[i].pool = r[1].pool
    BY <2>2, <2>3
  <2>5. pc' \in {"pool", "tail"}
    BY <1>7 DEF Evaluate
  <2> QED  BY <2>1, <2>2, <2>4, <2>5 DEF ListInv
<1>8. CASE Overlay
  <2>1. Head(raw) = raw[1] /\ raw[1] \in Decision
    BY <1>1, <1>8 DEF Overlay
  <2>2. Takes(raw[1])
    BY <1>1, <1>8, <2>1, OverlayTakes
  <2>3. cur'.dec.pool = raw[1].pool /\ (cur'.dec.act = "ENTER" => raw[1].act = "ENTER")
    BY <1>1, <2>1, <2>2, TakenTyped
  <2> QED  BY <1>2, <1>8, <2>3 DEF Overlay, ListInv
<1>9. CASE Pass
  <2>1. PICK d \in Judged : cur' = [cur EXCEPT !.dec = d]
    BY <1>9 DEF Pass
  <2>2. cur'.dec = d
    BY <1>1, <2>1 DEF IsTaken
  <2>3. d.pool = cur.dec.pool /\ (d.act = "ENTER" => cur.dec.act = "ENTER")
    BY <1>1, JudgedTyped
  <2> QED  BY <1>2, <1>9, <2>2, <2>3 DEF Pass, ListInv
<1>10. CASE Send
  <2>1. PICK done \in BOOLEAN, short \in BOOLEAN : Dispatch(done, short)
    BY <1>10 DEF Send
  <2>2. cur'.dec = cur.dec /\ raw' = raw
    BY <1>1, <2>1, SentShape DEF Dispatch
  <2> QED  BY <1>2, <1>10, <2>2 DEF Send, ListInv
<1>11. CASE RedeploySend
  BY <1>3, <1>11 DEF RedeploySend, Dispatch
<1>12. ASSUME NEW p \in Pool, RedeployOverlay(p)
       PROVE  ListInv'
  BY <1>3, <1>12 DEF RedeployOverlay
<1>13. CASE RedeployPass
  BY <1>3, <1>13 DEF RedeployPass
<1> QED
  BY <1>4, <1>5, <1>6, <1>7, <1>8, <1>9, <1>10, <1>11, <1>12, <1>13,
     EveryStepMoves DEF Moves

-----------------------------------------------------------------------------
(* The cap on the positions of a pool                                      *)

OwnIn(b, p) == {x.id : x \in {y \in b : y.pool = p /\ y.own}}

LEMMA OwnFinite ==
    ASSUME NEW b, IsFiniteSet(b), NEW p
    PROVE  IsFiniteSet(OwnIn(b, p)) /\ Cardinality(OwnIn(b, p)) \in Nat
<1>1. PICK B : B = {y \in b : y.pool = p /\ y.own}
  OBVIOUS
<1>2. IsFiniteSet(B)
  BY <1>1, FS_Subset
<1>3. PICK f : f = [x \in B |-> x.id]
  OBVIOUS
<1>4. OwnIn(b, p) = {x.id : x \in B}
  BY <1>1 DEF OwnIn
<1>5. f \in Surjection(B, OwnIn(b, p))
  BY <1>3, <1>4 DEF Surjection
<1> QED  BY <1>2, <1>5, FS_Surjection, FS_CardinalityType

\* Fewer positions, no more of the pool's own.
LEMMA OwnShrinks ==
    ASSUME NEW b, IsFiniteSet(b), NEW c, NEW p,
           \A x \in c : x.pool = p => x \in b
    PROVE  Cardinality(OwnIn(c, p)) <= Cardinality(OwnIn(b, p))
<1>1. OwnIn(c, p) \subseteq OwnIn(b, p)
  BY DEF OwnIn
<1> QED  BY <1>1, OwnFinite, FS_Subset

LEMMA OwnGrows ==
    ASSUME NEW b, IsFiniteSet(b), NEW x, NEW p
    PROVE  Cardinality(OwnIn(b \cup {x}, p)) <= Cardinality(OwnIn(b, p)) + 1
<1>1. OwnIn(b \cup {x}, p) \subseteq OwnIn(b, p) \cup {x.id}
  BY DEF OwnIn
<1>2. IsFiniteSet(OwnIn(b, p)) /\ Cardinality(OwnIn(b, p)) \in Nat
  BY OwnFinite
<1>3. /\ IsFiniteSet(OwnIn(b, p) \cup {x.id})
      /\ \/ Cardinality(OwnIn(b, p) \cup {x.id}) = Cardinality(OwnIn(b, p))
         \/ Cardinality(OwnIn(b, p) \cup {x.id}) = Cardinality(OwnIn(b, p)) + 1
  BY <1>2, FS_AddElement
<1>4. /\ IsFiniteSet(OwnIn(b \cup {x}, p))
      /\ Cardinality(OwnIn(b \cup {x}, p)) <= Cardinality(OwnIn(b, p) \cup {x.id})
  BY <1>1, <1>3, FS_Subset
<1>5. Cardinality(OwnIn(b \cup {x}, p)) \in Nat
  BY <1>4, FS_CardinalityType
<1> QED  BY <1>2, <1>3, <1>4, <1>5

\* Room for one more of the pool's own.
Roomy(p) == Cardinality(OwnPositionsOf(p)) < MaxPerPool

\* The books the engine boots with respect the cap.
BootCapped == \A b \in Boot, p \in Pool : Cardinality(OwnIn(b, p)) <= MaxPerPool

CapInv ==
    /\ PositionCap
    /\ \A i \in Pending : raw[i].act = "ENTER" => Roomy(raw[i].pool)
    /\ pc \in {"rgate", "rsend"} => Roomy(cur.dec.pool)

LEMMA AllowedIsRoomy ==
    ASSUME BaseInv, NEW p \in Pool, HasPlace(p)
    PROVE  Roomy(p)
<1>1. IsFiniteSet(book) /\ MaxPerPool \in Nat
  BY ScanCycleAssumption DEF BaseInv, Inv, ShapeInv
<1>2. IsFiniteSet(PositionsOf(p)) /\ Cardinality(PositionsOf(p)) \in Nat
  BY <1>1, FinitePositions, FS_CardinalityType
<1>3. OwnPositionsOf(p) \subseteq PositionsOf(p)
  BY DEF OwnPositionsOf, PositionsOf
<1>4. /\ IsFiniteSet(OwnPositionsOf(p))
      /\ Cardinality(OwnPositionsOf(p)) <= Cardinality(PositionsOf(p))
  BY <1>2, <1>3, FS_Subset
<1>5. Cardinality(OwnPositionsOf(p)) \in Nat
  BY <1>4, FS_CardinalityType
<1> QED  BY <1>1, <1>2, <1>4, <1>5 DEF Roomy, HasPlace

\* Sending a decision adds a position to its pool if it is an entry, and none else.
LEMMA SentBook ==
    ASSUME NEW d, Executes(d) \/ Fails(d) \/ book' = book
    PROVE  \/ book' \subseteq book
           \/ /\ d.act = "ENTER"
              /\ \E i \in FreshPos :
                    book' = book \cup {[id |-> i, pool |-> d.pool, own |-> TRUE]}
<1>1. CASE d.act = "ENTER" /\ Enters(d.pool)
  BY <1>1 DEF Enters
<1>2. ASSUME NEW i, Exits(i)
      PROVE  book' \subseteq book
  BY <1>2 DEF Exits
<1> QED  BY <1>1, <1>2 DEF Executes, Fails

LEMMA SentCap ==
    ASSUME BaseInv, PositionCap, NEW d, Executes(d) \/ Fails(d) \/ book' = book,
           d.act = "ENTER" => Roomy(d.pool)
    PROVE  /\ PositionCap'
           /\ d.act # "ENTER" => \A p \in Pool : Roomy(p) => Roomy(p)'
<1>1. /\ IsFiniteSet(book) /\ MaxPerPool \in Nat
      /\ \A p \in Pool : Cardinality(OwnIn(book, p)) <= MaxPerPool
  BY ScanCycleAssumption DEF BaseInv, Inv, ShapeInv, PositionCap, OwnIn, OwnPositionsOf
<1>2. IsFiniteSet(book')
  BY <1>1, FiniteBook
<1>3. \A p \in Pool : /\ Cardinality(OwnIn(book, p)) \in Nat
                      /\ Cardinality(OwnIn(book', p)) \in Nat
  BY <1>1, <1>2, OwnFinite
<1>4. PositionCap' <=> \A p \in Pool : Cardinality(OwnIn(book', p)) <= MaxPerPool
  BY DEF PositionCap, OwnIn, OwnPositionsOf
<1>5. \A p \in Pool : /\ Roomy(p) <=> Cardinality(OwnIn(book, p)) < MaxPerPool
                      /\ Roomy(p)' <=> Cardinality(OwnIn(book', p)) < MaxPerPool
  BY DEF Roomy, OwnIn, OwnPositionsOf
<1>6. CASE book' \subseteq book
  <2>1. \A p \in Pool : Cardinality(OwnIn(book', p)) <= Cardinality(OwnIn(book, p))
    BY <1>1, <1>6, OwnShrinks
  <2>2. \A p \in Pool : Cardinality(OwnIn(book', p)) <= MaxPerPool
    BY <1>1, <1>3, <2>1
  <2>3. \A p \in Pool : Roomy(p) => Roomy(p)'
    BY <1>1, <1>3, <1>5, <2>1
  <2> QED  BY <1>4, <2>2, <2>3
<1>7. ASSUME d.act = "ENTER", NEW i \in FreshPos,
             book' = book \cup {[id |-> i, pool |-> d.pool, own |-> TRUE]}
      PROVE  PositionCap'
  <2> DEFINE x == [id |-> i, pool |-> d.pool, own |-> TRUE]
  <2>1. ASSUME NEW p \in Pool
        PROVE  Cardinality(OwnIn(book', p)) <= MaxPerPool
    <3>1. CASE p = d.pool
      <4>1. Cardinality(OwnIn(book, p)) < MaxPerPool
        BY <1>5, <1>7, <3>1
      <4>2. Cardinality(OwnIn(book', p)) <= Cardinality(OwnIn(book, p)) + 1
        BY <1>1, <1>7, OwnGrows
      <4> QED  BY <1>1, <1>3, <4>1, <4>2
    <3>2. CASE p # d.pool
      <4>1. \A y \in book' : y.pool = p => y \in book
        BY <1>7, <3>2
      <4>2. Cardinality(OwnIn(book', p)) <= Cardinality(OwnIn(book, p))
        BY <1>1, <4>1, OwnShrinks
      <4> QED  BY <1>1, <1>3, <4>2
    <3> QED  BY <3>1, <3>2
  <2> QED  BY <1>4, <2>1
<1> QED  BY <1>6, <1>7, SentBook

LEMMA CapInit == BootCapped /\ Init => CapInv
BY DEF BootCapped, Init, CapInv, PositionCap, OwnIn, OwnPositionsOf, Pending

LEMMA CapStep == BaseInv /\ ListInv /\ CapInv /\ [Next]_vars => CapInv'
<1> SUFFICES ASSUME BaseInv, ListInv, CapInv, [Next]_vars
             PROVE  CapInv'
  OBVIOUS
<1>1. /\ TypeOK /\ Inv /\ QueueInv /\ ShapeInv /\ raw \in Seq(Decision) /\ IsTaken(cur)
      /\ pc \in {"tail", "gate", "send", "final"} => raw # <<>>
  BY DEF BaseInv, Inv, ShapeInv, TypeOK
<1>2. /\ PositionCap
      /\ \A i \in Pending : raw[i].act = "ENTER" => Roomy(raw[i].pool)
      /\ pc \in {"rgate", "rsend"} => Roomy(cur.dec.pool)
  BY DEF CapInv
<1>3. ASSUME book' = book
      PROVE  PositionCap' /\ \A p : Roomy(p)' <=> Roomy(p)
  BY <1>2, <1>3 DEF PositionCap, OwnPositionsOf, Roomy
<1>4. CASE UNCHANGED <<pc, raw, cur, book>>
  <2>1. Pending' = Pending
    BY <1>4 DEF Pending
  <2> QED  BY <1>2, <1>3, <1>4, <2>1 DEF CapInv
<1>5. CASE Ends
  BY <1>3, <1>5 DEF Ends, CapInv, Pending
<1>6. CASE Advances
  <2>1. /\ pc' \in {"pool", "tail"}
        /\ \A i \in Pending' : i + 1 \in Pending /\ raw'[i] = raw[i + 1]
    BY <1>6, AdvancedList
  <2> QED  BY <1>2, <1>3, <1>6, <2>1 DEF Advances, CapInv
<1>7. ASSUME NEW p \in Pool, Evaluate(p)
      PROVE  CapInv'
  <2>1. \A i \in 1 .. Len(raw') :
          raw'[i].pool = p /\ (raw'[i].act = "ENTER" => EnterAllowed(p))
    BY <1>1, <1>7, EvaluatedList
  <2>2. EnterAllowed(p) => Roomy(p)
    BY AllowedIsRoomy DEF EnterAllowed
  <2>3. pc' \in {"pool", "tail"} /\ book' = book
    BY <1>7 DEF Evaluate, capital
  <2> QED  BY <1>3, <2>1, <2>2, <2>3 DEF CapInv, Pending
<1>8. CASE Overlay \/ Pass
  <2>1. /\ pc \in {"tail", "gate"} /\ pc' \in {"gate", "send"} /\ raw' = raw
        /\ book' = book
    BY <1>8 DEF Overlay, Pass, capital
  <2>2. Pending' = Pending
    BY <2>1 DEF Pending
  <2> QED  BY <1>2, <1>3, <2>1, <2>2 DEF CapInv
<1>9. CASE Send
  <2>1. /\ raw' = raw /\ pc = "send" /\ pc' = "final"
        /\ Executes(cur.dec) \/ Fails(cur.dec) \/ book' = book
    BY <1>9 DEF Send, Dispatch
  <2>2. /\ Len(raw) \in Nat /\ Len(raw) >= 1
        /\ Pending = 1 .. Len(raw) /\ Pending' = 2 .. Len(raw)
    BY <1>1, <2>1 DEF Pending
  <2>3. /\ cur.dec.pool = raw[1].pool
        /\ cur.dec.act = "ENTER" => raw[1].act = "ENTER" /\ Len(raw) = 1
    <3>1. 1 \in 1 .. Len(raw)
      BY <2>2
    <3> QED  BY <2>1, <3>1 DEF ListInv
  <2>4. cur.dec.act = "ENTER" => Roomy(cur.dec.pool)
    BY <1>2, <2>2, <2>3
  <2>5. /\ PositionCap'
        /\ cur.dec.act # "ENTER" => \A p \in Pool : Roomy(p) => Roomy(p)'
    BY <1>2, <2>1, <2>4, SentCap
  <2>6. \A i \in Pending' : /\ i \in Pending /\ raw[i].pool \in Pool
                            /\ cur.dec.act # "ENTER"
    <3>1. \A i \in 1 .. Len(raw) : raw[i] \in Decision
      BY <1>1
    <3> QED  BY <2>2, <2>3, <3>1 DEF Decision
  <2> QED  BY <1>2, <2>1, <2>5, <2>6 DEF CapInv
<1>10. CASE RedeploySend
  <2>1. /\ pc = "rsend" /\ pc' = "rfinal"
        /\ Executes(cur.dec) \/ Fails(cur.dec)
    BY <1>10 DEF RedeploySend
  <2>2. PositionCap'
    BY <1>2, <2>1, SentCap
  <2> QED  BY <2>1, <2>2 DEF CapInv, Pending
<1>11. ASSUME NEW p \in Pool, RedeployOverlay(p)
       PROVE  CapInv'
  <2>1. /\ cur' = Idle \/ Takes(RedeployCandidate(p))
        /\ book' = book /\ Roomy(p)
        /\ pc' = IF SupervisedHold(cur').act = "ENTER" THEN "rgate" ELSE "redeploy"
    BY <1>1, <1>11, RedeployTakes DEF RedeployOverlay, capital, Redeployable, Roomy
  <2>2. CASE cur' = Idle
    <3>1. pc' = "redeploy"
      BY <2>1, <2>2 DEF SupervisedHold, Idle
    <3> QED  BY <1>3, <2>1, <3>1 DEF CapInv, Pending
  <2>3. CASE Takes(RedeployCandidate(p))
    <3>1. RedeployCandidate(p) \in Decision /\ RedeployCandidate(p).pool = p
      BY ScanCycleAssumption DEF RedeployCandidate, Decision, NoPos
    <3>2. cur'.dec.pool = p
      BY <1>1, <2>3, <3>1, TakenTyped
    <3> QED  BY <1>3, <2>1, <3>2 DEF CapInv, Pending
  <2> QED  BY <2>1, <2>2, <2>3
<1>12. CASE RedeployPass
  BY <1>2, <1>3, <1>12 DEF RedeployPass, CapInv, Pending
<1> QED
  BY <1>4, <1>5, <1>6, <1>7, <1>8, <1>9, <1>10, <1>11, <1>12, EveryStepMoves DEF Moves

\* Whatever the tail and the redeployment do to a pool, the engine's own
\* positions on it stay within the cap, if they were when the engine booted.
THEOREM CapHolds ==
    ASSUME BootCapped
    PROVE  Spec => []PositionCap
<1>1. Init => BaseInv /\ ListInv /\ CapInv
  BY BaseInit, ListInit, CapInit
<1>2. BaseInv /\ ListInv /\ CapInv /\ [Next]_vars => (BaseInv /\ ListInv /\ CapInv)'
  BY BaseStep, ListStep, CapStep
<1>3. CapInv => PositionCap
  BY DEF CapInv
<1> QED  BY <1>1, <1>2, <1>3, PTL DEF Spec

-----------------------------------------------------------------------------
(* What the wallet still counts                                            *)

\* A position with id i is one of pool p.
OnlyOf(i, p) == \A x \in book : x.id = i => x.pool = p

NamedInv ==
    /\ \A x, y \in book : x.id = y.id => x = y
    /\ \A i \in Pending : OnlyOf(raw[i].pos, raw[i].pool)
    /\ pc \in {"gate", "send"} => OnlyOf(cur.dec.pos, cur.dec.pool)

LEMMA NamedInit == Init => NamedInv
BY ScanCycleAssumption DEF Init, NamedInv, Pending

LEMMA PositionNamed ==
    ASSUME TypeOK, NamedInv, NEW p, NEW i \in PositionsOf(p) \cup {NoPos}
    PROVE  OnlyOf(i, p)
<1>1. \A x \in book : x.id # NoPos
  BY ScanCycleAssumption DEF TypeOK, NoPos
<1> QED  BY <1>1 DEF OnlyOf, PositionsOf, NamedInv

\* An entry's position gets an id that none has.
LEMMA EnteredNamed ==
    ASSUME TypeOK, NamedInv, NEW p, NEW i \in FreshPos,
           book' = book \cup {[id |-> i, pool |-> p, own |-> TRUE]}
    PROVE  \A x, y \in book' : x.id = y.id => x = y
<1> DEFINE n == [id |-> i, pool |-> p, own |-> TRUE]
<1>1. \A x, y \in book : x.id = y.id => x = y
  BY DEF NamedInv
<1>2. \A x \in book : x.id # i
  <2>1. \A x \in book : x.id \in 1 .. MaxPos
    BY DEF TypeOK
  <2>2. MaxPos \in Nat /\ i \in 1 .. MaxPos /\ \A x \in book : x.id < i
    BY ScanCycleAssumption DEF FreshPos
  <2> QED  BY <2>1, <2>2
<1>3. n.id = i /\ book' = book \cup {n}
  OBVIOUS
<1> HIDE DEF n
<1> QED  BY <1>1, <1>2, <1>3

LEMMA NamedStep == BaseInv /\ ListInv /\ NamedInv /\ [Next]_vars => NamedInv'
<1> SUFFICES ASSUME BaseInv, ListInv, NamedInv, [Next]_vars
             PROVE  NamedInv'
  OBVIOUS
<1>1. /\ TypeOK /\ Inv /\ QueueInv /\ ShapeInv /\ raw \in Seq(Decision) /\ IsTaken(cur)
      /\ pc \in {"tail", "gate", "send", "final"} => raw # <<>>
  BY DEF BaseInv, Inv, ShapeInv, TypeOK
<1>2. /\ \A x, y \in book : x.id = y.id => x = y
      /\ \A i \in Pending : OnlyOf(raw[i].pos, raw[i].pool)
      /\ pc \in {"gate", "send"} => OnlyOf(cur.dec.pos, cur.dec.pool)
  BY DEF NamedInv
<1>3. ASSUME book' \subseteq book
      PROVE  /\ \A x, y \in book' : x.id = y.id => x = y
             /\ \A i, p : OnlyOf(i, p) => OnlyOf(i, p)'
  BY <1>2, <1>3 DEF OnlyOf
<1>4. CASE UNCHANGED <<pc, raw, cur, book>>
  <2>1. Pending' = Pending
    BY <1>4 DEF Pending
  <2> QED  BY <1>2, <1>3, <1>4, <2>1 DEF NamedInv
<1>5. CASE Ends
  BY <1>3, <1>5 DEF Ends, NamedInv, Pending
<1>6. CASE Advances
  <2>1. /\ pc' \in {"pool", "tail"}
        /\ \A i \in Pending' : i + 1 \in Pending /\ raw'[i] = raw[i + 1]
    BY <1>6, AdvancedList
  <2> QED  BY <1>2, <1>3, <1>6, <2>1 DEF Advances, NamedInv
<1>7. ASSUME NEW p \in Pool, Evaluate(p)
      PROVE  NamedInv'
  <2>1. \A i \in 1 .. Len(raw') :
          raw'[i].pool = p /\ raw'[i].pos \in PositionsOf(p) \cup {NoPos}
    BY <1>1, <1>7, EvaluatedList
  <2>2. \A i \in 1 .. Len(raw') : OnlyOf(raw'[i].pos, raw'[i].pool)
    BY <1>1, <2>1, PositionNamed
  <2>3. pc' \in {"pool", "tail"} /\ book' = book
    BY <1>7 DEF Evaluate, capital
  <2> QED  BY <1>3, <2>2, <2>3 DEF NamedInv, Pending
<1>8. CASE Overlay
  <2>1. /\ pc = "tail" /\ pc' = "gate" /\ raw' = raw /\ book' = book
        /\ Head(raw) = raw[1] /\ raw[1] \in Decision /\ 1 \in 1 .. Len(raw)
    BY <1>1, <1>8 DEF Overlay, capital
  <2>2. Pending' = Pending /\ 1 \in Pending
    BY <2>1 DEF Pending
  <2>3. Takes(raw[1])
    BY <1>1, <1>8, <2>1, OverlayTakes
  <2>4. /\ cur'.dec.pool = raw[1].pool
        /\ cur'.dec.pos \in {raw[1].pos, NoPos} \cup PositionsOf(raw[1].pool)
    BY <1>1, <2>1, <2>3, TakenTyped
  <2>5. OnlyOf(cur'.dec.pos, cur'.dec.pool)
    BY <1>1, <1>2, <2>2, <2>4, PositionNamed
  <2> QED  BY <1>2, <1>3, <2>1, <2>2, <2>5 DEF NamedInv
<1>9. CASE Pass
  <2>1. PICK d \in Judged : cur' = [cur EXCEPT !.dec = d]
    BY <1>9 DEF Pass
  <2>2. cur'.dec = d
    BY <1>1, <2>1 DEF IsTaken
  <2>3. d.pool = cur.dec.pool /\ d.pos \in {cur.dec.pos} \cup PositionsOf(cur.dec.pool)
    BY <1>1, JudgedTyped
  <2>4. pc = "gate" /\ pc' = "send" /\ raw' = raw /\ book' = book
    BY <1>9 DEF Pass
  <2>5. OnlyOf(cur'.dec.pos, cur'.dec.pool)
    BY <1>1, <1>2, <2>2, <2>3, <2>4, PositionNamed
  <2>6. Pending' = Pending
    BY <2>4 DEF Pending
  <2> QED  BY <1>2, <1>3, <2>4, <2>5, <2>6 DEF NamedInv
<1>10. CASE Send
  <2>1. /\ raw' = raw /\ pc = "send" /\ pc' = "final"
        /\ Executes(cur.dec) \/ Fails(cur.dec) \/ book' = book
    BY <1>10 DEF Send, Dispatch
  <2>2. /\ Len(raw) \in Nat /\ Len(raw) >= 1
        /\ Pending = 1 .. Len(raw) /\ Pending' = 2 .. Len(raw)
    BY <1>1, <2>1 DEF Pending
  <2>3. CASE book' \subseteq book
    <3>1. \A i \in Pending' : i \in Pending
      BY <2>2
    <3> QED  BY <1>2, <1>3, <2>1, <2>3, <3>1 DEF NamedInv
  <2>4. ASSUME cur.dec.act = "ENTER", NEW i \in FreshPos,
               book' = book \cup {[id |-> i, pool |-> cur.dec.pool, own |-> TRUE]}
        PROVE  NamedInv'
    <3>1. Len(raw) = 1
      <4>1. 1 \in 1 .. Len(raw) /\ raw[1].act = "ENTER"
        BY <2>1, <2>2, <2>4 DEF ListInv
      <4> QED  BY <4>1 DEF ListInv
    <3>2. Pending' = {}
      BY <2>2, <3>1
    <3>3. \A x, y \in book' : x.id = y.id => x = y
      BY <1>1, <2>4, EnteredNamed
    <3> QED  BY <2>1, <3>2, <3>3 DEF NamedInv
  <2> QED  BY <2>1, <2>3, <2>4, SentBook
<1>11. CASE RedeploySend
  <2>1. /\ pc = "rsend" /\ pc' = "rfinal"
        /\ Executes(cur.dec) \/ Fails(cur.dec)
    BY <1>11 DEF RedeploySend
  <2>2. CASE book' \subseteq book
    BY <1>3, <2>1, <2>2 DEF NamedInv, Pending
  <2>3. ASSUME NEW i \in FreshPos,
               book' = book \cup {[id |-> i, pool |-> cur.dec.pool, own |-> TRUE]}
        PROVE  NamedInv'
    <3>1. \A x, y \in book' : x.id = y.id => x = y
      BY <1>1, <2>3, EnteredNamed
    <3> QED  BY <2>1, <3>1 DEF NamedInv, Pending
  <2> QED  BY <2>1, <2>2, <2>3, SentBook
<1>12. ASSUME NEW p \in Pool, RedeployOverlay(p)
       PROVE  NamedInv'
  <2>1. book' = book /\ pc' \in {"rgate", "redeploy"}
    BY <1>12 DEF RedeployOverlay, capital
  <2> QED  BY <1>3, <2>1 DEF NamedInv, Pending
<1>13. CASE RedeployPass
  BY <1>3, <1>13 DEF RedeployPass, NamedInv, Pending
<1> QED
  BY <1>4, <1>5, <1>6, <1>7, <1>8, <1>9, <1>10, <1>11, <1>12, <1>13,
     EveryStepMoves DEF Moves

\* What makes a live entry count on the true value of the wallet.
Known == walletRead /\ ~ blocked

\* A candidate of the redeployment was vetted by a cycle that knows the wallet,
\* or its pool was full and only an exit makes room.
Vetted(p) ==
    \/ walletRead
    \/ p \in exited
    \/ ~ HasPlace(p)
    \/ pc = "final" /\ cur.done /\ cur.dec.act = "EXIT" /\ cur.dec.pool = p

CountInv ==
    /\ pc \in {"rgate", "rsend"} => cur.dec.act = "ENTER"
    /\ Live => /\ walletRead => wallet # "seed"
               /\ wallet = "spent" => \/ blocked
                                      \/ /\ pc \in {"final", "rfinal"}
                                         /\ cur.done /\ cur.dec.act = "ENTER"
               /\ \A i \in Pending : raw[i].act = "ENTER" => Known
               /\ pc = "redeploy" => ~ blocked
               /\ pc = "rgate" => ~ blocked /\ (walletRead \/ ~ HasPlace(cur.dec.pool))
               /\ pc = "rsend" => Known
               /\ \A p \in cands : Vetted(p)

LEMMA CountInit == Init => CountInv
<1> SUFFICES ASSUME Init
             PROVE  CountInv
  OBVIOUS
<1>1. /\ pc = "idle" /\ cands = {} /\ walletRead = FALSE /\ wallet = "seed"
      /\ Pending = {}
  BY DEF Init, Pending
<1> QED  BY <1>1 DEF CountInv

\* A candidate's pool was allowed an entry, or it was full.
LEMMA EvaluatedCands ==
    ASSUME NEW p \in Pool, Evaluate(p)
    PROVE  \A q \in cands' : \/ q \in cands
                             \/ q = p /\ EnterAllowed(p)
                             \/ q = p /\ ~ HasPlace(p)
<1>1. PICK f \in PositionDecisions(p), vetted \in BOOLEAN :
        /\ vetted => IF Slot(f, p) THEN EnterAllowed(p) ELSE ~Exiting(f)
        /\ cands' = IF vetted THEN cands \cup {p} ELSE cands
  BY DEF Evaluate
<1> QED  BY <1>1 DEF Slot

AllIn(b, p) == {x.id : x \in {y \in b : y.pool = p}}

LEMMA AllFinite ==
    ASSUME NEW b, IsFiniteSet(b), NEW p
    PROVE  IsFiniteSet(AllIn(b, p)) /\ Cardinality(AllIn(b, p)) \in Nat
<1>1. PICK B : B = {y \in b : y.pool = p}
  OBVIOUS
<1>2. IsFiniteSet(B)
  BY <1>1, FS_Subset
<1>3. PICK f : f = [x \in B |-> x.id]
  OBVIOUS
<1>4. AllIn(b, p) = {x.id : x \in B}
  BY <1>1 DEF AllIn
<1>5. f \in Surjection(B, AllIn(b, p))
  BY <1>3, <1>4 DEF Surjection
<1> QED  BY <1>2, <1>5, FS_Surjection, FS_CardinalityType

\* What sending d may do to the number of positions of another pool, or of its
\* own if d is an entry: they do not get fewer.
LEMMA SentKeepsFull ==
    ASSUME BaseInv, NamedInv, NEW d, OnlyOf(d.pos, d.pool),
           Executes(d) \/ Fails(d) \/ book' = book,
           NEW p \in Pool, ~ HasPlace(p), p # d.pool \/ d.act # "EXIT"
    PROVE  ~ HasPlace(p)'
<1>1. IsFiniteSet(book) /\ MaxPerPool \in Nat
  BY ScanCycleAssumption DEF BaseInv, Inv, ShapeInv
<1>2. IsFiniteSet(book')
  BY <1>1, FiniteBook
<1>3. /\ IsFiniteSet(AllIn(book', p))
      /\ Cardinality(AllIn(book, p)) \in Nat
      /\ Cardinality(AllIn(book', p)) \in Nat
  BY <1>1, <1>2, AllFinite
<1>4. /\ HasPlace(p) <=> Cardinality(AllIn(book, p)) < MaxPerPool
      /\ HasPlace(p)' <=> Cardinality(AllIn(book', p)) < MaxPerPool
  BY DEF HasPlace, AllIn, PositionsOf
<1>5. \A x \in book : x.pool = p => x \in book'
  <2>1. CASE d.act = "ENTER" /\ Enters(d.pool)
    BY <2>1 DEF Enters
  <2>2. CASE d.act = "EXIT" /\ Exits(d.pos)
    BY <2>2 DEF Exits, OnlyOf
  <2> QED  BY <2>1, <2>2 DEF Executes, Fails
<1>6. AllIn(book, p) \subseteq AllIn(book', p)
  BY <1>5 DEF AllIn
<1>7. Cardinality(AllIn(book, p)) <= Cardinality(AllIn(book', p))
  BY <1>3, <1>6, FS_Subset
<1> QED  BY <1>1, <1>3, <1>4, <1>7

\* The wallet is read again after an execution, or entries are blocked.
LEMMA RereadCount ==
    ASSUME TypeOK, CountInv, Live, pc \in {"final", "rfinal"},
           NEW ok \in BOOLEAN, Reread(ok)
    PROVE  /\ wallet' = "spent" => blocked'
           /\ wallet' # "seed" \/ wallet' = wallet
           /\ cur.dec.act # "ENTER" => blocked' = blocked
BY DEF TypeOK, CountInv, Reread

LEMMA CountStep == BaseInv /\ ListInv /\ NamedInv /\ CountInv /\ [Next]_vars => CountInv'
<1> SUFFICES ASSUME BaseInv, ListInv, NamedInv, CountInv, [Next]_vars
             PROVE  CountInv'
  OBVIOUS
<1>1. /\ TypeOK /\ Inv /\ QueueInv /\ ShapeInv /\ raw \in Seq(Decision) /\ IsTaken(cur)
      /\ pc \in {"tail", "gate", "send", "final"} => raw # <<>>
      /\ blocked \in BOOLEAN /\ walletRead \in BOOLEAN /\ cands \subseteq Pool
  BY DEF BaseInv, Inv, ShapeInv, TypeOK
<1> USE DEF capital
<1>2. ASSUME UNCHANGED <<setting, book, blocked, walletRead, wallet, exited>>
      PROVE  /\ Live' = Live /\ Known' = Known
             /\ \A p : HasPlace(p)' <=> HasPlace(p)
  BY <1>2 DEF Live, Known, HasPlace, PositionsOf
<1>3. ASSUME UNCHANGED <<setting, book, blocked, walletRead, wallet, exited, pc, raw, cur>>,
             cands' \subseteq cands
      PROVE  CountInv'
  <2>1. Pending' = Pending
    BY <1>3 DEF Pending
  <2> QED  BY <1>2, <1>3, <2>1 DEF CountInv, Vetted
<1>4. CASE Environment
  <2>1. CASE Restart
    BY <2>1 DEF Restart, CountInv, Pending
  <2> QED  BY <1>3, <1>4, <2>1 DEF Environment, Propose, HumanApproves, Expires, Elapses
<1>5. CASE StartCycle
  <2>1. PICK ok \in BOOLEAN : ReadWallet(ok)
    BY <1>5 DEF StartCycle
  <2>2. /\ blocked' = FALSE /\ cands' = {} /\ pc' = "pool" /\ Pending' = {}
        /\ setting' = setting
    BY <1>5 DEF StartCycle, Pending
  <2>3. Live => /\ walletRead' => wallet' # "seed"
                /\ wallet' # "spent"
    BY <1>1, <2>1 DEF ReadWallet, CountInv, TypeOK, WalletState
  <2> QED  BY <2>2, <2>3 DEF CountInv, Live
<1>6. ASSUME NEW p \in Pool, Evaluate(p)
      PROVE  CountInv'
  <2>1. \A i \in 1 .. Len(raw') : raw'[i].act = "ENTER" => EnterAllowed(p)
    BY <1>1, <1>6, EvaluatedList
  <2>2. /\ pc = "pool" /\ pc' \in {"pool", "tail"} /\ cur' = cur
        /\ UNCHANGED <<setting, book, blocked, walletRead, wallet, exited>>
    BY <1>6 DEF Evaluate
  <2>3. Live /\ EnterAllowed(p) => Known
    BY DEF EnterAllowed, Known
  <2>4. Live => \A i \in Pending' : raw'[i].act = "ENTER" => Known
    BY <2>1, <2>2, <2>3 DEF Pending
  <2>6. \A q \in cands' : \/ q \in cands
                          \/ q = p /\ EnterAllowed(p)
                          \/ q = p /\ ~ HasPlace(p)
    BY <1>6, EvaluatedCands
  <2>7. Live => \A q \in cands' : walletRead \/ q \in exited \/ ~ HasPlace(q)
    BY <2>2, <2>3, <2>6 DEF CountInv, Vetted, Known
  <2> QED  BY <1>2, <2>2, <2>4, <2>7 DEF CountInv, Vetted
<1>7. ASSUME NEW p \in Pool, EvaluateFails(p) \/ RedeploySkips(p)
      PROVE  CountInv'
  BY <1>3, <1>7 DEF EvaluateFails, RedeploySkips
<1>8. CASE PoolsDone \/ RedeployEnds
  <2>1. /\ pc \in {"pool", "redeploy"} /\ pc' \in {"idle", "redeploy"}
        /\ pc' = "redeploy" => ~ blocked
        /\ UNCHANGED <<setting, book, blocked, walletRead, wallet, exited, cur>>
        /\ cands' \subseteq cands
    BY <1>8 DEF PoolsDone, RedeployEnds
  <2>2. Pending' = {}
    BY <2>1 DEF Pending
  <2> QED  BY <1>2, <2>1, <2>2 DEF CountInv, Vetted
<1>9. CASE Overlay \/ Pass
  <2>1. /\ pc \in {"tail", "gate"} /\ pc' \in {"gate", "send"} /\ raw' = raw
        /\ UNCHANGED <<setting, book, blocked, walletRead, wallet, exited, cands>>
    BY <1>9 DEF Overlay, Pass
  <2>2. Pending' = Pending
    BY <2>1 DEF Pending
  <2> QED  BY <1>2, <2>1, <2>2 DEF CountInv, Vetted
<1>10. CASE RiskDenies \/ Capacity
  <2>1. /\ pc = "gate" /\ Advances
        /\ UNCHANGED <<setting, book, blocked, walletRead, wallet, exited, cands>>
    BY <1>10 DEF RiskDenies, Capacity, Advances
  <2>2. /\ pc' \in {"pool", "tail"}
        /\ \A i \in Pending' : i + 1 \in Pending /\ raw'[i] = raw[i + 1]
    BY <2>1, AdvancedList
  <2> QED  BY <1>2, <2>1, <2>2 DEF CountInv, Vetted
<1>11. CASE Send
  <2>1. PICK done \in BOOLEAN, short \in BOOLEAN : Dispatch(done, short)
    BY <1>11 DEF Send
  <2>2. /\ raw' = raw /\ pc = "send" /\ pc' = "final"
        /\ UNCHANGED <<setting, blocked, walletRead, exited, cands>>
        /\ cur'.dec = cur.dec /\ cur'.done = done
    BY <1>1, <1>11, <2>1, SentShape DEF Send, Dispatch
  <2>3. \/ Executes(cur.dec) /\ cur'.done
        \/ Fails(cur.dec)
        \/ UNCHANGED <<book, eth, wallet>>
    <3>1. ASSUME Dispatch(TRUE, FALSE)
          PROVE  cur'.done
      BY <1>1, <3>1, SentShape
    <3> QED  BY <1>11, <3>1 DEF Send
  <2>4. /\ Len(raw) \in Nat /\ Len(raw) >= 1
        /\ Pending = 1 .. Len(raw) /\ Pending' = 2 .. Len(raw)
    BY <1>1, <2>2 DEF Pending
  <2>5. Live' = Live /\ Known' = Known /\ \A i \in Pending' : i \in Pending
    BY <2>2, <2>4 DEF Live, Known
  <2>6. wallet' = wallet \/ (wallet' = "spent" /\ cur'.done /\ cur.dec.act = "ENTER")
    BY <2>3 DEF Executes, Fails, Enters, Exits
  <2>7. ASSUME Live, NEW p \in cands
        PROVE  Vetted(p)'
    <3>1. walletRead \/ p \in exited \/ ~ HasPlace(p)
      BY <2>2, <2>7 DEF CountInv, Vetted
    <3>2. CASE p = cur.dec.pool /\ cur.dec.act = "EXIT" /\ Executes(cur.dec) /\ cur'.done
      BY <2>2, <3>2 DEF Vetted
    <3>3. CASE ~ HasPlace(p) /\ (p # cur.dec.pool \/ cur.dec.act # "EXIT")
      <4>1. OnlyOf(cur.dec.pos, cur.dec.pool)
        BY <2>2 DEF NamedInv
      <4>2. ~ HasPlace(p)'
        BY <1>1, <2>3, <3>3, <4>1, SentKeepsFull
      <4> QED  BY <4>2 DEF Vetted
    <3>4. CASE book' = book
      BY <2>2, <3>1, <3>4 DEF Vetted, HasPlace, PositionsOf
    <3> QED  BY <2>2, <2>3, <3>1, <3>2, <3>3, <3>4 DEF Vetted, Fails
  <2> QED  BY <2>2, <2>5, <2>6, <2>7 DEF CountInv
<1>12. CASE Finalize
  <2>1. /\ pc = "final" /\ Advances
        /\ UNCHANGED <<setting, book, walletRead, cands>>
        /\ exited' = IF cur.done /\ cur.dec.act = "EXIT"
                     THEN exited \cup {cur.dec.pool} ELSE exited
    BY <1>12 DEF Finalize, Advances
  <2>2. /\ pc' \in {"pool", "tail"} /\ Len(raw) \in Nat
        /\ \A i \in Pending' : i + 1 \in Pending /\ raw'[i] = raw[i + 1]
    BY <2>1, AdvancedList
  <2>3. Live' = Live /\ \A p : HasPlace(p)' <=> HasPlace(p)
    BY <2>1 DEF Live, HasPlace, PositionsOf
  <2>4. ASSUME Live, NEW p \in cands
        PROVE  Vetted(p)'
    BY <2>1, <2>3, <2>4 DEF CountInv, Vetted
  <2>5. PICK ok \in BOOLEAN : Reread(ok)
    BY <1>12 DEF Finalize
  <2>6. Live => /\ wallet' = "spent" => blocked'
                /\ wallet' # "seed" \/ wallet' = wallet
                /\ cur.dec.act # "ENTER" => blocked' = blocked
    BY <1>1, <2>1, <2>5, RereadCount
  <2>7. ASSUME Live, NEW i \in Pending', raw'[i].act = "ENTER"
        PROVE  Known'
    <3>1. i + 1 \in 2 .. Len(raw) /\ raw[i + 1].act = "ENTER" /\ Known
      BY <2>1, <2>2, <2>7 DEF CountInv, Pending
    <3>2. cur.dec.act # "ENTER"
      <4>1. 1 \in 1 .. Len(raw) /\ 1 # Len(raw)
        BY <2>2, <3>1
      <4> QED  BY <2>1, <4>1 DEF ListInv
    <3> QED  BY <2>1, <2>6, <2>7, <3>1, <3>2 DEF Known
  <2> QED  BY <2>1, <2>2, <2>3, <2>4, <2>6, <2>7 DEF CountInv
<1>13. ASSUME NEW p \in Pool, RedeployOverlay(p)
       PROVE  CountInv'
  <2>1. /\ pc = "redeploy" /\ p \in cands /\ p \notin exited
        /\ cur' = Idle \/ Takes(RedeployCandidate(p))
        /\ pc' = IF SupervisedHold(cur').act = "ENTER" THEN "rgate" ELSE "redeploy"
        /\ cands' \subseteq cands
        /\ UNCHANGED <<setting, book, blocked, walletRead, wallet, exited>>
    BY <1>1, <1>13, RedeployTakes DEF RedeployOverlay, Redeployable
  <2>2. IsTaken(cur')
    BY <1>1, ShapeStep DEF ShapeInv
  <2>3. pc' = "rgate" => cur'.dec.act = "ENTER"
    BY <2>1, <2>2 DEF SupervisedHold, IsTaken, IsDecision
  <2>4. pc' = "rgate" => cur'.dec.pool = p
    <3>1. cur' = Idle => pc' = "redeploy"
      BY <2>1 DEF SupervisedHold, Idle
    <3>2. RedeployCandidate(p) \in Decision /\ RedeployCandidate(p).pool = p
      BY ScanCycleAssumption DEF RedeployCandidate, Decision, NoPos
    <3>3. Takes(RedeployCandidate(p)) => cur'.dec.pool = p
      BY <1>1, <3>2, TakenTyped
    <3> QED  BY <2>1, <3>1, <3>3
  <2>5. Live => ~ blocked /\ (walletRead \/ ~ HasPlace(p))
    BY <2>1 DEF CountInv, Vetted
  <2>6. Pending' = {}
    BY <2>1 DEF Pending
  <2> QED  BY <1>2, <2>1, <2>3, <2>4, <2>5, <2>6 DEF CountInv, Vetted
<1>14. CASE RedeployDenied \/ RedeployUnfunded
  <2>1. /\ pc = "rgate" /\ pc' \in {"redeploy", "idle"}
        /\ UNCHANGED <<setting, book, blocked, walletRead, wallet, exited, cands>>
    BY <1>14 DEF RedeployDenied, RedeployUnfunded
  <2>2. Pending' = {}
    BY <2>1 DEF Pending
  <2> QED  BY <1>2, <2>1, <2>2 DEF CountInv, Vetted, Known
<1>15. CASE RedeployPass
  <2>1. /\ pc = "rgate" /\ pc' = "rsend" /\ cur' = cur /\ HasPlace(cur.dec.pool)
        /\ UNCHANGED <<setting, book, blocked, walletRead, wallet, exited, cands>>
    BY <1>15 DEF RedeployPass
  <2>2. Pending' = {}
    BY <2>1 DEF Pending
  <2>3. Live => Known'
    BY <2>1 DEF CountInv, Known
  <2> QED  BY <1>2, <2>1, <2>2, <2>3 DEF CountInv, Vetted
<1>16. CASE RedeploySend
  <2>1. PICK done \in BOOLEAN, short \in BOOLEAN : Dispatch(done, short)
    BY <1>16 DEF RedeploySend
  <2>2. /\ pc = "rsend" /\ pc' = "rfinal"
        /\ UNCHANGED <<setting, blocked, walletRead, exited, cands>>
        /\ cur'.dec = cur.dec
    BY <1>1, <1>16, <2>1, SentShape DEF RedeploySend, Dispatch
  <2>3. Live => Known
    BY <2>2 DEF CountInv
  <2>4. Pending' = {}
    BY <2>2 DEF Pending
  <2>5. \/ Executes(cur.dec) /\ cur'.done
        \/ Fails(cur.dec)
    <3>1. ASSUME Dispatch(TRUE, FALSE)
          PROVE  cur'.done
      BY <1>1, <3>1, SentShape
    <3> QED  BY <1>16, <3>1 DEF RedeploySend
  <2>6. wallet' = wallet \/ (wallet' = "spent" /\ cur'.done /\ cur.dec.act = "ENTER")
    BY <2>5 DEF Executes, Fails, Enters, Exits
  <2> QED  BY <2>2, <2>3, <2>4, <2>6 DEF CountInv, Known, Vetted, Live
<1>17. CASE RedeployFinalize
  <2>1. /\ pc = "rfinal" /\ pc' = "idle" /\ cands' = {}
        /\ UNCHANGED <<setting, walletRead>>
    BY <1>17 DEF RedeployFinalize
  <2>2. PICK ok \in BOOLEAN : Reread(ok)
    BY <1>17 DEF RedeployFinalize
  <2>3. Live => /\ wallet' = "spent" => blocked'
                /\ wallet' # "seed" \/ wallet' = wallet
    BY <1>1, <2>1, <2>2, RereadCount
  <2>4. Pending' = {}
    BY <2>1 DEF Pending
  <2> QED  BY <2>1, <2>3, <2>4 DEF CountInv, Live
<1>18. CASE UNCHANGED vars
  BY <1>3, <1>18 DEF vars
<1> QED
  BY <1>4, <1>5, <1>6, <1>7, <1>8, <1>9, <1>10, <1>11, <1>12, <1>13, <1>14, <1>15,
     <1>16, <1>17, <1>18 DEF Next, Engine

\* No live entry is sent while the value of the wallet is the configured seed,
\* or still counts the capital of an entry of the same cycle.
THEOREM CountedOnce == Spec => NoDoubleCount
<1> DEFINE Sound == Sends /\ Live /\ cur.dec.act = "ENTER" => wallet \notin {"seed", "spent"}
           All == BaseInv /\ ListInv /\ NamedInv /\ CountInv
<1>1. Init => All
  BY BaseInit, ListInit, NamedInit, CountInit
<1>2. All /\ [Next]_vars => All'
  BY BaseStep, ListStep, NamedStep, CountStep
<1>3. All => Sound
  <2> SUFFICES ASSUME All, Sends, Live, cur.dec.act = "ENTER"
               PROVE  wallet \notin {"seed", "spent"}
    OBVIOUS
  <2>1. pc \in {"send", "rsend"}
    BY DEF Sends
  <2>2. Known
    <3>1. CASE pc = "send"
      <4>1. raw \in Seq(Decision) /\ raw # <<>>
        BY <3>1 DEF BaseInv, TypeOK, Inv, ShapeInv
      <4>2. 1 \in Pending
        BY <3>1, <4>1 DEF Pending
      <4>3. raw[1].act = "ENTER"
        BY <3>1 DEF ListInv
      <4> QED  BY <4>2, <4>3 DEF CountInv
    <3>2. CASE pc = "rsend"
      BY <3>2 DEF CountInv
    <3> QED  BY <2>1, <3>1, <3>2
  <2> QED  BY <2>1, <2>2 DEF CountInv, Known
<1>4. All /\ [Next]_vars => [Sound]_vars
  BY <1>3
<1> QED  BY <1>1, <1>2, <1>4, PTL DEF Spec, NoDoubleCount

=============================================================================
