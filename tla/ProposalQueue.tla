--------------------------- MODULE ProposalQueue ---------------------------
(***************************************************************************)
(* The queue of agent proposals (engine/state-service.ts) as operators on  *)
(* its value, and the choice the scan cycle makes from it.                 *)
(*                                                                         *)
(* A proposal is a record [id, pool, act, approved, live].  Ids grow with  *)
(* every proposal received and the array is only ever appended to and      *)
(* filtered, so a set of records ordered by id is that array.  A rejected  *)
(* or executed proposal is dropped by the prune that ends the same call:   *)
(* it never shows.  live is FALSE once expiresAt has passed.               *)
(***************************************************************************)
EXTENDS FiniteSetsExt

CONSTANTS Pool, MaxQueue, Act

\* An expired proposal stays in the array until something prunes it.
Prune(q) == {x \in q : x.live}

SamePool(q, p) == {x \in q : x.pool = p}

\* A new proposal replaces the pending one of its pool, never an approved
\* one; the bound counts the queue without what is being replaced.
ApprovedExists(q, x) == \E y \in SamePool(Prune(q), x.pool) : y.approved

\* mutant: an older pending proposal stays
RemainingAll(q, x) == Prune(q)

Remaining(q, x) ==
    {y \in Prune(q) : ~(y.pool = x.pool /\ ~y.approved)}

\* mutant: the latest proposal wins over an approved one too
EnqueueLatest(q, x) ==
    IF Cardinality(Remaining(q, x)) >= MaxQueue THEN Prune(q)
    ELSE {y \in Prune(q) : y.pool # x.pool} \cup {x}

Enqueue(q, x) ==
    IF ApprovedExists(q, x) \/ Cardinality(Remaining(q, x)) >= MaxQueue
    THEN Prune(q)
    ELSE Remaining(q, x) \cup {x}

Approve(q, id) ==
    Prune({IF x.id = id THEN [x EXCEPT !.approved = TRUE] ELSE x : x \in q})

\* A rejection marks the proposal and prunes it; consumption filters it out.
Reject(q, id)  == Prune({x \in q : x.id # id})
Dequeue(q, id) == Prune({x \in q : x.id # id})

\* mutant: the mode is not looked at
UsableAny(q, p, supervised) == SamePool(Prune(q), p)

\* What a decision on pool p may use, newest first; supervised mode reads
\* approved proposals only.
Usable(q, p, supervised) ==
    {x \in SamePool(Prune(q), p) : supervised => x.approved}

FindPending(q, p, supervised) ==
    CHOOSE x \in Usable(q, p, supervised) :
        \A y \in Usable(q, p, supervised) : y.id <= x.id

\* mutant: an exit may be downgraded
AdmissibleDowngrade(a, o, held) ==
    /\ a = "ENTER" => o = "ENTER"
    /\ a = "REBALANCE" => held
    /\ a = "EXIT" => held \/ o = "EXIT"

\* Whether evaluateAgentProposal may accept action a for a decision o on a
\* pool, held: the pool has a position.  Amounts, ranges and confidence, the
\* rest of that function, may still refuse it.
Admissible(a, o, held) ==
    /\ o = "EXIT" => a = "EXIT"
    /\ a = "ENTER" => o = "ENTER"
    /\ a = "REBALANCE" => held
    /\ a = "EXIT" => held \/ o = "EXIT"

=============================================================================
