--------------------------- MODULE SettlementLedger ---------------------------
(***************************************************************************)
(* What the settlement of closed positions promises the operator, with no  *)
(* transaction, retry or crash in sight: what is owed for the tokens of a  *)
(* position is settled job by job, a given-up job may be taken up again,   *)
(* and the PnL of the position is booked together with all of its jobs, in *)
(* one step, and only when each of them is booked.  The exception are the  *)
(* positions that are booked in part, because their jobs could not be      *)
(* listed; of these the ledger promises only what was booked with them.    *)
(***************************************************************************)
CONSTANTS Position, Job, Owner, NoPosition

VARIABLES job,    \* job[j]: none, owed, booked or givenUp
          paid,   \* the jobs whose position was booked with them
          book,   \* book[p]: open, closed, final or deleted
          partly  \* the positions last booked from a part of their jobs

ledger == <<job, paid, book, partly>>

Init ==
    /\ job = [j \in Job |-> "none"]
    /\ paid = {}
    /\ book = [p \in Position |-> "open"]
    /\ partly = {}

Jobs(p) == {j \in Job : Owner[j] = p /\ job[j] # "none"}

\* An exit saves a job of its open position; a sweep creates orphan jobs and
\* takes up given-up ones.  Nothing is ever owed again for a booked position.
Owe(J) ==
    /\ \A j \in J : /\ job[j] \in {"none", "givenUp"}
                    /\ Owner[j] \in Position \ partly => book[Owner[j]] # "final"
    /\ job' = [j \in Job |-> IF j \in J THEN "owed" ELSE job[j]]
    /\ UNCHANGED <<paid, book, partly>>

Settle(j, result) ==
    /\ job[j] = "owed"
    /\ job' = [job EXCEPT ![j] = result]
    /\ UNCHANGED <<paid, book, partly>>

\* The jobs J of the position are booked with it.
BookWith(p, J) ==
    /\ book[p] # "deleted"
    /\ J # {}
    /\ \A j \in J : job[j] = "booked"
    /\ book' = [book EXCEPT ![p] = "final"]
    /\ paid' = paid \cup J
    /\ UNCHANGED job

BookPosition(p) == BookWith(p, Jobs(p)) /\ partly' = partly \ {p}

BookPartly(p) == partly' = partly \cup {p} /\ \E J \in SUBSET Jobs(p) : BookWith(p, J)

\* Rows are saved, closed, adopted and dropped; none of this books a PnL.
WriteRows(P, Q, to) ==
    /\ book' = [p \in Position |-> IF p \in P THEN "deleted" ELSE IF p \in Q THEN to ELSE book[p]]
    /\ UNCHANGED <<job, paid, partly>>

Next ==
    \/ \E J \in SUBSET Job : Owe(J)
    \/ \E j \in Job, result \in {"booked", "givenUp"} : Settle(j, result)
    \/ \E p \in Position : BookPosition(p) \/ BookPartly(p)
    \/ \E P, Q \in SUBSET Position, to \in {"open", "closed"} : WriteRows(P, Q, to)

Spec == Init /\ [][Next]_ledger
===============================================================================
