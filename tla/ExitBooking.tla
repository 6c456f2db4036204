---------------------------- MODULE ExitBooking ----------------------------
(***************************************************************************)
(* The books of a live exit (settleAttemptedExit in engine/program.ts).    *)
(* What came out of the pool is either booked at once, from the value the  *)
(* adapter read, or left to settlement jobs, one per token.  Fees claimed  *)
(* earlier count once, fees swept by the exit itself are part of what was  *)
(* withdrawn, and compounded fees are part of the basis.  The writes are   *)
(* separate and the process may stop between any two of them.              *)
(***************************************************************************)
EXTENDS Integers

CONSTANTS
    Leg,       \* the two tokens of the pool
    Deposit,   \* what the operator put in
    Top,       \* bound: what the position can be worth
    Earned,    \* bound: fees it earns
    Restarts   \* bound: restarts

VARIABLES
    pc,
    autonomous,  \* AUTONOMOUS_TOKEN_MODE is on: exits are sold by settlement jobs
    chain,       \* the position on chain: [open, worth, owed]
    pos,         \* the tracked record: [basis, fees], cumulative fees in USD
    row,         \* its row: [state, basis, fees, realized]
    out,         \* exitPosition's answer: [usd, fee, leg]
    due,         \* the realized PnL this exit is to book
    job,         \* token amounts handed to settlement jobs
    outcome,     \* the PnL recorded on the entry's signal snapshot
    told,        \* the EXIT event: "unresolved", or the legs left to jobs
    put, got,    \* what went in and came out so far, in USD
    missed,      \* fees claimed without a price: booked as nothing
    restarts

ledger == <<put, got, missed>>
vars == <<pc, autonomous, chain, pos, row, out, due, job, outcome, told, ledger, restarts>>

None == [none |-> TRUE]    \* NULL
Known(n) == [usd |-> n]
USD == [usd : -(Deposit + Earned) .. Top + 2 * Earned]
MaybeUSD == USD \cup {None}
Nothing == [l \in Leg |-> 0]
NoAnswer == [usd |-> None, fee |-> None, leg |-> Nothing]
Amount(leg) == LET a == CHOOSE l \in Leg : TRUE
                   b == CHOOSE l \in Leg : l # a IN leg[a] + leg[b]

TypeOK ==
    /\ pc \in {"held", "exited", "enqueue", "save", "close", "outcome", "tell", "done"}
    /\ autonomous \in BOOLEAN
    /\ chain \in [open : BOOLEAN, worth : 0 .. Top, owed : 0 .. Earned]
    /\ pos \in [basis : Nat, fees : 0 .. 2 * Earned]
    /\ row \in [state : {"open", "closed", "dropped"}, basis : Nat, fees : 0 .. 2 * Earned,
                realized : MaybeUSD]
    /\ out.usd \in MaybeUSD /\ out.fee \in MaybeUSD /\ out.leg \in [Leg -> Nat]
    /\ due \in MaybeUSD /\ outcome \in MaybeUSD /\ job \in [Leg -> Nat]
    /\ told \subseteq Leg \cup {"unresolved"}
    /\ put \in Nat /\ got \in Nat /\ missed \in Nat /\ restarts \in 0 .. Restarts

Init ==
    /\ pc = "held" /\ autonomous \in BOOLEAN
    /\ chain = [open |-> TRUE, worth |-> Deposit, owed |-> 0]
    /\ pos = [basis |-> Deposit, fees |-> 0]
    /\ row = [state |-> "open", basis |-> Deposit, fees |-> 0, realized |-> None]
    /\ out = NoAnswer /\ due = None /\ job = Nothing /\ outcome = None
    /\ told = {} /\ put = Deposit /\ got = 0 /\ missed = 0
    /\ restarts = 0

-----------------------------------------------------------------------------
(* While the position is held                                              *)

Trade ==
    /\ chain.open
    /\ \/ \E w \in {chain.worth - 1, chain.worth + 1} :
            w \in 0 .. Top /\ chain' = [chain EXCEPT !.worth = w]
       \/ /\ got + chain.owed < Earned
          /\ chain' = [chain EXCEPT !.owed = @ + 1]
    /\ UNCHANGED <<pc, autonomous, pos, row, out, due, job, outcome, told, ledger, restarts>>

\* savePosition upserts every column: a NULL closed_at in the record reopens the row.
Saved(p) == [state |-> "open", basis |-> p.basis, fees |-> p.fees, realized |-> None]

\* Fees without a price count as nothing. Compounded, they raise the basis by
\* what they raise the position.
Claim ==
    /\ pc = "held" /\ chain.open /\ row.state = "open" /\ chain.owed > 0
    /\ got' = got + chain.owed
    /\ \E usd \in {0, chain.owed}, back \in BOOLEAN :
         LET c == IF back /\ usd + chain.worth <= Top THEN usd ELSE 0 IN
           /\ missed' = missed + chain.owed - usd
           /\ pos' = [basis |-> pos.basis + c, fees |-> pos.fees + usd]
           /\ put' = put + c
           /\ chain' = [chain EXCEPT !.worth = @ + c, !.owed = 0]
    /\ row' = Saved(pos')
    /\ UNCHANGED <<pc, autonomous, out, due, job, outcome, told, restarts>>

-----------------------------------------------------------------------------
(* The exit                                                                *)

\* Burn and collect. Each leg that moved needs a price, and the fees are among
\* the legs; a withdrawal of nothing is not a loss of everything.
Withdraw ==
    /\ pc = "held" /\ row.state = "open" /\ chain.open
    /\ LET all == chain.worth + chain.owed IN
         /\ got' = got + all
         /\ \E leg \in [Leg -> 0 .. all] : Amount(leg) = all /\
              \/ /\ all > 0
                 /\ out' = [usd |-> Known(all), fee |-> Known(chain.owed), leg |-> leg]
              \/ \E fee \in {None, Known(chain.owed)} :
                   out' = [usd |-> None, fee |-> fee, leg |-> leg]
    /\ chain' = [chain EXCEPT !.open = FALSE, !.worth = 0, !.owed = 0]
    /\ pc' = "exited"
    /\ UNCHANGED <<autonomous, pos, row, due, job, outcome, told, put, missed, restarts>>

\* The answer is lost, or the burn fails, and the probe does not list the
\* position: gone, or unread. Nothing is known of what came out.
Unanswered ==
    /\ pc = "held" /\ row.state = "open"
    /\ out' = NoAnswer
    /\ \/ /\ got' = got + chain.worth + chain.owed
          /\ chain' = [chain EXCEPT !.open = FALSE, !.worth = 0, !.owed = 0]
       \/ UNCHANGED <<chain, got>>
    /\ pc' = "exited"
    /\ UNCHANGED <<autonomous, pos, row, due, job, outcome, told, put, missed, restarts>>

\* The fees the exit swept, when they have a price; there are no farm rewards here.
Credited(p) == IF out.fee = None THEN p ELSE [p EXCEPT !.fees = @ + out.fee.usd]

Realized(usd, p) == Known(usd.usd + p.fees - p.basis)

\* The order that counts the swept fees twice.
BookCredited ==
    /\ pc = "exited" /\ ~autonomous
    /\ pos' = Credited(pos)
    /\ due' = IF out.usd = None THEN None ELSE Realized(out.usd, pos')
    /\ pc' = "save"
    /\ UNCHANGED <<autonomous, chain, row, out, job, outcome, told, ledger, restarts>>

\* Without settlement: the PnL from what was claimed before this exit, and only
\* then the swept fees, for the fee figures.
BookAtOnce ==
    /\ pc = "exited" /\ ~autonomous
    /\ due' = IF out.usd = None THEN None ELSE Realized(out.usd, pos)
    /\ pos' = Credited(pos)
    /\ pc' = "save"
    /\ UNCHANGED <<autonomous, chain, row, out, job, outcome, told, ledger, restarts>>

\* With settlement: one job per leg that moved, saved one after the other.
Attributable == {l \in Leg : out.leg[l] > 0}

Enqueue(l) ==
    /\ pc \in {"exited", "enqueue"} /\ autonomous
    /\ l \in Attributable /\ job[l] = 0
    /\ job' = [job EXCEPT ![l] = out.leg[l]]
    /\ pc' = "enqueue"
    /\ UNCHANGED <<autonomous, chain, pos, row, out, due, outcome, told, ledger, restarts>>

\* A row that books the priced legs and leaves them to the jobs as well.
SettlingPriced == IF out.usd = None THEN None ELSE Realized(out.usd, pos)

\* Then the row closes with nothing booked as long as a job will tell.
Settling == IF out.usd = None \/ Attributable # {} THEN None ELSE Realized(out.usd, pos)

BookLater ==
    /\ pc \in {"exited", "enqueue"} /\ autonomous
    /\ \A l \in Attributable : job[l] > 0
    /\ due' = Settling
    /\ pc' = "save"
    /\ UNCHANGED <<autonomous, chain, pos, row, out, job, outcome, told, ledger, restarts>>

Save ==
    /\ pc = "save"
    /\ row' = Saved(pos)
    /\ pc' = "close"
    /\ UNCHANGED <<autonomous, chain, pos, out, due, job, outcome, told, ledger, restarts>>

Close ==
    /\ pc = "close"
    /\ row' = [row EXCEPT !.state = "closed", !.realized = due]
    /\ pc' = IF autonomous THEN "tell" ELSE "outcome"
    /\ UNCHANGED <<autonomous, chain, pos, out, due, job, outcome, told, ledger, restarts>>

\* Only this path tells the signal its outcome itself; a group of jobs does it
\* when it is finalized.
RecordOutcome ==
    /\ pc = "outcome"
    /\ outcome' = due
    /\ pc' = "tell"
    /\ UNCHANGED <<autonomous, chain, pos, row, out, due, job, told, ledger, restarts>>

\* No price and no job: the event keeps the raw amounts and the last mark, and
\* the operator is warned once per pool.
Unresolved == ~autonomous /\ due = None

\* The EXIT event: with settlement, the number of jobs that will tell.
Tell ==
    /\ pc = "tell"
    /\ told' = IF Unresolved THEN {"unresolved"} ELSE IF autonomous THEN Attributable ELSE {}
    /\ pc' = "done"
    /\ UNCHANGED <<autonomous, chain, pos, row, out, due, job, outcome, ledger, restarts>>

\* A restart loads the open rows; the reconcile drops the row of a position the
\* wallet no longer holds, unless it cannot read the wallet.
Restart ==
    /\ pc \notin {"done"} /\ restarts < Restarts
    /\ restarts' = restarts + 1
    /\ autonomous' \in BOOLEAN
    /\ IF row.state # "open"
         THEN pc' = "done" /\ UNCHANGED <<pos, row>>
         ELSE \/ /\ pc' = "held" /\ pos' = [basis |-> row.basis, fees |-> row.fees]
                 /\ UNCHANGED row
              \/ /\ ~chain.open /\ pc' = "done"
                 /\ row' = [row EXCEPT !.state = "dropped"]
                 /\ UNCHANGED pos
    /\ out' = NoAnswer /\ due' = None
    /\ UNCHANGED <<chain, job, outcome, told, ledger>>

Next ==
    \/ Trade \/ Claim
    \/ Withdraw \/ Unanswered
    \/ BookAtOnce \/ (\E l \in Leg : Enqueue(l)) \/ BookLater
    \/ Save \/ Close \/ RecordOutcome \/ Tell
    \/ Restart

Spec == Init /\ [][Next]_vars

-----------------------------------------------------------------------------
(* Properties                                                              *)

Closed == row.state = "closed"

\* A PnL booked at the exit is all that came out less all that went in, every
\* piece once: claimed, compounded and swept fees, less fees that had no price;
\* and nothing of it is left to a settlement job as well.
BookedOnce ==
    Closed /\ row.realized # None =>
        /\ row.realized = Known(got - put - missed)
        /\ job = Nothing

\* An exit that ran to its end leaves a closed row, and one whose proceeds are
\* not booked either could not be priced or has a job for every token; the
\* signal never learns another outcome than the row shows, and the EXIT event
\* names what the row waits for.
EndsBooked ==
    /\ pc = "done" => row.state # "open"
    /\ outcome # None => Closed /\ outcome = row.realized
    /\ pc = "done" /\ out # NoAnswer /\ row.realized = None =>
         out.usd = None \/ job = out.leg
    /\ told \cap Leg # {} => told = {l \in Leg : job[l] > 0}
    /\ told = {"unresolved"} => row.realized = None
=============================================================================
