----------------------------- MODULE EntryGates -----------------------------
(***************************************************************************)
(* The entry slot of a pool (runEnterSlot in engine/program.ts) against    *)
(* the exit chain that will judge the position in the next cycle: the      *)
(* gates in their order, the fallen-angel entry that by-passes some, the   *)
(* candidates captured for the redeployment of idle capital, with the      *)
(* thresholds that evolve on closed positions.  Challenge mode is on.      *)
(*                                                                         *)
(* A reading is what a cycle measures of the pool: the ratio of fees to    *)
(* impermanent loss (in quarters) and the volume authenticity (in tenths), *)
(* each 0 when it is not measured, the yield (in percent of its trailing   *)
(* average), the drawdown of the day (in percent), whether the bins are in *)
(* use and the TVL is twice the smallest, and whether it shows what no     *)
(* gate looks at and the exit chain leaves on: a TVL that dropped or       *)
(* drained, a stablecoin off its peg, a position worth no more than dust.  *)
(***************************************************************************)
EXTENDS Naturals

CONSTANTS
    Fee, Auth, Yield, Drop, \* the values a reading takes
    FeeThr, AuthThr, \* the values the evolved thresholds take
    FeeFloor,     \* MIN_FEE_IL_RATIO, with impermanent loss protection on
    ExitDrop,     \* CHALLENGE_DRAWDOWN_EXIT_PCT
    Fallen,       \* FALLEN_ANGEL_ENABLED
    MaxPerPool,   \* MAX_POSITIONS_PER_POOL
    MaxAdopted    \* the largest number of positions found in the wallet

VARIABLES
    pc,
    r,         \* the reading of this cycle
    thr,       \* evolvedThresholds: [fee, auth]
    own,       \* positions of the pool the engine opened
    adopted,   \* positions found in the wallet, which it never opened
    rejected,  \* enterGateRejected
    proofs,    \* [persistent, route]
    raw,       \* the ENTER decided: by which branch
    cand,      \* the candidate captured for the redeployment
    exited,    \* an EXIT of the pool executed in this cycle
    \* observation
    mode,      \* how the last position held was entered
    calm,      \* neither reading nor thresholds changed since
    sent       \* the candidate the last redeployment was of

vars == <<pc, r, thr, own, adopted, rejected, proofs, raw, cand, exited, mode,
          calm, sent>>

Unknown == 0
Reading == [fee : Fee \cup {Unknown}, auth : Auth \cup {Unknown},
            yield : Yield, drop : Drop, deep : BOOLEAN, sinks : BOOLEAN]
Thresholds == [fee : FeeThr, auth : AuthThr]
Kind == {"none", "harvest", "fallen", "redeploy"}

Init ==
    /\ pc = "read"
    /\ r \in {x \in Reading : x.fee = Unknown /\ x.auth = Unknown}
    /\ thr \in Thresholds
    /\ own = 0 /\ adopted \in 0 .. MaxAdopted /\ exited = FALSE
    /\ rejected = FALSE /\ proofs = [persistent |-> TRUE, route |-> TRUE]
    /\ raw = "none" /\ cand = "none"
    /\ mode = "none" /\ calm = FALSE /\ sent = "none"

TypeOK ==
    /\ pc \in {"read", "exit", "slot", "fallen", "fees", "proofs", "funding",
               "candidate", "capture", "tail", "redeploy"}
    /\ r \in Reading
    /\ thr \in Thresholds
    /\ own \in 0 .. MaxPerPool /\ adopted \in 0 .. MaxAdopted
    /\ rejected \in BOOLEAN /\ exited \in BOOLEAN /\ calm \in BOOLEAN
    /\ proofs \in [persistent : BOOLEAN, route : BOOLEAN]
    /\ raw \in {"none", "harvest", "fallen"}
    /\ cand \in {"none", "vetted", "capped"}
    /\ sent \in {"none", "vetted", "capped"}
    /\ mode \in Kind

-----------------------------------------------------------------------------
(* The exit chain on a reading                                             *)

\* The rotation signal of challenge mode: the drawdown, or the yield decay.
Rotated(x) == x.drop > ExitDrop \/ x.yield < 70

Weak(x, t) ==
    \/ x.auth # Unknown /\ x.auth < t.auth
    \/ x.fee # Unknown /\ x.fee < 2

\* The rotation, the depeg and the drain, then what degraded: dust, TVL, volume, fees.
ChainExits(x, t) == Rotated(x) \/ x.sinks \/ Weak(x, t)

PreFilter(x, t) == x.auth # Unknown => x.auth >= t.auth

\* The thresholds move on the outcomes of closed positions, each time by a
\* share of themselves; nothing bounds where they end up.
Evolve ==
    /\ pc = "read"
    /\ thr' \in Thresholds
    /\ calm' = (calm /\ thr' = thr)
    /\ UNCHANGED <<adopted, pc, r, own, rejected, proofs, raw, cand, exited,
                   mode, sent>>

\* The cycle measures the pool; one that holds nothing and fails the
\* pre-filter is left alone.
Read ==
    /\ pc = "read"
    /\ r' \in Reading
    /\ calm' = (calm /\ r' = r)
    /\ pc' = IF own + adopted = 0 /\ ~PreFilter(r', thr)
             THEN "read" ELSE "exit"
    /\ rejected' = FALSE /\ raw' = "none" /\ cand' = "none" /\ exited' = FALSE
    /\ sent' = "none"
    /\ UNCHANGED <<adopted, thr, own, proofs, mode>>

\* An exit that fails is decided again in the next cycle.
ExitPhase ==
    /\ pc = "exit"
    /\ IF own + adopted > 0 /\ ChainExits(r, thr)
       THEN \/ UNCHANGED <<own, mode, calm>>
            \/ own' = 0 /\ mode' = "none" /\ calm' = FALSE
       ELSE UNCHANGED <<own, mode, calm>>
    /\ pc' = IF own + adopted > 0 /\ ChainExits(r, thr) THEN "read"
             ELSE IF own + adopted < MaxPerPool THEN "slot" ELSE "capture"
    /\ UNCHANGED <<adopted, r, thr, rejected, proofs, raw, cand, exited, sent>>

-----------------------------------------------------------------------------
(* The gates of the slot                                                   *)

\* A gate that looks at something this model leaves out.
Gate(next) ==
    /\ rejected' \in {rejected, TRUE}
    /\ pc' = next
    /\ UNCHANGED <<adopted, r, thr, own, proofs, raw, cand, exited, mode, calm,
                   sent>>

\* The pre-filter, an unresolved or unmanaged pool; then the wallet was never
\* read or not refreshed, the backoff of failed entries, the cooldown row.
FirstGates ==
    /\ pc = "slot"
    /\ Gate("fallen")
    /\ ~PreFilter(r, thr) => rejected'

\* A pool of the fallen-angel book enters on its signal and leaves no slot to
\* the gates that follow.
FallenAngelEnter ==
    /\ pc = "fallen"
    /\ \/ UNCHANGED <<raw, rejected>>
       \/ /\ Fallen /\ ~rejected
          /\ raw' \in {"none", "fallen"}   \* the allocation may refuse it
          /\ rejected' = TRUE
    /\ pc' = "fees"
    /\ UNCHANGED <<adopted, r, thr, own, proofs, cand, exited, mode, calm,
                   sent>>

\* A modelled ratio has no vote; the fees have to pay for the gas.
FeeGates ==
    /\ pc = "fees"
    /\ Gate("proofs")
    /\ r.fee # Unknown /\ r.fee < FeeFloor => rejected'

\* The persistence of the fees, or a spike of volume instead, and a route to
\* sell both legs: fetched whatever the gates said, a failure proves nothing.
FetchProofs ==
    /\ pc = "proofs"
    /\ proofs' \in [persistent : BOOLEAN, route : BOOLEAN]
    /\ pc' = "funding"
    /\ UNCHANGED <<adopted, r, thr, own, rejected, raw, cand, exited, mode,
                   calm, sent>>

\* A v4 pool, a pool without liquidity or without a native leg.
FundingGates ==
    /\ pc = "funding"
    /\ Gate("candidate")

\* One and a half times the evolved floor, an authentic volume, bins in use,
\* twice the smallest TVL.
BaseEligible(x, t) ==
    /\ x.fee # Unknown => 2 * x.fee > 3 * t.fee
    /\ x.auth # Unknown /\ x.auth >= (IF x.fee # Unknown THEN 8 ELSE t.auth)
    /\ x.deep

\* mutant: the hysteresis looks at the collapse tier of the exit
YieldEligibleLoose(x, p) == x.drop <= 5 /\ x.yield >= 50 /\ p.persistent

\* The score of a pool in a drawdown is zero, and a yield that would be rotated
\* out is not entered.
YieldEligible(x, p) == x.drop <= 5 /\ x.yield >= 70 /\ p.persistent

\* old: the pool is past the launch, equity above its floor, no loss cooldown.
SafetyEligible(p, old) == p.route /\ old

\* Then the score, the allocation and the advisory token risk decide: an
\* allocation that refuses leaves a candidate if the tokens are clean.
Candidate ==
    /\ pc = "candidate"
    /\ \/ UNCHANGED <<adopted, raw, cand>>
       \/ /\ ~rejected
          /\ BaseEligible(r, thr) /\ YieldEligible(r, proofs)
          /\ \E old \in BOOLEAN : SafetyEligible(proofs, old)
          /\ cand' = "vetted"
          /\ raw' \in {"none", "harvest"}
    /\ pc' = "tail"
    /\ UNCHANGED <<adopted, r, thr, own, rejected, proofs, exited, mode, calm,
                   sent>>

\* A pool at its cap is captured on the base conditions and the score alone.
Capture ==
    /\ pc = "capture"
    /\ \/ UNCHANGED cand
       \/ BaseEligible(r, thr) /\ cand' = "capped"
    /\ pc' = "tail"
    /\ UNCHANGED <<adopted, r, thr, own, rejected, proofs, raw, exited, mode,
                   calm, sent>>

-----------------------------------------------------------------------------
(* The tail and the redeployment                                           *)

Opened(kind) == own' = own + 1 /\ mode' = kind /\ calm' = TRUE

\* The entry goes through or not; a HOLD may be made an exit and executed.
Tail ==
    /\ pc = "tail"
    /\ \/ raw # "none" /\ Opened(raw) /\ UNCHANGED exited
       \/ UNCHANGED <<own, mode, calm, exited>>
       \/ /\ raw = "none" /\ own > 0
          /\ own' = own - 1 /\ exited' = TRUE
          /\ mode' = "none" /\ calm' = FALSE
    /\ pc' = IF cand = "none" THEN "read" ELSE "redeploy"
    /\ UNCHANGED <<adopted, r, thr, rejected, proofs, raw, cand, sent>>

\* mutant: the risk engine counts the engine's own positions
RiskCapOwn == own < MaxPerPool

\* Gate 3a of the risk engine counts every position of the pool, the
\* allocation only those the engine opened.
RiskCap == own + adopted < MaxPerPool

\* The redeployment takes a candidate whose pool did not exit in this cycle
\* and has room; the pass may as well prefer another.
Redeploy ==
    /\ pc = "redeploy"
    /\ \/ UNCHANGED <<own, mode, calm, sent>>
       \/ /\ ~exited /\ own < MaxPerPool /\ RiskCap
          /\ Opened("redeploy")
          /\ sent' = cand
    /\ pc' = "read"
    /\ UNCHANGED <<adopted, r, thr, rejected, proofs, raw, cand, exited>>

Next ==
    \/ Evolve \/ Read \/ ExitPhase
    \/ FirstGates \/ FallenAngelEnter \/ FeeGates \/ FetchProofs
    \/ FundingGates
    \/ Candidate \/ Capture
    \/ Tail \/ Redeploy

Spec == Init /\ [][Next]_vars

-----------------------------------------------------------------------------
(* Properties                                                              *)

\* What the settings leave to the exit chain alone: a fee floor below the ratio (a half)
\* that a position is left at, a drawdown exit tighter than the hysteresis of the entry.
LooseSetting(x) ==
    \/ FeeFloor < 2 /\ x.fee # Unknown /\ x.fee < 2
    \/ ExitDrop < 5 /\ x.drop > ExitDrop

\* The exit chain takes out what the harvest gates or the redeployment entered, on the
\* same reading and thresholds, only for what no gate looks at or a setting that is looser
\* than the chain: wherever the thresholds have evolved, never for the volume, the yield
\* or a drawdown the gates judge.
EntryOutlives ==
    mode \in {"harvest", "redeploy"} /\ calm /\ ChainExits(r, thr) =>
       r.sinks \/ LooseSetting(r)

\* A candidate captured at the cap, past which most gates were skipped, is
\* never deployed: no gate it skipped can bite.
RedeployVetted == sent # "capped"

\* The comment on the hysteresis of the entry gates: a pool that would be
\* rotated out at once is never entered.
NeverRotatedOut == mode # "none" /\ calm => ~Rotated(r)

=============================================================================
