----------------------------- MODULE TokenRisk -----------------------------
(***************************************************************************)
(* What the engine believes of a token: the verdict of the probes it runs  *)
(* against the node (evm-token-risk.ts), kept by the pool screening, and   *)
(* the signal of the Jupiter listing (token-risk-service.ts), kept for a   *)
(* time and asked for again when it expires.  Each read of the node may    *)
(* fail by itself, the listing may be out of reach and may change.  The    *)
(* sell-route probe is left out (no caller passes a route), and the cap of *)
(* a thousand signals.  The mints are those nobody vouches for: a trusted  *)
(* one (stablecoins, WETH, native) is never probed, the screening skips it *)
(* and the prober answers ok for it.                                       *)
(***************************************************************************)
EXTENDS Naturals

CONSTANTS
    Mint,
    Tokens,     \* the sets of flaws a token may have
    Ttl,        \* JUPITER_TOKEN_RISK_CACHE_TTL_MIN, in ticks
    Challenge   \* CHALLENGE_MODE

VARIABLES
    token,     \* mint -> its flaws
    verdict,   \* tokenRiskCache: mint -> "none", "ok", "warn", "reject"
    listed,    \* mint -> what the listing says of it now
    cache,     \* mint -> the signal kept and its age
    \* observation
    told,      \* mint -> what the last answer of the listing said
    served     \* mint -> what the last consult returned

probes == <<token, verdict>>
signals == <<listed, cache, told, served>>
vars == <<token, verdict, listed, cache, told, served>>

Flaw == {"empty", "methods", "honeypot", "taxed", "tax", "frozen", "slots", "owner", "proxy"}
Signal == {"sus", "verified", "plain", "unlisted"}
NoEntry == [signal |-> "none", age |-> 0]

TypeOK ==
    /\ token \in [Mint -> SUBSET Flaw]
    /\ verdict \in [Mint -> {"none", "ok", "warn", "reject"}]
    /\ listed \in [Mint -> Signal] /\ told \in [Mint -> Signal] /\ served \in [Mint -> Signal]
    /\ cache \in [Mint -> {NoEntry} \cup [signal : Signal, age : 0 .. Ttl]]

Init ==
    /\ token \in [Mint -> Tokens]
    /\ verdict = [m \in Mint |-> "none"]
    /\ listed \in [Mint -> Signal]
    /\ cache = [m \in Mint |-> NoEntry]
    /\ told = [m \in Mint |-> "unlisted"] /\ served = told

-----------------------------------------------------------------------------
(* The probes; r is how the node answered one of them                      *)

Answer == {"read", "failed", "short"}

\* A failed read of the code looks like no code, a failed call like a revert.
Sanity(t, r) ==
    IF r # "read" \/ "empty" \in t THEN "fail" ELSE IF "methods" \in t THEN "warn" ELSE "pass"

\* Where eth_simulateV1 fails, or funding the probe address takes no effect, nothing
\* is verified.
Simulated(t, r, result) ==
    CASE r = "short" -> "fail" [] r = "failed" \/ "slots" \in t -> "warn" [] OTHER -> result

\* The transfer reverts, credits nothing or loses more than the limit; or less.
Tax(t, r) ==
    Simulated(t, r, IF t \cap {"honeypot", "taxed"} # {} THEN "fail"
                    ELSE IF "tax" \in t THEN "warn" ELSE "pass")

TransferFrom(t, r) == Simulated(t, r, IF "frozen" \in t THEN "fail" ELSE "pass")

\* A read that fails finds no owner and no proxy.
Owner(t, r) == IF r = "read" /\ "owner" \in t THEN "warn" ELSE "pass"
Upgradable(t, r) == IF r = "read" /\ "proxy" \in t THEN "warn" ELSE "pass"

Composite(statuses) ==
    IF "fail" \in statuses THEN "reject" ELSE IF "warn" \in statuses THEN "warn" ELSE "ok"

\* checkTokenRiskStage assesses a mint it has no verdict on.
Assess(m) ==
    /\ verdict[m] = "none"
    /\ \E sanity, tax, pull, owner, proxy \in Answer :
         verdict' = [verdict EXCEPT ![m] =
             Composite({Sanity(token[m], sanity), Tax(token[m], tax), TransferFrom(token[m], pull),
                        Owner(token[m], owner), Upgradable(token[m], proxy)})]
    /\ UNCHANGED <<token, signals>>

\* refreshHarvestBook clears the verdicts; it returns at once outside challenge mode.
RefreshHarvestBook ==
    /\ Challenge
    /\ verdict' = [m \in Mint |-> "none"]
    /\ UNCHANGED <<token, signals>>

-----------------------------------------------------------------------------
(* The listing                                                             *)

Lists(m) ==
    /\ \E s \in Signal : listed' = [listed EXCEPT ![m] = s]
    /\ UNCHANGED <<probes, cache, told, served>>

Tick ==
    /\ cache' = [m \in Mint |-> IF cache[m] = NoEntry \/ cache[m].age = Ttl THEN cache[m]
                                ELSE [cache[m] EXCEPT !.age = @ + 1]]
    /\ UNCHANGED <<probes, listed, told, served>>

Expired(e) == e # NoEntry /\ e.age = Ttl
ToFetch(e) == e = NoEntry \/ Expired(e)
Kept(e) == IF e = NoEntry THEN "unlisted" ELSE e.signal
Pruned(e) == IF Expired(e) THEN NoEntry ELSE e

\* Mutant: what the listing omits keeps its signal.
EntryKept(e, s) ==
    IF s = "unlisted" /\ e # NoEntry THEN [e EXCEPT !.age = 0] ELSE [signal |-> s, age |-> 0]

\* What the listing omits is kept as unlisted, and not served.
Entry(e, s) == [signal |-> s, age |-> 0]

\* consultTokenRisks for the legs M of a pool; an answer that is not a list is an
\* outage, which serves what is kept, stale or not. Then whatever expired is removed.
Consult(M, outage) ==
    LET fetched == IF outage THEN {} ELSE {m \in M : ToFetch(cache[m])}
        resolved == [m \in Mint |-> IF m \in fetched THEN Entry(cache[m], listed[m]) ELSE cache[m]]
    IN  /\ cache' = [m \in Mint |-> Pruned(resolved[m])]
        /\ told' = [m \in Mint |-> IF m \in fetched THEN listed[m] ELSE told[m]]
        /\ served' = [m \in Mint |-> IF m \in M THEN Kept(resolved[m]) ELSE served[m]]
        /\ UNCHANGED <<probes, listed>>

Next ==
    \/ \E m \in Mint : Assess(m) \/ Lists(m)
    \/ RefreshHarvestBook \/ Tick
    \/ \E M \in SUBSET Mint \ {{}}, outage \in BOOLEAN : Consult(M, outage)

Spec == Init /\ [][Next]_vars

-----------------------------------------------------------------------------
(* Properties                                                              *)

\* A signal is served as the listing last told it: one it has dropped since, a
\* verification revoked included, no longer exempts a pool, whatever expired or
\* failed in between.
ServedAsTold == \A m \in Mint : served[m] \in {told[m], "unlisted"}

\* No token is passed whose transfers or pulls fail, are taxed or were not verified,
\* whichever of the reads failed.
OkVerified == \A m \in Mint : verdict[m] = "ok" => token[m] \subseteq {"owner", "proxy"}

\* "Probe failures fail WARN (advisory)" (checkTokenRiskStage): a token without a
\* flaw is not rejected.
SoundNotRejected == \A m \in Mint : verdict[m] = "reject" => token[m] # {}

\* "on any fetch failure the last known (possibly stale) signals are served"
\* (consultTokenRisks): what the listing told of a token is not forgotten.
SignalRemembered == \A m \in Mint : told[m] = "sus" => served[m] = "sus"

=============================================================================
