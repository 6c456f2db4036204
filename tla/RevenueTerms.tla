---------------------------- MODULE RevenueTerms ----------------------------
(***************************************************************************)
(* The terms under which fees are claimed: the cloud answers the tier of   *)
(* the account and the fee wallet, read one after the other (/v1/config),  *)
(* and the engine keeps the answer in memory for a while and in its        *)
(* database for outages (revenue-config-service.ts).  A rate stands for    *)
(* its tier.                                                               *)
(***************************************************************************)
EXTENDS Naturals

CONSTANTS
    Rate,        \* TIERS[].platformFeeRate; the free tier has 0
    MaxRate,     \* of the fail-closed terms
    Wallet,      \* fee wallets
    NoWallet,    \* the empty string, no wallet
    Paper,       \* paperTrading
    Ttl,         \* CACHE_TTL_MS, in ticks
    NegativeTtl, \* NEGATIVE_CACHE_TTL_MS
    MaxTime      \* bound: ticks

VARIABLES
    clock,
    rate, wallet,   \* in the cloud: the tier of the account, the fee wallet
    rateAt, walletAt,   \* history: when each was last in force
    key,        \* is there an API key?
    cached,     \* [terms, until], or None
    stored,     \* the metadata "revenue_config": the set of its terms, if any
    pc, asked,  \* the step of the engine, the rate its request read
    used,       \* history: what the last claim was given
    failed      \* history: when a fetch last failed, plus one; 0: never
vars == <<clock, rate, wallet, rateAt, walletAt, key, cached, stored, pc, asked, used, failed>>
cloud == <<rate, wallet, rateAt, walletAt, key>>

Default == [rate |-> 0, wallet |-> NoWallet]
None == [terms |-> Default, until |-> 0]
FailClosed == [rate |-> MaxRate, wallet |-> NoWallet]
Terms == [rate : Rate, wallet : Wallet \cup {NoWallet}]

TypeOK ==
    /\ clock \in 0 .. MaxTime /\ rate \in Rate /\ wallet \in Wallet \cup {NoWallet}
    /\ cached.terms \in Terms /\ stored \subseteq Terms /\ used \in Terms
    /\ pc \in {"idle", "fetch", "rest", "save", "fallback", "used"}

Init ==
    /\ clock = 0 /\ rate \in Rate /\ wallet = NoWallet /\ key \in BOOLEAN
    /\ rateAt = [r \in Rate |-> 0] /\ walletAt = [w \in Wallet \cup {NoWallet} |-> 0]
    /\ cached = None /\ stored = {} /\ pc = "idle" /\ asked = 0
    /\ used = Default /\ failed = 0

-----------------------------------------------------------------------------
(* The cloud and the credentials                                           *)

SetTier ==
    /\ \E r \in Rate : rate' = r /\ rateAt' = [rateAt EXCEPT ![rate] = clock, ![r] = clock]
    /\ UNCHANGED <<clock, wallet, walletAt, key, cached, stored, pc, asked, used, failed>>
\* PUT /v1/fee-wallet.
SetWallet ==
    /\ \E w \in Wallet : /\ wallet' = w
                         /\ walletAt' = [walletAt EXCEPT ![wallet] = clock, ![w] = clock]
    /\ UNCHANGED <<clock, rate, rateAt, key, cached, stored, pc, asked, used, failed>>
Credentials ==
    /\ pc = "idle" /\ key' = ~key
    /\ UNCHANGED <<clock, rate, wallet, rateAt, walletAt, cached, stored, pc, asked, used, failed>>

-----------------------------------------------------------------------------
(* getConfig                                                               *)

\* sanitizeRevenueConfig: no wallet, no fee.
Unsanitized(t) == t   \* the fallbacks as they are (a mutant)
Sanitized(t) == IF t.wallet = NoWallet THEN Default ELSE t

KeptAnyway == cached # None   \* a cache without a lifetime (a mutant)
Kept == cached # None /\ clock < cached.until

Use(t) == used' = Sanitized(t) /\ pc' = "used"
Keep(t, ttl) == cached' = [terms |-> t, until |-> clock + ttl]

\* resolveConfig: the cache, the defaults without a key, or a fetch.
GetConfig ==
    /\ pc = "idle"
    /\ \/ Kept /\ Use(cached.terms)
       \/ ~Kept /\ ~key /\ Use(Default)
       \/ ~Kept /\ key /\ pc' = "fetch" /\ UNCHANGED used
    /\ UNCHANGED <<clock, cloud, cached, stored, asked, failed>>

\* /v1/config reads the tier, then the wallet; every attempt may fail.
FetchTier ==
    /\ pc = "fetch" /\ pc' = "rest" /\ asked' = rate
    /\ UNCHANGED <<clock, cloud, cached, stored, used, failed>>
FetchRest ==
    /\ pc = "rest" /\ pc' = "save" /\ Keep([rate |-> asked, wallet |-> wallet], Ttl)
    /\ UNCHANGED <<clock, cloud, stored, asked, used, failed>>
Failed ==
    /\ pc \in {"fetch", "rest"} /\ pc' = "fallback" /\ failed' = clock + 1
    /\ UNCHANGED <<clock, cloud, cached, stored, asked, used>>

Save ==
    /\ pc = "save" /\ stored' = {cached.terms} /\ Use(cached.terms)
    /\ UNCHANGED <<clock, cloud, cached, asked, failed>>

\* The last answer of the database, kept as long as a fresh one; else the
\* defaults, or without paper trading the highest rate, for a short while.
Last == IF Paper THEN Default ELSE FailClosed
Fallback ==
    /\ pc = "fallback"
    /\ \/ \E t \in stored : Keep(t, Ttl) /\ Use(t)
       \/ stored = {} /\ Keep(Last, NegativeTtl) /\ Use(Last)
    /\ UNCHANGED <<clock, cloud, stored, asked, failed>>

\* The pass of claims under these terms ends.
Claimed ==
    /\ pc = "used" /\ pc' = "idle"
    /\ UNCHANGED <<clock, cloud, cached, stored, asked, used, failed>>
Crash ==
    /\ pc' = "idle" /\ cached' = None
    /\ UNCHANGED <<clock, cloud, stored, asked, used, failed>>

\* A tick is longer than the retries of a fetch.
Tick ==
    /\ clock < MaxTime /\ pc = "idle" /\ clock' = clock + 1
    /\ rateAt' = [rateAt EXCEPT ![rate] = clock + 1]
    /\ walletAt' = [walletAt EXCEPT ![wallet] = clock + 1]
    /\ UNCHANGED <<rate, wallet, key, cached, stored, pc, asked, used, failed>>

Next ==
    \/ SetTier \/ SetWallet \/ Credentials \/ GetConfig \/ FetchTier \/ FetchRest
    \/ Failed \/ Save \/ Fallback \/ Claimed \/ Crash \/ Tick
Spec == Init /\ [][Next]_vars

(* No claim is made at a rate without a wallet to pay it to, whatever was     *)
(* answered, stored or fallen back to (sanitizeRevenueConfig).                *)
NoFeeWithoutWallet == used.rate > 0 => used.wallet # NoWallet

(* Terms a fee is claimed under were in force within the lifetime of the      *)
(* cache, through crashes and expiries; only an outage within that lifetime   *)
(* excuses older ones (resolveConfig).                                        *)
TermsInForce ==
    pc = "used" /\ used # Default /\ (failed = 0 \/ failed - 1 + Ttl < clock) =>
       rateAt[used.rate] + Ttl >= clock /\ walletAt[used.wallet] + Ttl >= clock
=============================================================================
