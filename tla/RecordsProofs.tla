--------------------------- MODULE RecordsProofs ---------------------------
(***************************************************************************)
(* Proofs about the parts that MCRecords holds: of funds, the terms of the *)
(* fees, the funding of an entry, the harvest and the books of an exit; of *)
(* what is delivered, reports, alerts, feedback and the engine's status;   *)
(* and of what is entered: gates, candidates and sizes.                    *)
(* The variables of a part are read under the names MCRecords substitutes: *)
(* s1, s2, ... in the order in which the part declares them.  For each     *)
(* part: the invariant holds initially, every step keeps it, it implies    *)
(* what the part promises; PartsProofs draws the theorems from them.       *)
(***************************************************************************)
EXTENDS MCRecords, Integers, FiniteSetTheorems, WellFoundedInduction, TLAPS

-----------------------------------------------------------------------------
(* RevenueTerms                                                            *)

Wallets0 == FeeWallet \cup {"none"}

\* Terms are good until u: they charge nothing, or both halves were in force less than
\* a lifetime before u, or a fetch failed less than a lifetime before u.
Good(rateAt, walletAt, failed, t, u) ==
    \/ Tariff!Sanitized(t) = Tariff!Default
    \/ /\ t.rate \in Tier /\ t.wallet \in Wallets0
       /\ rateAt[t.rate] + TermsTtl >= u /\ walletAt[t.wallet] + TermsTtl >= u
    \/ failed > 0 /\ failed - 1 + TermsTtl >= u

\* What is in force now was last in force now.
ForceInv ==
    /\ s1 \in Nat /\ s12 \in Nat /\ s2 \in Tier /\ s3 \in Wallets0
    /\ s4 \in [Tier -> Nat] /\ s5 \in [Wallets0 -> Nat]
    /\ \A r \in Tier : s4[r] <= s1
    /\ \A w \in Wallets0 : s5[w] <= s1
    /\ s12 <= s1 + 1
    /\ s4[s2] = s1 /\ s5[s3] = s1

CacheInv == s7.until \in Nat /\ Good(s4, s5, s12, s7.terms, s7.until)

\* What a request carries is of this tick.
RequestInv ==
    /\ s9 = "rest" => s10 \in Tier /\ s4[s10] = s1
    /\ s9 = "save" => /\ s7.terms.rate \in Tier /\ s7.terms.wallet \in Wallets0
                      /\ s4[s7.terms.rate] = s1 /\ s5[s7.terms.wallet] = s1
    /\ s9 = "fallback" => s12 = s1 + 1

UsedInv ==
    /\ s11 = Tariff!Default \/ s11.wallet # "none"
    /\ s9 = "used" => Good(s4, s5, s12, s11, s1)

TariffInv == ForceInv /\ CacheInv /\ RequestInv /\ UsedInv

LEMMA TariffInit == ASSUME Tariff!Init PROVE TariffInv
<1> USE RecordsAssumption DEF TermsAssumption, Tariff!Init, Wallets0
<1>1. ForceInv
  BY DEF ForceInv
<1>2. s7.until = 0 /\ s7.terms = Tariff!Default
  BY DEF Tariff!None
<1>3. Tariff!Sanitized(Tariff!Default) = Tariff!Default
  BY DEF Tariff!Sanitized, Tariff!Default
<1> QED BY <1>1, <1>2, <1>3 DEF TariffInv, CacheInv, RequestInv, UsedInv, Good

LEMMA TariffClaims == TariffInv => Tariff!NoFeeWithoutWallet /\ Tariff!TermsInForce
<1> SUFFICES ASSUME TariffInv PROVE Tariff!NoFeeWithoutWallet /\ Tariff!TermsInForce
  OBVIOUS
<1> USE RecordsAssumption DEF TermsAssumption, TariffInv
<1>1. Tariff!NoFeeWithoutWallet
  BY DEF UsedInv, Tariff!NoFeeWithoutWallet, Tariff!Default
<1>2. Tariff!TermsInForce
  <2> SUFFICES ASSUME s9 = "used", s11 # Tariff!Default, s12 = 0 \/ s12 - 1 + TermsTtl < s1
               PROVE  s4[s11.rate] + TermsTtl >= s1 /\ s5[s11.wallet] + TermsTtl >= s1
    BY DEF Tariff!TermsInForce
  <2>1. Tariff!Sanitized(s11) = s11
    BY DEF UsedInv, Tariff!Sanitized
  <2>2. Good(s4, s5, s12, s11, s1)
    BY DEF UsedInv
  <2> QED BY <2>1, <2>2 DEF Good, ForceInv
<1> QED BY <1>1, <1>2

\* Terms stay good while what is in force only gets more recent.
LEMMA GoodStays ==
    ASSUME ForceInv, ForceInv', NEW t, NEW u \in Nat, Good(s4, s5, s12, t, u),
           \A r \in Tier : s4'[r] >= s4[r], \A w \in Wallets0 : s5'[w] >= s5[w],
           s12' >= s12
    PROVE  Good(s4', s5', s12', t, u)
<1> USE RecordsAssumption DEF TermsAssumption, ForceInv
<1>1. CASE Tariff!Sanitized(t) = Tariff!Default
  BY <1>1 DEF Good
<1>2. CASE /\ t.rate \in Tier /\ t.wallet \in Wallets0
           /\ s4[t.rate] + TermsTtl >= u /\ s5[t.wallet] + TermsTtl >= u
  <2>1. /\ s4[t.rate] \in Nat /\ s4'[t.rate] \in Nat /\ s4'[t.rate] >= s4[t.rate]
        /\ s5[t.wallet] \in Nat /\ s5'[t.wallet] \in Nat /\ s5'[t.wallet] >= s5[t.wallet]
    BY <1>2
  <2>2. s4'[t.rate] + TermsTtl >= u /\ s5'[t.wallet] + TermsTtl >= u
    BY <1>2, <2>1
  <2> QED BY <1>2, <2>2 DEF Good
<1>3. CASE s12 > 0 /\ s12 - 1 + TermsTtl >= u
  <2>1. s12 \in Nat /\ s12' \in Nat /\ TermsTtl \in Nat
    OBVIOUS
  <2> HIDE RecordsAssumption DEF ForceInv
  <2>2. \A m, n \in Nat : m > 0 /\ m - 1 + TermsTtl >= u /\ n >= m =>
          n > 0 /\ n - 1 + TermsTtl >= u
    BY <2>1
  <2>3. s12' > 0 /\ s12' - 1 + TermsTtl >= u
    BY <1>3, <2>1, <2>2
  <2> QED BY <2>3 DEF Good
<1> QED BY <1>1, <1>2, <1>3 DEF Good

\* What is good is used as good.
LEMMA GoodUsed ==
    ASSUME ForceInv, NEW t, NEW u \in Nat, Good(s4, s5, s12, t, u), u >= s1
    PROVE  /\ Good(s4, s5, s12, Tariff!Sanitized(t), s1)
           /\ Tariff!Sanitized(t) = Tariff!Default \/ Tariff!Sanitized(t).wallet # "none"
<1> USE RecordsAssumption DEF TermsAssumption, ForceInv
<1>0. Tariff!Sanitized(Tariff!Default) = Tariff!Default
  BY DEF Tariff!Sanitized, Tariff!Default
<1>1. CASE Tariff!Sanitized(t) = Tariff!Default
  BY <1>0, <1>1 DEF Good
<1>2. CASE Tariff!Sanitized(t) # Tariff!Default
  <2>1. Tariff!Sanitized(t) = t /\ t.wallet # "none"
    BY <1>2 DEF Tariff!Sanitized
  <2>2. CASE /\ t.rate \in Tier /\ t.wallet \in Wallets0
             /\ s4[t.rate] + TermsTtl >= u /\ s5[t.wallet] + TermsTtl >= u
    <3>1. s4[t.rate] \in Nat /\ s5[t.wallet] \in Nat
      BY <2>2
    <3> QED BY <2>1, <2>2, <3>1 DEF Good
  <2>3. CASE s12 > 0 /\ s12 - 1 + TermsTtl >= u
    BY <2>1, <2>3 DEF Good
  <2> QED BY <1>2, <2>1, <2>2, <2>3 DEF Good
<1> QED BY <1>1, <1>2

LEMMA TariffNext ==
    ASSUME TariffInv,
           [Tariff!Next]_<<s1, s2, s3, s4, s5, s6, s7, s8, s9, s10, s11, s12>>
    PROVE  TariffInv'
<1> USE RecordsAssumption DEF TermsAssumption, Tariff!cloud
<1>f. ForceInv /\ CacheInv /\ RequestInv /\ UsedInv
  BY DEF TariffInv
<1>w. s2 \in Tier /\ s3 \in Wallets0 /\ "none" \in Wallets0
  BY <1>f DEF ForceInv, Wallets0
\* A step of the cloud or the clock, which leaves the engine alone.
<1>c. ASSUME ForceInv', UNCHANGED <<s7, s8, s10, s11, s12>>,
             \A r \in Tier : s4'[r] >= s4[r], \A w \in Wallets0 : s5'[w] >= s5[w],
             s1' = s1 /\ s9' = s9
      PROVE  TariffInv'
  <2>1. CacheInv'
    BY <1>c, <1>f, GoodStays DEF CacheInv, ForceInv
  <2>2. RequestInv'
    <3>1. ASSUME s9 = "rest" PROVE s10 \in Tier /\ s4'[s10] = s1
      <4>1. s10 \in Tier /\ s4[s10] = s1 /\ s4'[s10] >= s4[s10] /\ s4'[s10] <= s1
        BY <3>1, <1>c, <1>f DEF RequestInv, ForceInv
      <4> QED BY <4>1, <1>c, <1>f DEF ForceInv
    <3>2. ASSUME s9 = "save"
          PROVE  /\ s7.terms.rate \in Tier /\ s7.terms.wallet \in Wallets0
                 /\ s4'[s7.terms.rate] = s1 /\ s5'[s7.terms.wallet] = s1
      <4> DEFINE r == s7.terms.rate
                 w == s7.terms.wallet
      <4>1. r \in Tier /\ w \in Wallets0 /\ s4[r] = s1 /\ s5[w] = s1
        BY <3>2, <1>f DEF RequestInv
      <4>2. s4'[r] >= s1 /\ s4'[r] <= s1 /\ s5'[w] >= s1 /\ s5'[w] <= s1
        BY <4>1, <1>c DEF ForceInv
      <4>3. s4'[r] \in Nat /\ s5'[w] \in Nat /\ s1 \in Nat
        BY <4>1, <1>c, <1>f DEF ForceInv
      <4> HIDE DEF r, w
      <4>4. s4'[r] = s1 /\ s5'[w] = s1
        BY <4>2, <4>3
      <4> QED BY <4>1, <4>4 DEF r, w
    <3> QED BY <3>1, <3>2, <1>c, <1>f DEF RequestInv
  <2>3. UsedInv'
    <3>1. s9 = "used" => Good(s4', s5', s12', s11, s1)
      BY <1>c, <1>f, GoodStays DEF UsedInv, ForceInv
    <3> QED BY <3>1, <1>c, <1>f DEF UsedInv
  <2> QED BY <1>c, <2>1, <2>2, <2>3 DEF TariffInv
<1>1. CASE Tariff!SetTier
  <2>1. PICK r \in Tier : s2' = r /\ s4' = [s4 EXCEPT ![s2] = s1, ![r] = s1]
    BY <1>1 DEF Tariff!SetTier
  <2>2. UNCHANGED <<s1, s3, s5, s6, s7, s8, s9, s10, s11, s12>>
    BY <1>1 DEF Tariff!SetTier
  <2>3. s4' \in [Tier -> Nat] /\ \A q \in Tier : s4'[q] = s4[q] \/ s4'[q] = s1
    BY <2>1, <1>f DEF ForceInv
  <2>4. \A q \in Tier : s4'[q] >= s4[q] /\ s4'[q] <= s1
    BY <2>3, <1>f DEF ForceInv
  <2>5. s4'[s2'] = s1
    BY <2>1, <1>f DEF ForceInv
  <2>6. ForceInv'
    BY <2>1, <2>2, <2>3, <2>4, <2>5, <1>f DEF ForceInv
  <2>7. \A w \in Wallets0 : s5'[w] >= s5[w]
    BY <2>2, <1>f DEF ForceInv
  <2> QED BY <2>2, <2>4, <2>6, <2>7, <1>c
<1>2. CASE Tariff!SetWallet
  <2>1. PICK w \in FeeWallet : s3' = w /\ s5' = [s5 EXCEPT ![s3] = s1, ![w] = s1]
    BY <1>2 DEF Tariff!SetWallet
  <2>2. UNCHANGED <<s1, s2, s4, s6, s7, s8, s9, s10, s11, s12>>
    BY <1>2 DEF Tariff!SetWallet
  <2>w. w \in Wallets0
    BY DEF Wallets0
  <2>3. s5' \in [Wallets0 -> Nat] /\ \A q \in Wallets0 : s5'[q] = s5[q] \/ s5'[q] = s1
    BY <2>1, <1>f DEF ForceInv
  <2>4. \A q \in Wallets0 : s5'[q] >= s5[q] /\ s5'[q] <= s1
    BY <2>3, <1>f DEF ForceInv
  <2>5. s5'[s3'] = s1 /\ s3' \in Wallets0
    BY <2>1, <2>w, <1>f DEF ForceInv
  <2>6. ForceInv'
    BY <2>1, <2>2, <2>3, <2>4, <2>5, <1>f DEF ForceInv
  <2>7. \A r \in Tier : s4'[r] >= s4[r]
    BY <2>2, <1>f DEF ForceInv
  <2> QED BY <2>2, <2>4, <2>6, <2>7, <1>c
\* A step of the engine, which leaves the cloud and the clock alone.
<1>e. ASSUME UNCHANGED <<s1, s2, s3, s4, s5>>, s12' \in {s12, s1 + 1}
      PROVE  /\ ForceInv' /\ s12' >= s12
             /\ \A r \in Tier : s4'[r] >= s4[r]
             /\ \A w \in Wallets0 : s5'[w] >= s5[w]
  BY <1>e, <1>f DEF ForceInv
<1>3. CASE Tariff!Credentials
  BY <1>3, <1>f, <1>e DEF Tariff!Credentials, TariffInv, ForceInv, CacheInv, RequestInv, UsedInv
<1>4. CASE Tariff!GetConfig
  <2>1. UNCHANGED <<s1, s2, s3, s4, s5, s6, s7, s8, s10, s12>>
    BY <1>4 DEF Tariff!GetConfig
  <2>2. ForceInv' /\ CacheInv'
    BY <2>1, <1>f, <1>e DEF CacheInv
  <2>3. CASE Tariff!Kept /\ Tariff!Use(s7.terms)
    <3>1. s7.until >= s1
      BY <2>3, <1>f DEF Tariff!Kept, CacheInv, ForceInv
    <3>2. /\ Good(s4, s5, s12, Tariff!Sanitized(s7.terms), s1)
          /\ \/ Tariff!Sanitized(s7.terms) = Tariff!Default
             \/ Tariff!Sanitized(s7.terms).wallet # "none"
      BY <3>1, <1>f, GoodUsed DEF CacheInv
    <3>3. s11' = Tariff!Sanitized(s7.terms) /\ s9' = "used"
      BY <2>3 DEF Tariff!Use
    <3> QED BY <2>1, <2>2, <3>2, <3>3 DEF TariffInv, RequestInv, UsedInv
  <2>4. CASE Tariff!Use(Tariff!Default)
    <3>1. Tariff!Sanitized(Tariff!Default) = Tariff!Default
      BY DEF Tariff!Sanitized, Tariff!Default
    <3> QED BY <2>1, <2>2, <2>4, <3>1 DEF Tariff!Use, TariffInv, RequestInv, UsedInv, Good
  <2>5. CASE s9' = "fetch" /\ UNCHANGED s11
    BY <2>1, <2>2, <2>5, <1>f DEF TariffInv, RequestInv, UsedInv
  <2> QED BY <1>4, <2>3, <2>4, <2>5 DEF Tariff!GetConfig
<1>5. CASE Tariff!FetchTier
  <2>1. UNCHANGED <<s1, s2, s3, s4, s5, s7, s11, s12>> /\ s9' = "rest" /\ s10' = s2
    BY <1>5 DEF Tariff!FetchTier
  <2>2. ForceInv' /\ CacheInv'
    BY <2>1, <1>f, <1>e DEF CacheInv
  <2>3. RequestInv'
    BY <2>1, <1>f DEF RequestInv, ForceInv
  <2> QED BY <2>1, <2>2, <2>3, <1>f DEF TariffInv, UsedInv
<1>6. CASE Tariff!FetchRest
  <2> DEFINE t == [rate |-> s10, wallet |-> s3]
  <2>1. /\ UNCHANGED <<s1, s2, s3, s4, s5, s11, s12>> /\ s9 = "rest" /\ s9' = "save"
        /\ s7' = [terms |-> t, until |-> s1 + TermsTtl]
    BY <1>6 DEF Tariff!FetchRest, Tariff!Keep
  <2>2. ForceInv'
    BY <2>1, <1>e
  <2>3. /\ s7'.terms.rate = s10 /\ s7'.terms.wallet = s3 /\ s7'.until = s1 + TermsTtl
        /\ s10 \in Tier /\ s4[s10] = s1 /\ s5[s3] = s1 /\ s3 \in Wallets0 /\ s1 \in Nat
    BY <2>1, <1>f DEF RequestInv, ForceInv
  <2>4. RequestInv'
    BY <2>1, <2>3 DEF RequestInv
  <2>5. CacheInv'
    <3>1. s7'.until \in Nat
      BY <2>3
    <3>2. s4[s10] + TermsTtl >= s7'.until /\ s5[s3] + TermsTtl >= s7'.until
      BY <2>3
    <3> QED BY <2>1, <2>3, <3>1, <3>2 DEF CacheInv, Good
  <2> QED BY <2>1, <2>2, <2>4, <2>5, <1>f DEF TariffInv, UsedInv
<1>7. CASE Tariff!Failed
  <2>1. UNCHANGED <<s1, s2, s3, s4, s5, s7, s11>> /\ s9' = "fallback" /\ s12' = s1 + 1
    BY <1>7 DEF Tariff!Failed
  <2>2. ForceInv' /\ Good(s4', s5', s12', s7.terms, s7.until)
    BY <2>1, <1>f, <1>e, GoodStays DEF CacheInv
  <2> QED BY <2>1, <2>2, <1>f DEF TariffInv, CacheInv, RequestInv, UsedInv
<1>8. CASE Tariff!Save
  <2>1. /\ UNCHANGED <<s1, s2, s3, s4, s5, s7, s12>> /\ s9 = "save" /\ s9' = "used"
        /\ s11' = Tariff!Sanitized(s7.terms)
    BY <1>8 DEF Tariff!Save, Tariff!Use
  <2>2. ForceInv' /\ CacheInv'
    BY <2>1, <1>f, <1>e DEF CacheInv
  <2>3. Good(s4, s5, s12, s7.terms, s1)
    BY <2>1, <1>f DEF RequestInv, Good, ForceInv
  <2>4. /\ Good(s4, s5, s12, s11', s1)
        /\ s11' = Tariff!Default \/ s11'.wallet # "none"
    BY <2>1, <2>3, <1>f, GoodUsed DEF ForceInv
  <2> QED BY <2>1, <2>2, <2>4 DEF TariffInv, RequestInv, UsedInv
<1>9. CASE Tariff!Fallback
  <2>1. UNCHANGED <<s1, s2, s3, s4, s5, s12>> /\ s9 = "fallback" /\ s12 = s1 + 1
    BY <1>9, <1>f DEF Tariff!Fallback, RequestInv
  <2>2. ForceInv'
    BY <2>1, <1>e
  <2>a. \E t : \E ttl \in Nat :
          Tariff!Keep(t, ttl) /\ Tariff!Use(t) /\ Good(s4, s5, s12, t, s1 + ttl)
    <3>1. CASE \E t \in s8 : Tariff!Keep(t, TermsTtl) /\ Tariff!Use(t)
      <4>1. PICK t \in s8 : Tariff!Keep(t, TermsTtl) /\ Tariff!Use(t)
        BY <3>1
      <4>2. s12 > 0 /\ s12 - 1 + TermsTtl >= s1 + TermsTtl
        BY <2>1, <1>f DEF ForceInv
      <4>3. Good(s4, s5, s12, t, s1 + TermsTtl)
        BY <4>2 DEF Good
      <4> QED BY <4>1, <4>3
    <3>2. CASE Tariff!Keep(Tariff!Last, NegativeTtl) /\ Tariff!Use(Tariff!Last)
      <4>1. Tariff!Sanitized(Tariff!Last) = Tariff!Default
        BY DEF Tariff!Sanitized, Tariff!Last, Tariff!Default, Tariff!FailClosed
      <4>2. Good(s4, s5, s12, Tariff!Last, s1 + NegativeTtl)
        BY <4>1 DEF Good
      <4> QED BY <3>2, <4>2
    <3> QED BY <1>9, <3>1, <3>2 DEF Tariff!Fallback
  <2>b. PICK t : \E ttl \in Nat :
          Tariff!Keep(t, ttl) /\ Tariff!Use(t) /\ Good(s4, s5, s12, t, s1 + ttl)
    BY <2>a
  <2>3. PICK ttl \in Nat :
          Tariff!Keep(t, ttl) /\ Tariff!Use(t) /\ Good(s4, s5, s12, t, s1 + ttl)
    BY <2>b
  <2>4. s7' = [terms |-> t, until |-> s1 + ttl] /\ s9' = "used" /\ s11' = Tariff!Sanitized(t)
    BY <2>3 DEF Tariff!Keep, Tariff!Use
  <2>5. s1 + ttl \in Nat /\ s1 + ttl >= s1
    BY <1>f DEF ForceInv
  <2>6. CacheInv'
    BY <2>1, <2>3, <2>4, <2>5 DEF CacheInv
  <2>7. Good(s4, s5, s12, s11', s1) /\ (s11' = Tariff!Default \/ s11'.wallet # "none")
    BY <2>3, <2>4, <2>5, <1>f, GoodUsed
  <2> QED BY <2>1, <2>2, <2>4, <2>6, <2>7 DEF TariffInv, RequestInv, UsedInv
<1>10. CASE Tariff!Claimed
  <2>1. UNCHANGED <<s1, s2, s3, s4, s5, s7, s11, s12>> /\ s9' = "idle"
    BY <1>10 DEF Tariff!Claimed
  <2>2. ForceInv' /\ CacheInv'
    BY <2>1, <1>f, <1>e DEF CacheInv
  <2> QED BY <2>1, <2>2, <1>f DEF TariffInv, RequestInv, UsedInv
<1>11. CASE Tariff!Crash
  <2>1. UNCHANGED <<s1, s2, s3, s4, s5, s11, s12>> /\ s9' = "idle" /\ s7' = Tariff!None
    BY <1>11 DEF Tariff!Crash
  <2>2. s7'.until = 0 /\ Tariff!Sanitized(s7'.terms) = Tariff!Default
    BY <2>1 DEF Tariff!None, Tariff!Sanitized, Tariff!Default
  <2>3. ForceInv' /\ CacheInv'
    BY <2>1, <2>2, <1>e DEF CacheInv, Good
  <2> QED BY <2>1, <2>3, <1>f DEF TariffInv, RequestInv, UsedInv
<1>12. CASE Tariff!Tick
  <2>1. /\ UNCHANGED <<s2, s3, s7, s9, s11, s12>> /\ s9 = "idle" /\ s1' = s1 + 1
        /\ s4' = [s4 EXCEPT ![s2] = s1 + 1] /\ s5' = [s5 EXCEPT ![s3] = s1 + 1]
    BY <1>12 DEF Tariff!Tick
  <2>2. /\ s4' \in [Tier -> Nat] /\ s5' \in [Wallets0 -> Nat]
        /\ s4'[s2] = s1 + 1 /\ s5'[s3] = s1 + 1
        /\ \A r \in Tier : s4'[r] = s4[r] \/ s4'[r] = s1 + 1
        /\ \A w \in Wallets0 : s5'[w] = s5[w] \/ s5'[w] = s1 + 1
    BY <2>1, <1>f DEF ForceInv
  <2>3. /\ \A r \in Tier : s4'[r] >= s4[r] /\ s4'[r] <= s1 + 1
        /\ \A w \in Wallets0 : s5'[w] >= s5[w] /\ s5'[w] <= s1 + 1
    BY <2>2, <1>f DEF ForceInv
  <2>4. ForceInv'
    BY <2>1, <2>2, <2>3, <1>f DEF ForceInv
  <2>5. Good(s4', s5', s12', s7.terms, s7.until)
    <3>1. ForceInv /\ s7.until \in Nat /\ Good(s4, s5, s12, s7.terms, s7.until)
      BY <1>f DEF CacheInv
    <3>2. s12' >= s12
      BY <2>1, <1>f DEF ForceInv
    <3> HIDE DEF ForceInv
    <3> QED BY <2>3, <2>4, <3>1, <3>2, GoodStays
  <2> QED BY <2>1, <2>4, <2>5, <1>f DEF TariffInv, CacheInv, RequestInv, UsedInv
<1>13. CASE UNCHANGED <<s1, s2, s3, s4, s5, s6, s7, s8, s9, s10, s11, s12>>
  BY <1>13, <1>f DEF TariffInv, ForceInv, CacheInv, RequestInv, UsedInv
<1> QED
  BY <1>1, <1>2, <1>3, <1>4, <1>5, <1>6, <1>7, <1>8, <1>9, <1>10, <1>11, <1>12, <1>13
  DEF Tariff!Next

-----------------------------------------------------------------------------
(* EntryFunding                                                            *)

Seen == s4["t"] = s6.t /\ s4["n"] = s6.n /\ s5 = s6.eth

\* A swap of the held leg leaves that leg its half, and its floor fills the other one.
HeldSwap ==
    \E l \in Entry!Leg :
        /\ s7.from = Entry!Other(l) /\ s7.to = l /\ s7.in \in Nat /\ s7.floor \in Nat
        /\ s4[Entry!Other(l)] >= s7.in + LegNeed
        /\ s4[l] + s7.floor >= LegNeed

\* What each mode of funding still owes the mint when it wraps.
Owed ==
    \/ s8 \in {"held", "swapped"} /\ \A l \in Entry!Leg : s4[l] >= LegNeed
    \/ s8 = "deficit" /\ s2 = TRUE /\ s4["t"] >= LegNeed
    \/ /\ s8 = "single" /\ Seen
       /\ \E l \in Entry!Leg : Entry!Wrapable(s6, s6.eth, l) >= Entry!Full

Funds ==
    /\ s4 \in [Entry!Leg -> Nat] /\ s5 \in Nat /\ s6 \in [t : Nat, n : Nat, eth : Nat]
    /\ s9 = {}
    /\ s1 \in {"fund", "held", "native", "deficit", "single"} => Seen
    /\ s1 = "held" => HeldSwap
    /\ s1 = "deficit" => /\ s2 = TRUE /\ s7.from = "eth" /\ s7.to = "t"
                         /\ s7.in \in Nat /\ s7.floor \in Nat
    /\ s1 = "landed" => s2 = TRUE
    /\ s1 = "wrap" => Owed
    /\ s1 = "mint" => Entry!Funded

\* While no swap has outlived the wait for its receipt.
EntryInv == s2 \in BOOLEAN /\ s12 \in BOOLEAN /\ (s12 = FALSE => Funds)

LEMMA EntryInit == ASSUME Entry!Init PROVE EntryInv
<1> USE RecordsAssumption DEF EntryAssumption, Entry!Init
<1>1. PICK w \in Balances : s4 = [t |-> w.t, n |-> w.n] /\ s5 = w.eth
  OBVIOUS
<1>2. s4 \in [Entry!Leg -> Nat] /\ s5 \in Nat
  BY <1>1 DEF Entry!Leg
<1>3. s6 \in [t : Nat, n : Nat, eth : Nat]
  OBVIOUS
<1> QED BY <1>2, <1>3 DEF EntryInv, Funds

LEMMA EntryClaim == EntryInv => Entry!MintCovered
BY DEF EntryInv, Funds, Entry!MintCovered

\* What a swap pays is no less than its floor.
LEMMA PaidOut ==
    ASSUME NEW s, s.floor \in Nat, NEW out \in Entry!Pays(s)
    PROVE  out \in Nat /\ (out = s.floor \/ out = LegNeed)
BY RecordsAssumption DEF EntryAssumption, Entry!Pays

LEMMA EntryNext ==
    ASSUME EntryInv,
           [Entry!Next]_<<s1, s2, s3, s4, s5, s6, s7, s8, s9, s10, s11, s12>>
    PROVE  EntryInv'
<1> USE RecordsAssumption DEF EntryAssumption, Entry!setup, Entry!wallet
<1>1. CASE Entry!Enter
  BY <1>1 DEF EntryInv, Funds, Seen, Entry!Enter, Entry!Leg
<1>2. CASE Entry!TwoSided
  <2>1. /\ UNCHANGED <<s2, s4, s5, s6, s9, s12>> /\ s1 = "fund" /\ s1' = "wrap" /\ s8' = "held"
        /\ \A l \in Entry!Leg : s6[l] >= LegNeed
    BY <1>2 DEF Entry!TwoSided
  <2>2. s12 = FALSE => Owed'
    BY <2>1 DEF EntryInv, Funds, Owed, Seen, Entry!Leg
  <2> QED BY <2>1, <2>2 DEF EntryInv, Funds
<1>3. CASE Entry!NotHeld
  BY <1>3 DEF EntryInv, Funds, Seen, Entry!NotHeld
<1>4. CASE \E l \in Entry!Leg : Entry!QuoteHeld(l)
  <2>1. PICK l \in Entry!Leg : Entry!QuoteHeld(l)
    BY <1>4
  <2>2. /\ UNCHANGED <<s2, s4, s5, s6, s9, s12>> /\ s1 = "fund" /\ s1' = "held"
        /\ s6[l] < LegNeed /\ s6[Entry!Other(l)] > LegNeed
    BY <2>1 DEF Entry!QuoteHeld, Entry!Short
  <2>3. PICK amount \in 1 .. s6[Entry!Other(l)] - LegNeed :
          s7' = [from |-> Entry!Other(l), to |-> l, in |-> amount,
                 floor |-> LegNeed - s6[l], tries |-> 0]
    BY <2>1 DEF Entry!QuoteHeld
  <2>4. CASE s12 = FALSE
    <3>1. /\ s4[l] = s6[l] /\ s4[Entry!Other(l)] = s6[Entry!Other(l)]
          /\ s6[l] \in Nat /\ s6[Entry!Other(l)] \in Nat
      BY <2>2, <2>4 DEF EntryInv, Funds, Seen, Entry!Leg, Entry!Other
    <3>2. amount \in Nat /\ LegNeed - s6[l] \in Nat /\ s6[Entry!Other(l)] >= amount + LegNeed
      BY <2>2, <3>1
    <3>3. HeldSwap'
      BY <2>2, <2>3, <3>1, <3>2 DEF HeldSwap
    <3> QED BY <2>2, <3>3, <2>4 DEF EntryInv, Funds, Seen
  <2> QED BY <2>2, <2>4 DEF EntryInv
<1>5. CASE Entry!SwapHeld
  <2>1. s1 = "held" /\ UNCHANGED <<s2, s6>>
    BY <1>5 DEF Entry!SwapHeld
  <2>2. CASE Entry!Mined(s7) /\ s1' = "wrap" /\ s8' = "swapped" /\ UNCHANGED <<s9, s12>>
    <3>1. CASE s12 = FALSE
      <4>1. PICK l \in Entry!Leg :
              /\ s7.from = Entry!Other(l) /\ s7.to = l /\ s7.in \in Nat /\ s7.floor \in Nat
              /\ s4[Entry!Other(l)] >= s7.in + LegNeed
              /\ s4[l] + s7.floor >= LegNeed
        BY <2>1, <3>1 DEF EntryInv, Funds, HeldSwap
      <4>2. PICK out \in Entry!Pays(s7) : Entry!Settled(s7, out)
        BY <2>2 DEF Entry!Mined
      <4>3. out \in Nat /\ s4 \in [Entry!Leg -> Nat] /\ s4[l] + out >= LegNeed
        BY <3>1, <4>1, <4>2, PaidOut DEF EntryInv, Funds
      <4>4. /\ s4' = [s4 EXCEPT ![Entry!Other(l)] = @ - s7.in, ![l] = @ + out]
            /\ UNCHANGED s5
        BY <4>1, <4>2 DEF Entry!Settled, Entry!Other, Entry!Leg
      <4>5. \A k \in Entry!Leg : s4'[k] \in Nat /\ s4'[k] >= LegNeed
        BY <4>1, <4>3, <4>4 DEF Entry!Leg, Entry!Other
      <4>6. s4' \in [Entry!Leg -> Nat]
        BY <4>3, <4>4, <4>5
      <4> QED BY <2>1, <2>2, <3>1, <4>4, <4>5, <4>6 DEF EntryInv, Funds, Owed
    <3> QED BY <2>1, <2>2, <3>1 DEF EntryInv
  <2>3. CASE /\ UNCHANGED <<s4, s5, s9, s12>> /\ s1' = "held"
             /\ s7' = [s7 EXCEPT !.tries = 1]
    <3>1. s12 = FALSE => HeldSwap'
      BY <2>1, <2>3 DEF EntryInv, Funds, HeldSwap
    <3> QED BY <2>1, <2>3, <3>1 DEF EntryInv, Funds, Seen
  <2>4. CASE UNCHANGED <<s4, s5, s9, s12>> /\ s1' = "native"
    BY <2>1, <2>4 DEF EntryInv, Funds, Seen
  <2>5. CASE s12' = TRUE
    BY <2>1, <2>5 DEF EntryInv
  <2> QED BY <1>5, <2>2, <2>3, <2>4, <2>5
          DEF Entry!SwapHeld, Entry!Retried, Entry!Outlives
<1>6. CASE Entry!SimulateMint
  <2>1. /\ UNCHANGED <<s2, s4, s5, s6, s9, s12>> /\ s1 = "native" /\ s2
        /\ s1' \in {"deficit", "single", "idle"}
    BY <1>6 DEF Entry!SimulateMint, Entry!Simulated, Entry!Fail
  <2>2. s1' = "deficit" => s7' \in Entry!DeficitQuotes
    BY <1>6 DEF Entry!SimulateMint, Entry!Fail
  <2>3. s1' = "deficit" => /\ s7'.from = "eth" /\ s7'.to = "t"
                           /\ s7'.in \in Nat /\ s7'.floor \in Nat
    BY <2>2 DEF Entry!DeficitQuotes
  <2> QED BY <2>1, <2>3 DEF EntryInv, Funds, Seen
<1>7. CASE Entry!NoNative
  BY <1>7 DEF EntryInv, Funds, Seen, Entry!NoNative, Entry!Fail
<1>8. CASE Entry!SwapDeficit
  <2>1. s1 = "deficit" /\ UNCHANGED <<s2, s6>>
    BY <1>8 DEF Entry!SwapDeficit
  <2>2. CASE Entry!Mined(s7) /\ s1' = "landed" /\ UNCHANGED <<s9, s12>>
    <3>1. CASE s12 = FALSE
      <4>1. /\ s2 = TRUE /\ s7.from = "eth" /\ s7.to = "t"
            /\ s7.in \in Nat /\ s7.floor \in Nat
        BY <2>1, <3>1 DEF EntryInv, Funds
      <4>2. PICK out \in Entry!Pays(s7) : Entry!Settled(s7, out)
        BY <2>2 DEF Entry!Mined
      <4>3. out \in Nat
        BY <4>1, <4>2, PaidOut
      <4>4. s5 >= s7.in /\ s5' = s5 - s7.in /\ s4' = [s4 EXCEPT !["t"] = @ + out]
        BY <2>2, <4>1, <4>2 DEF Entry!Mined, Entry!Settled, Entry!Balance
      <4>5. s4' \in [Entry!Leg -> Nat] /\ s5' \in Nat
        BY <3>1, <4>1, <4>3, <4>4 DEF EntryInv, Funds, Entry!Leg
      <4> QED BY <2>1, <2>2, <3>1, <4>1, <4>5 DEF EntryInv, Funds
    <3> QED BY <2>1, <2>2, <3>1 DEF EntryInv
  <2>3. CASE s1' = "idle" /\ UNCHANGED <<s4, s5, s9, s12>>
    BY <2>1, <2>3 DEF EntryInv, Funds
  <2>4. CASE s12' = TRUE
    BY <2>1, <2>4 DEF EntryInv
  <2> QED BY <1>8, <2>2, <2>3, <2>4 DEF Entry!SwapDeficit, Entry!Outlives, Entry!Fail
<1>9. CASE Entry!CheckDeficit
  <2>1. /\ UNCHANGED <<s2, s4, s5, s6, s9, s12>> /\ s1 = "landed"
        /\ \/ s1' = "wrap" /\ s8' = "deficit" /\ \E held \in {0, s4["t"]} : held >= LegNeed
           \/ s1' = "idle"
    BY <1>9 DEF Entry!CheckDeficit, Entry!Covers, Entry!Fail
  <2>2. s12 = FALSE /\ s1' = "wrap" => Owed'
    BY <2>1 DEF EntryInv, Funds, Owed, Entry!Leg
  <2> QED BY <2>1, <2>2 DEF EntryInv, Funds
<1>10. CASE Entry!SingleSided
  <2>1. /\ UNCHANGED <<s2, s4, s5, s6, s9, s12>> /\ s1 = "single"
        /\ \/ /\ s1' = "wrap" /\ s8' = "single"
              /\ \E l \in Entry!Leg : Entry!Wrapable(s6, s6.eth, l) >= Entry!Full
           \/ s1' = "idle"
    BY <1>10 DEF Entry!SingleSided, Entry!Fail
  <2>2. s12 = FALSE /\ s1' = "wrap" => Owed'
    BY <2>1 DEF EntryInv, Funds, Owed, Seen, Entry!Wrapable, Entry!Full
  <2> QED BY <2>1, <2>2 DEF EntryInv, Funds
<1>11. CASE Entry!Wrap
  <2>1. s1 = "wrap" /\ UNCHANGED <<s2, s6, s9, s12>>
    BY <1>11 DEF Entry!Wrap
  <2>2. CASE s1' = "idle" /\ UNCHANGED <<s4, s5>>
    BY <2>1, <2>2 DEF EntryInv, Funds
  <2>3. CASE s1' = "mint" /\ UNCHANGED s8 /\ s12 = FALSE
    <3>1. PICK short \in Nat :
            /\ short = IF s2 /\ s4["n"] < Entry!Amount("n")
                       THEN Entry!Amount("n") - s4["n"] ELSE 0
            /\ s5 >= short /\ s5' = s5 - short /\ s4' = [s4 EXCEPT !["n"] = @ + short]
      BY <1>11, <2>3
      DEF Entry!Wrap, Entry!Fail, Entry!Amount, Entry!Full, EntryInv, Funds, Entry!Leg
    <3>2. s4' \in [Entry!Leg -> Nat] /\ s5' \in Nat /\ s4'["t"] = s4["t"] /\ s4'["n"] = s4["n"] + short
      BY <2>3, <3>1 DEF EntryInv, Funds, Entry!Leg
    <3>3. Entry!Amount("t") \in Nat /\ Entry!Amount("n") \in Nat
      BY DEF Entry!Amount, Entry!Full
    <3>4. s4["t"] \in Nat /\ s4["n"] \in Nat /\ Owed
      BY <2>1, <2>3 DEF EntryInv, Funds, Entry!Leg
    <3>5. s4["t"] >= Entry!Amount("t")
      BY <3>4 DEF Owed, Seen, Entry!Amount, Entry!Side, Entry!Wrapable, Entry!Full, Entry!Leg
    <3>6. s4["n"] >= Entry!Amount("n") \/ s2 = TRUE
      BY <3>4 DEF Owed, Seen, Entry!Amount, Entry!Side, Entry!Wrapable, Entry!Full, Entry!Leg,
         EntryInv
    <3>7. s4'["n"] >= Entry!Amount("n")
      BY <3>1, <3>2, <3>3, <3>4, <3>6
    <3>8. \A l \in Entry!Leg : s4'[l] >= Entry!Amount(l)
      BY <3>2, <3>5, <3>7 DEF Entry!Leg
    <3>9. Entry!Funded'
      BY <2>1, <2>3, <3>8 DEF Entry!Funded, Entry!Amount, Entry!Side, Entry!Wrapable
    <3> QED BY <2>1, <2>3, <3>2, <3>4, <3>9 DEF EntryInv, Funds
  <2> QED BY <1>11, <2>1, <2>2, <2>3 DEF Entry!Wrap, Entry!Fail, EntryInv
<1>12. CASE Entry!Mint
  <2>1. s1 = "mint" /\ s1' = "idle" /\ UNCHANGED <<s2, s6, s9, s12, s5>>
    BY <1>12 DEF Entry!Mint, Entry!Fail
  <2>2. s12 = FALSE => s4' \in [Entry!Leg -> Nat]
    <3>1. \A l \in Entry!Leg : Entry!Amount(l) \in Nat
      BY DEF Entry!Amount, Entry!Full
    <3>2. CASE UNCHANGED <<s4, s5>>
      BY <3>2 DEF EntryInv, Funds
    <3>3. CASE Entry!Funded /\ s4' = [l \in Entry!Leg |-> s4[l] - Entry!Amount(l)]
      BY <3>1, <3>3 DEF EntryInv, Funds, Entry!Funded
    <3> QED BY <1>12, <3>2, <3>3 DEF Entry!Mint
  <2> QED BY <2>1, <2>2 DEF EntryInv, Funds
<1>13. CASE \E s \in s9 : Entry!Late(s)
  <2>1. PICK s \in s9 : Entry!Late(s)
    BY <1>13
  <2>2. s12 # FALSE
    BY <2>1 DEF EntryInv, Funds
  <2> QED BY <2>1, <2>2 DEF Entry!Late, EntryInv
<1>14. CASE UNCHANGED <<s1, s2, s3, s4, s5, s6, s7, s8, s9, s10, s11, s12>>
  BY <1>14
  DEF EntryInv, Funds, Seen, HeldSwap, Owed, Entry!Funded, Entry!Amount, Entry!Side,
      Entry!Wrapable
<1> QED
  BY <1>1, <1>2, <1>3, <1>4, <1>5, <1>6, <1>7, <1>8, <1>9, <1>10, <1>11, <1>12, <1>13, <1>14
  DEF Entry!Next

-----------------------------------------------------------------------------
(* Harvest                                                                 *)

Only == Fees!First
Books0 == [who : {Only}, due : BOOLEAN, fees : Nat, basis : Nat, peak : Nat]
Token0 == [who : {Only}, v4 : BOOLEAN, owed : Nat, worth : Nat]
Held(f, R) == f \in [DOMAIN f -> R] /\ \A i, j \in DOMAIN f : i = j

\* One position, under the one key it has now; its row lags behind.
FeesShape ==
    /\ Held(s2, Token0) /\ Held(s3, Books0)
    /\ s4 \in [DOMAIN s4 -> Books0] /\ DOMAIN s4 \subseteq DOMAIN s3
    /\ s6.usd \in Nat /\ s9 \in [1 .. Mints -> Nat] /\ s10 \in [1 .. Mints -> Nat]
    /\ s1 \in {"collect", "book", "convert", "burn", "mint", "rekey"} => s6.id \in DOMAIN s3
    /\ s1 = "mint" => DOMAIN s2 = {} /\ s6.nft \in Token0
    /\ s1 = "save" => s6.to \in DOMAIN s3

\* What is on the books was paid out, what is about to be booked included.
FeesPaid ==
    /\ \A i \in DOMAIN s3 : s3[i].fees <= s9[Only]
    /\ \A i \in DOMAIN s4 : s4[i].fees <= s9[Only]
    /\ s1 = "book" => s3[s6.id].fees + s6.usd <= s9[Only]

\* A position harvested in this pass is not met again: its key is seen, or, under a
\* key the pass has yet to reach, it is not due.
InPass == s1 = "pass" \/ (s1 # "idle" /\ s6.why = "harvest")
FeesPass ==
    /\ \A w \in 1 .. Mints : s10[w] = 0 \/ (w = Only /\ s10[w] = 1)
    /\ InPass /\ s10[Only] = 1 => \A i \in DOMAIN s3 : i \in s5 \/ s3[i].due = FALSE
    /\ s1 \in {"collect", "book"} /\ s6.why = "harvest" => s6.id \in s5
    /\ s1 = "collect" /\ s6.why = "harvest" => s10[Only] = 0
    /\ s1 \in {"convert", "burn", "mint", "rekey", "save"} /\ s6.why = "harvest" =>
         \A i \in DOMAIN s3 : s3[i].due = FALSE

FeesInv == FeesShape /\ FeesPaid /\ FeesPass

LEMMA OnlyOne == Only \in 1 .. Mints
<1> USE RecordsAssumption DEF FeesAssumption
<1>1. 1 \in 1 .. Mints /\ \A j \in 1 .. Mints : 1 <= j
  OBVIOUS
<1> QED BY <1>1 DEF Only, Fees!First

LEMMA FeesInit == ASSUME Fees!Init PROVE FeesInv
<1> USE RecordsAssumption, OnlyOne DEF FeesAssumption, Fees!Init
<1>1. Fees!Fresh(Only) \in Books0 /\ Fees!Fresh(Only).fees = 0
  BY DEF Fees!Fresh, Fees!Deposit, Books0
<1>2. s3 = [i \in {Only} |-> Fees!Fresh(i)] /\ s4 = s3
  BY DEF Only
<1>3. PICK v4 \in BOOLEAN :
        s2 = [i \in {Only} |-> [who |-> i, v4 |-> v4, owed |-> 0, worth |-> ClaimFloor]]
  BY DEF Only, Fees!Deposit
<1>4. Held(s3, Books0) /\ s4 \in [DOMAIN s4 -> Books0] /\ DOMAIN s4 \subseteq DOMAIN s3
  BY <1>1, <1>2 DEF Held
<1>5. Held(s2, Token0)
  BY <1>3 DEF Held, Token0
<1>6. s6.usd = 0 /\ s9 = [w \in 1 .. Mints |-> 0] /\ s10 = [w \in 1 .. Mints |-> 0]
  BY DEF Fees!NoJob, Fees!Who
<1>7. FeesShape
  BY <1>4, <1>5, <1>6 DEF FeesShape
<1>8. FeesPaid
  BY <1>1, <1>2, <1>6 DEF FeesPaid
<1>9. FeesPass
  BY <1>6 DEF FeesPass, InPass
<1> QED BY <1>7, <1>8, <1>9 DEF FeesInv

LEMMA FeesClaims == FeesInv => Fees!HarvestedOnce /\ Fees!FeesBacked
<1> SUFFICES ASSUME FeesInv PROVE Fees!HarvestedOnce /\ Fees!FeesBacked
  OBVIOUS
<1>1. Fees!HarvestedOnce
  BY DEF FeesInv, FeesPass, Fees!HarvestedOnce, Fees!Who
<1>2. \A i \in DOMAIN s3 : s3[i].who = Only
  BY DEF FeesInv, FeesShape, Held, Books0
<1>3. Fees!FeesBacked
  BY <1>2 DEF FeesInv, FeesPaid, Fees!FeesBacked
<1> QED BY <1>1, <1>3

\* The record a step in hand works on is the only one.
LEMMA InHand ==
    ASSUME FeesShape, NEW k \in DOMAIN s3
    PROVE  DOMAIN s3 = {k} /\ s3[k] \in Books0
BY DEF FeesShape, Held

LEMMA FeesNext ==
    ASSUME FeesInv, [Fees!Next]_<<s1, s2, s3, s4, s5, s6, s7, s8, s9, s10>>
    PROVE  FeesInv'
<1> USE RecordsAssumption, OnlyOne DEF FeesAssumption, Fees!chain
<1>f. FeesShape /\ FeesPaid /\ FeesPass
  BY DEF FeesInv
<1>1. CASE \E i \in 1 .. Mints : Fees!Accrue(i)
  <2>1. PICK i \in DOMAIN s2 : /\ s2' = [s2 EXCEPT ![i].owed = @ + 1]
                               /\ UNCHANGED <<s1, s3, s4, s5, s6, s9, s10>>
    BY <1>1 DEF Fees!Accrue
  <2>2. s2[i] \in Token0
    BY <1>f DEF FeesShape, Held
  <2>3. [s2[i] EXCEPT !.owed = @ + 1] \in Token0
    BY <2>2 DEF Token0
  <2>4. Held(s2', Token0) /\ DOMAIN s2' = DOMAIN s2
    BY <1>f, <2>1, <2>3 DEF FeesShape, Held
  <2> QED BY <1>f, <2>1, <2>4 DEF FeesInv, FeesShape, FeesPaid, FeesPass, InPass, Held
<1>2. CASE \E i \in 1 .. Mints : Fees!Elapse(i)
  <2>1. PICK i \in DOMAIN s3 : /\ s3' = [s3 EXCEPT ![i].due = TRUE]
                               /\ UNCHANGED <<s1, s2, s4, s5, s6, s9, s10>> /\ s1 = "idle"
    BY <1>2 DEF Fees!Elapse
  <2>2. s3[i] \in Books0
    BY <1>f DEF FeesShape, Held
  <2>3. /\ [s3[i] EXCEPT !.due = TRUE] \in Books0
        /\ [s3[i] EXCEPT !.due = TRUE].fees = s3[i].fees
    BY <2>2 DEF Books0
  <2>4. Held(s3', Books0) /\ DOMAIN s3' = DOMAIN s3
    BY <1>f, <2>1, <2>3 DEF FeesShape, Held
  <2>5. FeesShape'
    BY <1>f, <2>1, <2>4 DEF FeesShape, Held
  <2>6. FeesPaid'
    BY <1>f, <2>1, <2>3, <2>4 DEF FeesPaid, FeesShape, Held
  <2> QED BY <1>f, <2>1, <2>5, <2>6 DEF FeesInv, FeesPass, InPass
<1>3. CASE Fees!StartPass
  BY <1>3, <1>f
  DEF Fees!StartPass, Fees!Who, FeesInv, FeesShape, FeesPaid, FeesPass, InPass, Held
<1>4. CASE \E i \in 1 .. Mints : Fees!Visit(i)
  <2>1. PICK i \in DOMAIN s3 \ s5 : Fees!Visit(i)
    BY <1>4 DEF Fees!Visit
  <2>2. s1 = "pass" /\ s5' = s5 \cup {i} /\ UNCHANGED <<s2, s3, s4, s9, s10>>
    BY <2>1 DEF Fees!Visit
  <2>3. CASE s3[i].due /\ s1' = "collect" /\ s6' = [Fees!NoJob EXCEPT !.id = i, !.why = "harvest"]
    <3>1. s6'.id = i /\ s6'.why = "harvest" /\ s6'.usd = 0
      BY <2>3 DEF Fees!NoJob
    <3>2. s10[Only] = 0
      BY <2>2, <2>3, <1>f DEF FeesPass, InPass
    <3>3. FeesShape' /\ FeesPaid'
      BY <2>2, <2>3, <3>1, <1>f DEF FeesShape, FeesPaid, Held
    <3> QED BY <2>2, <2>3, <3>1, <3>2, <3>3, <1>f DEF FeesInv, FeesPass
  <2>4. CASE UNCHANGED <<s1, s6>>
    BY <2>2, <2>4, <1>f DEF FeesInv, FeesShape, FeesPaid, FeesPass, InPass, Held
  <2> QED BY <2>1, <2>3, <2>4 DEF Fees!Visit
<1>5. CASE Fees!EndPass
  BY <1>5, <1>f DEF Fees!EndPass, FeesInv, FeesShape, FeesPaid, FeesPass, InPass, Held
<1>6. CASE \E i \in 1 .. Mints : Fees!StartRebalance(i)
  <2>1. PICK i \in DOMAIN s3 :
          /\ s1' = "collect" /\ s6' = [Fees!NoJob EXCEPT !.id = i, !.why = "rebalance"]
          /\ UNCHANGED <<s2, s3, s4, s5, s9, s10>>
    BY <1>6 DEF Fees!StartRebalance
  <2>2. s6'.id = i /\ s6'.why = "rebalance" /\ s6'.usd = 0
    BY <2>1 DEF Fees!NoJob
  <2> QED BY <2>1, <2>2, <1>f DEF FeesInv, FeesShape, FeesPaid, FeesPass, InPass, Held
<1>7. CASE Fees!Collect
  <2>1. s1 = "collect" /\ UNCHANGED <<s3, s4, s5>> /\ s6.id \in DOMAIN s3
    BY <1>7, <1>f DEF Fees!Collect, FeesShape
  <2>2. CASE Fees!Unclaimed /\ UNCHANGED <<s2, s9, s10>>
    <3>1. CASE s6.why = "harvest" /\ s1' = "pass" /\ s6' = Fees!NoJob
      <4>1. s6'.usd = 0
        BY <3>1 DEF Fees!NoJob
      <4> QED BY <2>1, <2>2, <3>1, <4>1, <1>f
              DEF FeesInv, FeesShape, FeesPaid, FeesPass, InPass, Held
    <3>2. CASE s6.why = "rebalance" /\ s1' = "burn" /\ UNCHANGED s6
      BY <2>1, <2>2, <3>2, <1>f DEF FeesInv, FeesShape, FeesPaid, FeesPass, InPass, Held
    <3> QED BY <2>2, <3>1, <3>2 DEF Fees!Unclaimed, Fees!Resume
  <2>3. CASE s6.id \in DOMAIN s2 /\ s1' = "book"
    <3> DEFINE n == s2[s6.id]
    <3>1. n \in Token0 /\ n.who = Only /\ n.owed \in Nat
      BY <2>3, <1>f DEF FeesShape, Held, Token0
    <3>2. PICK usd \in {0, n.owed} : s6' = [s6 EXCEPT !.usd = usd]
      BY <1>7, <2>3 DEF Fees!Collect, Fees!Unclaimed, Fees!Resume
    <3>3. /\ s2' = [s2 EXCEPT ![s6.id].owed = 0]
          /\ s9' = [s9 EXCEPT ![Only] = @ + n.owed]
          /\ s10' = IF s6.why = "harvest" THEN [s10 EXCEPT ![Only] = @ + 1] ELSE s10
      BY <1>7, <2>3, <3>1 DEF Fees!Collect, Fees!Unclaimed, Fees!Resume
    <3>4. s6'.id = s6.id /\ s6'.why = s6.why /\ s6'.usd \in Nat /\ s6'.usd <= n.owed
      BY <3>1, <3>2
    <3>5. [n EXCEPT !.owed = 0] \in Token0
      BY <3>1 DEF Token0
    <3>6. Held(s2', Token0)
      BY <3>3, <3>5, <1>f DEF FeesShape, Held
    <3>7. /\ s9' \in [1 .. Mints -> Nat] /\ s10' \in [1 .. Mints -> Nat]
          /\ s9'[Only] = s9[Only] + n.owed /\ s9[Only] \in Nat
      <4>1. s9 \in [1 .. Mints -> Nat] /\ s10 \in [1 .. Mints -> Nat]
        BY <1>f DEF FeesShape
      <4> HIDE DEF n
      <4>2. s9[Only] \in Nat /\ s9[Only] + n.owed \in Nat /\ s10[Only] + 1 \in Nat
        BY <3>1, <4>1
      <4>3. s9' \in [1 .. Mints -> Nat] /\ s9'[Only] = s9[Only] + n.owed
        BY <3>3, <4>1, <4>2
      <4>4. s10' \in [1 .. Mints -> Nat]
        BY <3>3, <4>1, <4>2
      <4> QED BY <4>2, <4>3, <4>4
    <3>8. FeesShape'
      BY <2>1, <2>3, <3>4, <3>6, <3>7, <1>f DEF FeesShape
    <3>9. \A i \in DOMAIN s3 : s3[i].fees \in Nat
      BY <1>f DEF FeesShape, Held, Books0
    <3>10. \A i \in DOMAIN s4 : s4[i].fees \in Nat
      BY <1>f DEF FeesShape, Books0
    <3>11. FeesPaid'
      <4>1. \A i \in DOMAIN s3 : s3[i].fees <= s9'[Only] /\ s3[i].fees + s6'.usd <= s9'[Only]
        <5>1. \A x, p, u, o \in Nat : x <= p /\ u <= o => x <= p + o /\ x + u <= p + o
          OBVIOUS
        <5>2. \A i \in DOMAIN s3 : s3[i].fees <= s9[Only]
          BY <1>f DEF FeesPaid
        <5> HIDE DEF n
        <5>3. \A x \in Nat : x <= s9[Only] => x <= s9'[Only] /\ x + s6'.usd <= s9'[Only]
          BY <3>1, <3>4, <3>7, <5>1
        <5> QED BY <3>9, <5>2, <5>3
      <4>2. \A i \in DOMAIN s4 : s4[i].fees <= s9'[Only]
        BY <3>1, <3>7, <3>10, <1>f DEF FeesPaid
      <4> QED BY <2>1, <3>4, <4>1, <4>2 DEF FeesPaid
    <3>12. DOMAIN s3 = {s6.id}
      BY <2>1, <1>f, InHand
    <3>13. FeesPass'
      <4>1. s6.why = "harvest" => s6.id \in s5 /\ s10[Only] = 0
        BY <2>1, <1>f DEF FeesPass
      <4>2. \A w \in 1 .. Mints : s10'[w] = 0 \/ (w = Only /\ s10'[w] = 1)
        BY <3>3, <4>1, <1>f DEF FeesPass, FeesShape
      <4>3. InPass' => \A i \in DOMAIN s3 : i \in s5
        BY <2>3, <3>4, <3>12, <4>1 DEF InPass
      <4> QED BY <2>1, <2>3, <3>4, <4>1, <4>2, <4>3 DEF FeesPass
    <3> QED BY <3>8, <3>11, <3>13 DEF FeesInv
  <2> QED BY <1>7, <2>2, <2>3 DEF Fees!Collect
<1>8. CASE Fees!Book
  <2>1. s1 = "book" /\ UNCHANGED <<s2, s5, s6, s9, s10>> /\ s6.id \in DOMAIN s3
    BY <1>8, <1>f DEF Fees!Book, FeesShape
  <2> DEFINE k == s6.id
             r == Fees!Claimed(s3[k])
  <2>2. DOMAIN s3 = {k} /\ s3[k] \in Books0 /\ s6.usd \in Nat
    BY <2>1, <1>f, InHand DEF FeesShape
  <2>3. s3' = [s3 EXCEPT ![k] = r]
    BY <1>8 DEF Fees!Book
  <2>4. /\ r \in Books0 /\ r.fees = s3[k].fees + s6.usd
        /\ s6.why = "harvest" => r.due = FALSE
    <3>1. s3[k].due \in BOOLEAN /\ s3[k].fees + s6.usd \in Nat
      BY <2>2 DEF Books0
    <3>2. CASE s6.why = "harvest"
      <4>1. r = [s3[k] EXCEPT !.fees = @ + s6.usd, !.due = FALSE]
        BY <3>2 DEF Fees!Claimed
      <4> QED BY <2>2, <3>1, <4>1 DEF Books0
    <3>3. CASE s6.why # "harvest"
      <4>1. r = [s3[k] EXCEPT !.fees = @ + s6.usd, !.due = @]
        BY <3>3 DEF Fees!Claimed
      <4> QED BY <2>2, <3>1, <3>3, <4>1 DEF Books0
    <3> QED BY <3>2, <3>3
  <2>5. Held(s3', Books0) /\ DOMAIN s3' = {k} /\ s3'[k] = r
    BY <2>2, <2>3, <2>4, <1>f DEF FeesShape, Held
  <2>6. r.fees <= s9[Only]
    BY <2>1, <2>4, <1>f DEF FeesPaid
  <2>7. CASE s6.why = "harvest"
    <3>1. s1' = "convert" /\ s4' = Fees!Put(s4, k, r)
      BY <1>8, <2>5, <2>7 DEF Fees!Book, Fees!Persist
    <3>2. s4' \in [DOMAIN s4' -> Books0] /\ DOMAIN s4' \subseteq {k}
      BY <2>2, <2>4, <3>1, <1>f DEF FeesShape, Fees!Put
    <3>3. \A i \in DOMAIN s4' : s4'[i] = r
      BY <3>1, <3>2 DEF Fees!Put
    <3>4. FeesShape'
      BY <2>1, <2>5, <3>1, <3>2, <1>f DEF FeesShape
    <3>5. FeesPaid'
      BY <2>1, <2>5, <2>6, <3>1, <3>3 DEF FeesPaid
    <3> QED BY <2>1, <2>4, <2>5, <2>7, <3>1, <3>4, <3>5, <1>f DEF FeesInv, FeesPass, InPass
  <2>8. CASE s6.why # "harvest"
    <3>1. s1' = "burn" /\ s4' = s4
      BY <1>8, <2>8 DEF Fees!Book
    <3>2. FeesShape'
      BY <2>1, <2>2, <2>5, <3>1, <1>f DEF FeesShape
    <3>3. FeesPaid'
      BY <2>1, <2>5, <2>6, <3>1, <1>f DEF FeesPaid
    <3> QED BY <2>1, <2>8, <3>1, <3>2, <3>3, <1>f DEF FeesInv, FeesPass, InPass
  <2> QED BY <2>7, <2>8
<1>9. CASE Fees!Convert
  <2>1. s1 = "convert" /\ UNCHANGED <<s2, s3, s4, s5, s9, s10>>
    BY <1>9 DEF Fees!Convert
  <2>2. CASE Fees!Resume
    <3>1. s6'.usd = 0
      BY <2>2 DEF Fees!Resume, Fees!NoJob
    <3>2. s1' = "idle" \/ (s1' = "pass" /\ s6.why = "harvest")
      BY <2>2 DEF Fees!Resume
    <3> QED BY <2>1, <3>1, <3>2, <1>f DEF FeesInv, FeesShape, FeesPaid, FeesPass, InPass, Held
  <2>3. CASE s1' = "burn" /\ UNCHANGED s6
    BY <2>1, <2>3, <1>f DEF FeesInv, FeesShape, FeesPaid, FeesPass, InPass, Held
  <2> QED BY <1>9, <2>2, <2>3 DEF Fees!Convert, Fees!Accumulate, Fees!Compound
<1>10. CASE Fees!Burn
  <2>1. s1 = "burn" /\ UNCHANGED <<s3, s4, s5, s9, s10>>
    BY <1>10 DEF Fees!Burn
  <2>2. CASE Fees!Resume /\ UNCHANGED s2
    <3>1. s6'.usd = 0
      BY <2>2 DEF Fees!Resume, Fees!NoJob
    <3>2. s1' = "idle" \/ (s1' = "pass" /\ s6.why = "harvest")
      BY <2>2 DEF Fees!Resume
    <3> QED BY <2>1, <2>2, <3>1, <3>2, <1>f
            DEF FeesInv, FeesShape, FeesPaid, FeesPass, InPass, Held
  <2>3. CASE /\ s6.id \in DOMAIN s2 /\ s2' = Fees!Drop(s2, s6.id)
             /\ s1' = "mint" /\ s6' = [s6 EXCEPT !.nft = s2[s6.id]]
    <3>1. DOMAIN s2' = {} /\ Held(s2', Token0)
      BY <2>3, <1>f DEF FeesShape, Held, Fees!Drop, Fees!Restrict
    <3>2. s2[s6.id] \in Token0
      BY <2>3, <1>f DEF FeesShape, Held
    <3>3. s6'.id = s6.id /\ s6'.why = s6.why /\ s6'.usd = s6.usd
      BY <2>3
    <3>4. s6'.nft \in Token0
      BY <2>3, <3>2, <1>f DEF FeesShape
    <3> QED BY <2>1, <2>3, <3>1, <3>3, <3>4, <1>f
            DEF FeesInv, FeesShape, FeesPaid, FeesPass, InPass
  <2> QED BY <1>10, <2>2, <2>3 DEF Fees!Burn
<1>11. CASE Fees!Mint
  <2>1. s1 = "mint" /\ UNCHANGED <<s3, s4, s5, s9, s10>>
    BY <1>11 DEF Fees!Mint
  <2>2. CASE Fees!Resume /\ UNCHANGED s2
    <3>1. s6'.usd = 0
      BY <2>2 DEF Fees!Resume, Fees!NoJob
    <3>2. s1' = "idle" \/ (s1' = "pass" /\ s6.why = "harvest")
      BY <2>2 DEF Fees!Resume
    <3> QED BY <2>1, <2>2, <3>1, <3>2, <1>f
            DEF FeesInv, FeesShape, FeesPaid, FeesPass, InPass, Held
  <2>3. CASE \E i \in 1 .. Mints :
               /\ s2' = Fees!Put(s2, i, [s6.nft EXCEPT !.owed = 0,
                           !.worth = @ + s6.nft.owed + Fees!TopUp(s6.usd)])
               /\ s1' = "rekey" /\ s6' = [s6 EXCEPT !.to = i]
    <3>1. PICK i \in 1 .. Mints :
               /\ s2' = Fees!Put(s2, i, [s6.nft EXCEPT !.owed = 0,
                           !.worth = @ + s6.nft.owed + Fees!TopUp(s6.usd)])
               /\ s1' = "rekey" /\ s6' = [s6 EXCEPT !.to = i]
      BY <2>3
    <3>2. s6.nft \in Token0 /\ DOMAIN s2 = {}
      BY <2>1, <1>f DEF FeesShape
    <3>3. [s6.nft EXCEPT !.owed = 0, !.worth = @ + s6.nft.owed + Fees!TopUp(s6.usd)] \in Token0
      <4>1. s6.nft.worth + s6.nft.owed + Fees!TopUp(s6.usd) \in Nat
        BY <3>2 DEF Token0, Fees!TopUp
      <4> QED BY <3>2, <4>1 DEF Token0
    <3>4. Held(s2', Token0)
      BY <3>1, <3>2, <3>3, <1>f DEF Held, FeesShape, Fees!Put
    <3>5. s6'.id = s6.id /\ s6'.why = s6.why /\ s6'.usd = s6.usd
      BY <3>1
    <3> QED BY <2>1, <3>1, <3>4, <3>5, <1>f DEF FeesInv, FeesShape, FeesPaid, FeesPass, InPass
  <2> QED BY <1>11, <2>2, <2>3 DEF Fees!Mint
<1>12. CASE Fees!Rekey
  <2> DEFINE k == s6.id
             r == Fees!Moved(s3[k])
  <2>1. /\ s1 = "rekey" /\ s1' = "save" /\ UNCHANGED <<s2, s5, s6, s9, s10>>
        /\ s3' = Fees!Put(Fees!Drop(s3, k), s6.to, r) /\ s4' = Fees!Drop(s4, k)
    BY <1>12 DEF Fees!Rekey, Fees!Persist
  <2>2. DOMAIN s3 = {k} /\ s3[k] \in Books0 /\ s6.usd \in Nat
    BY <2>1, <1>f, InHand DEF FeesShape
  <2>3. /\ r \in Books0 /\ r.fees = s3[k].fees
        /\ s6.why = "harvest" => r.due = s3[k].due
    <3>1. s3[k].basis + s6.usd \in Nat /\ ClaimFloor + s6.usd \in Nat /\ s3[k].peak \in Nat
      BY <2>2 DEF Books0
    <3>2. CASE s6.why = "rebalance"
      <4>1. r = [s3[k] EXCEPT !.due = FALSE]
        BY <3>2 DEF Fees!Moved
      <4> QED BY <2>2, <3>2, <4>1 DEF Books0
    <3>3. CASE s6.why # "rebalance"
      <4>1. PICK peak \in Nat : r = [s3[k] EXCEPT !.basis = @ + s6.usd, !.peak = peak]
        BY <3>1, <3>3 DEF Fees!Moved, Fees!Deposit
      <4> QED BY <2>2, <3>1, <4>1 DEF Books0
    <3> QED BY <3>2, <3>3
  <2>4. DOMAIN Fees!Drop(s3, k) = {} /\ DOMAIN s4' = {}
    BY <2>1, <2>2, <1>f DEF FeesShape, Fees!Drop, Fees!Restrict
  <2>5. DOMAIN s3' = {s6.to} /\ s3'[s6.to] = r
    BY <2>1, <2>4 DEF Fees!Put
  <2>6. Held(s3', Books0) /\ s4' \in [DOMAIN s4' -> Books0]
    <3>1. Fees!Drop(s3, k) \in [DOMAIN Fees!Drop(s3, k) -> Books0]
      BY <2>2, <2>4, <1>f DEF FeesShape, Held, Fees!Drop, Fees!Restrict
    <3>2. s3' \in [DOMAIN s3' -> Books0]
      BY <2>1, <2>3, <2>4, <2>5, <3>1 DEF Fees!Put
    <3>3. s4' \in [DOMAIN s4' -> Books0]
      BY <2>1, <1>f DEF FeesShape, Fees!Drop, Fees!Restrict
    <3> QED BY <2>5, <3>2, <3>3 DEF Held
  <2>7. FeesShape'
    BY <2>1, <2>4, <2>5, <2>6, <1>f DEF FeesShape
  <2>8. FeesPaid'
    BY <2>1, <2>2, <2>3, <2>4, <2>5, <1>f DEF FeesPaid
  <2>9. FeesPass'
    BY <2>1, <2>2, <2>3, <2>5, <1>f DEF FeesPass, InPass
  <2> QED BY <2>7, <2>8, <2>9 DEF FeesInv
<1>13. CASE Fees!Save
  <2> DEFINE k == s6.to
  <2>1. /\ s1 = "save" /\ UNCHANGED <<s2, s3, s5, s9, s10>>
        /\ s4' = Fees!Put(s4, k, s3[k]) /\ Fees!Resume
    BY <1>13 DEF Fees!Save, Fees!Persist
  <2>2. /\ s6'.usd = 0
        /\ s1' = "idle" \/ (s1' = "pass" /\ s6.why = "harvest")
    BY <2>1 DEF Fees!Resume, Fees!NoJob
  <2>3. DOMAIN s3 = {k} /\ s3[k] \in Books0
    BY <2>1, <1>f, InHand DEF FeesShape
  <2>4. s4' \in [DOMAIN s4' -> Books0] /\ DOMAIN s4' = {k} /\ s4'[k] = s3[k]
    BY <2>1, <2>3, <1>f DEF FeesShape, Fees!Put
  <2>5. FeesShape'
    BY <2>1, <2>2, <2>3, <2>4, <1>f DEF FeesShape
  <2> QED BY <2>1, <2>2, <2>3, <2>4, <2>5, <1>f DEF FeesInv, FeesPaid, FeesPass, InPass
<1>14. CASE Fees!Restart
  <2>1. /\ s1' = "idle" /\ s6' = Fees!NoJob /\ s10' = [w \in 1 .. Mints |-> 0]
        /\ s4' = s3' /\ UNCHANGED <<s2, s9>>
    BY <1>14 DEF Fees!Restart, Fees!Who
  <2>2. s6'.usd = 0
    BY <2>1 DEF Fees!NoJob
  <2>3. Held(s3', Books0) /\ \A i \in DOMAIN s3' : s3'[i].fees <= s9[Only]
    <3>1. CASE s3' = s4
      BY <3>1, <1>f DEF FeesShape, Held, FeesPaid
    <3>2. CASE s3' = [i \in DOMAIN s2 |-> IF i \in DOMAIN s4 THEN s4[i]
                                          ELSE [Fees!Fresh(s2[i].who) EXCEPT !.basis = 0]]
      <4>1. \A i \in DOMAIN s2 : s2[i].who = Only
        BY <1>f DEF FeesShape, Held, Token0
      <4>2. /\ [Fees!Fresh(Only) EXCEPT !.basis = 0] \in Books0
            /\ [Fees!Fresh(Only) EXCEPT !.basis = 0].fees = 0
        BY DEF Fees!Fresh, Fees!Deposit, Books0
      <4>3. \A i \in DOMAIN s2 : s3'[i] \in Books0 /\ s3'[i].fees <= s9[Only]
        <5> TAKE i \in DOMAIN s2
        <5>1. CASE i \in DOMAIN s4
          BY <3>2, <5>1, <1>f DEF FeesShape, FeesPaid
        <5>2. CASE i \notin DOMAIN s4
          <6>1. s3'[i] = [Fees!Fresh(Only) EXCEPT !.basis = 0]
            BY <3>2, <4>1, <5>2
          <6> QED BY <4>2, <6>1, <1>f DEF FeesShape
        <5> QED BY <5>1, <5>2
      <4> QED BY <3>2, <4>3, <1>f DEF FeesShape, Held
    <3> QED BY <1>14, <3>1, <3>2 DEF Fees!Restart
  <2>4. FeesShape' /\ FeesPaid'
    BY <2>1, <2>2, <2>3, <1>f DEF FeesShape, FeesPaid, Held
  <2> QED BY <2>1, <2>4 DEF FeesInv, FeesPass, InPass
<1>15. CASE UNCHANGED <<s1, s2, s3, s4, s5, s6, s7, s8, s9, s10>>
  BY <1>15, <1>f DEF FeesInv, FeesShape, FeesPaid, FeesPass, InPass, Held
<1> QED
  BY <1>1, <1>2, <1>3, <1>4, <1>5, <1>6, <1>7, <1>8, <1>9, <1>10, <1>11, <1>12, <1>13,
     <1>14, <1>15
  DEF Fees!Next

-----------------------------------------------------------------------------
(* ExitBooking                                                             *)

Sides == {"x", "y"}
Money == {Books!None} \cup {Books!Known(n) : n \in Int}
Total == s12 - s11 - s13

BooksShape ==
    /\ s2 \in BOOLEAN /\ s3 \in [open : BOOLEAN, worth : Int, owed : Int]
    /\ s4 \in [basis : Int, fees : Int]
    /\ s5 \in [state : {"open", "closed", "dropped"}, basis : Int, fees : Int, realized : Money]
    /\ s6 \in [usd : Money, fee : Money, leg : [Sides -> Nat]] /\ s7 \in Money
    /\ s8 \in [Sides -> Nat] /\ s11 \in Int /\ s12 \in Int /\ s13 \in Int
    /\ s1 \in {"held", "exited", "enqueue", "save", "close", "outcome", "tell", "done"}
    /\ s5.state = "open" <=> s1 \in {"held", "exited", "enqueue", "save", "close"}
    /\ s1 \in {"outcome", "tell"} => s5.state = "closed"

\* While the position is on chain the books follow it, and nothing came out of it.
OnChain ==
    s3.open = TRUE =>
        /\ s4.fees = s12 - s13 /\ s4.basis = s11
        /\ s5.fees = s4.fees /\ s5.basis = s4.basis
        /\ s6 = Books!NoAnswer /\ s8 = Books!Nothing

\* What an answer was worth completes the record to the total; its legs are the
\* only ones that jobs are opened for, all of them before the row is saved.
Answer ==
    /\ s1 \in {"exited", "enqueue"} /\ s6.usd # Books!None =>
         s6.usd.usd + s4.fees - s4.basis = Total
    /\ s6 # Books!NoAnswer => \A l \in Sides : s8[l] = 0 \/ s8[l] = s6.leg[l]
    /\ s6.usd # Books!None /\ s2 = FALSE => s8 = Books!Nothing
    /\ s1 \in {"save", "close", "tell"} /\ s2 = TRUE =>
         \A l \in Sides : s6.leg[l] > 0 => s8[l] > 0
    /\ s1 = "outcome" => s2 = FALSE

\* What is to be booked, is booked and is told.
Booked ==
    /\ s1 \in {"held", "exited", "enqueue"} => s7 = Books!None
    /\ s7 # Books!None => s7 = Books!Known(Total) /\ s8 = Books!Nothing
    /\ s1 \in {"save", "close", "outcome", "tell"} /\ s7 = Books!None /\ s6.usd # Books!None =>
         s8 = s6.leg
    /\ s1 \in {"outcome", "tell"} => s5.realized = s7
    /\ s1 # "done" => s10 = {}

BooksInv == BooksShape /\ OnChain /\ Answer /\ Booked /\ Books!BookedOnce /\ Books!EndsBooked

LEMMA MoneyFacts ==
    /\ \A n : Books!Known(n) # Books!None /\ Books!Known(n).usd = n
    /\ \A m \in Money : m # Books!None => m.usd \in Int /\ m = Books!Known(m.usd)
    /\ Books!None \in Money /\ \A n \in Int : Books!Known(n) \in Money
<1>1. \A n : Books!Known(n).usd = n
  BY DEF Books!Known
<1>2. \A n : Books!Known(n) # Books!None
  <2> TAKE n
  <2>1. DOMAIN Books!Known(n) = {"usd"} /\ DOMAIN Books!None = {"none"}
    BY DEF Books!Known, Books!None
  <2> QED BY <2>1
<1> HIDE DEF Books!Known
<1> QED BY <1>1, <1>2 DEF Money

LEMMA BooksInit == ASSUME Books!Init PROVE BooksInv
<1> USE RecordsAssumption, MoneyFacts DEF BooksAssumption, Books!Init
<1>1. s6 \in [usd : Money, fee : Money, leg : [Sides -> Nat]] /\ s8 \in [Sides -> Nat]
  BY DEF Books!NoAnswer, Books!Nothing, Sides
<1>2. BooksShape
  BY <1>1 DEF BooksShape
<1>3. OnChain
  BY DEF OnChain
<1>4. Answer
  BY DEF Answer, Books!NoAnswer
<1>5. Booked
  BY DEF Booked
<1> QED BY <1>2, <1>3, <1>4, <1>5
        DEF BooksInv, Books!BookedOnce, Books!EndsBooked, Books!Closed

LEMMA BooksNext ==
    ASSUME BooksInv,
           [Books!Next]_<<s1, s2, s3, s4, s5, s6, s7, s8, s9, s10, s11, s12, s13, s14>>
    PROVE  BooksInv'
<1> USE RecordsAssumption DEF BooksAssumption, Books!ledger
<1>f. BooksShape /\ OnChain /\ Answer /\ Booked /\ Books!BookedOnce /\ Books!EndsBooked
  BY DEF BooksInv
<1>c. s3 \in [open : BOOLEAN, worth : Int, owed : Int]
  BY <1>f DEF BooksShape
<1>1. CASE Books!Trade
  <2>1. UNCHANGED <<s1, s2, s4, s5, s6, s7, s8, s9, s10, s11, s12, s13>> /\ s3.open = TRUE
    BY <1>1, <1>f DEF Books!Trade, BooksShape
  <2>2. s3' \in [open : BOOLEAN, worth : Int, owed : Int] /\ s3'.open = s3.open
    <3>1. CASE \E w \in {s3.worth - 1, s3.worth + 1} : s3' = [s3 EXCEPT !.worth = w]
      BY <3>1, <1>f DEF BooksShape
    <3>2. CASE s3' = [s3 EXCEPT !.owed = @ + 1]
      BY <3>2, <1>f DEF BooksShape
    <3> QED BY <1>1, <3>1, <3>2 DEF Books!Trade
  <2>3. Books!BookedOnce' /\ Books!EndsBooked'
    BY <2>1, <1>f DEF Books!BookedOnce, Books!EndsBooked, Books!Closed
  <2> QED BY <2>1, <2>2, <2>3, <1>f DEF BooksInv, BooksShape, OnChain, Answer, Booked, Total
<1>2. CASE Books!Claim
  <2>1. /\ s1 = "held" /\ s3.open = TRUE /\ s5.state = "open" /\ s12' = s12 + s3.owed
        /\ UNCHANGED <<s1, s2, s6, s7, s8, s9, s10>> /\ s5' = Books!Saved(s4')
    BY <1>2, <1>f DEF Books!Claim, BooksShape
  <2>2. PICK usd \in {0, s3.owed}, c \in {0, s3.owed} :
          /\ s13' = s13 + s3.owed - usd /\ s11' = s11 + c
          /\ s4' = [basis |-> s4.basis + c, fees |-> s4.fees + usd]
          /\ s3' = [s3 EXCEPT !.worth = @ + c, !.owed = 0]
    BY <1>2 DEF Books!Claim
  <2>3. /\ s3.owed \in Int /\ s3.worth \in Int /\ s4.basis \in Int /\ s4.fees \in Int
        /\ s11 \in Int /\ s12 \in Int /\ s13 \in Int /\ usd \in Int /\ c \in Int
    BY <2>2, <1>f DEF BooksShape
  <2>4. s3' \in [open : BOOLEAN, worth : Int, owed : Int] /\ s3'.open = s3.open
    <3>1. s3.worth + c \in Int
      BY <2>3
    <3>2. s3' = [open |-> s3.open, worth |-> s3.worth + c, owed |-> 0]
      BY <2>2, <1>c
    <3> QED BY <3>1, <3>2, <1>c
  <2>5. BooksShape'
    BY <2>1, <2>2, <2>3, <2>4, <1>f, MoneyFacts DEF BooksShape, Books!Saved
  <2>6. OnChain'
    BY <2>1, <2>2, <2>3, <2>4, <1>f DEF OnChain, Books!Saved
  <2>7. Answer'
    BY <2>1, <1>f DEF Answer
  <2>8. Booked'
    BY <2>1, <1>f DEF Booked
  <2> QED BY <2>1, <2>5, <2>6, <2>7, <2>8, <1>f
          DEF BooksInv, Books!BookedOnce, Books!EndsBooked, Books!Closed, Books!Saved
<1>3. CASE Books!Withdraw
  <2> DEFINE all == s3.worth + s3.owed
  <2>1. /\ s1 = "held" /\ s1' = "exited" /\ s3.open = TRUE /\ s5.state = "open"
        /\ s12' = s12 + all /\ s3' = [s3 EXCEPT !.open = FALSE, !.worth = 0, !.owed = 0]
        /\ UNCHANGED <<s2, s4, s5, s7, s8, s9, s10, s11, s13>>
    BY <1>3, <1>f DEF Books!Withdraw, BooksShape
  <2>2. all \in Int /\ s3.owed \in Int
    BY <1>f DEF BooksShape
  <2>3. PICK leg \in [Sides -> 0 .. all], usd \in {Books!None, Books!Known(all)},
             fee \in {Books!None, Books!Known(s3.owed)} :
          s6' = [usd |-> usd, fee |-> fee, leg |-> leg]
    BY <1>3 DEF Books!Withdraw, Sides
  <2>4. s6' \in [usd : Money, fee : Money, leg : [Sides -> Nat]]
    <3>1. leg \in [Sides -> Nat]
      BY <2>2, <2>3
    <3>2. usd \in Money /\ fee \in Money
      BY <2>2, <2>3, MoneyFacts
    <3> QED BY <2>3, <3>1, <3>2
  <2>5. s3' \in [open : BOOLEAN, worth : Int, owed : Int] /\ s3'.open = FALSE
    <3>1. s3' = [open |-> FALSE, worth |-> 0, owed |-> 0]
      BY <2>1, <1>c
    <3> QED BY <3>1
  <2>6. BooksShape'
    BY <2>1, <2>2, <2>4, <2>5, <1>f DEF BooksShape
  <2>7. s6'.usd # Books!None => s6'.usd.usd + s4.fees - s4.basis = Total'
    BY <2>1, <2>2, <2>3, <1>f, MoneyFacts DEF Total, OnChain, BooksShape
  <2>8. s8 = Books!Nothing /\ \A l \in Sides : s8[l] = 0
    BY <2>1, <1>f DEF OnChain, Books!Nothing, Sides
  <2>9. Answer'
    BY <2>1, <2>7, <2>8, <1>f DEF Answer
  <2>10. Booked'
    BY <2>1, <1>f DEF Booked
  <2> QED BY <2>1, <2>5, <2>6, <2>9, <2>10, <1>f
          DEF BooksInv, OnChain, Books!BookedOnce, Books!EndsBooked, Books!Closed
<1>4. CASE Books!Unanswered
  <2>1. /\ s1 = "held" /\ s1' = "exited" /\ s5.state = "open" /\ s6' = Books!NoAnswer
        /\ UNCHANGED <<s2, s4, s5, s7, s8, s9, s10, s11, s13>>
    BY <1>4 DEF Books!Unanswered
  <2>2. /\ s3' \in [open : BOOLEAN, worth : Int, owed : Int] /\ s12' \in Int
        /\ s3'.open = FALSE \/ UNCHANGED <<s3, s12>>
    <3>1. CASE s3' = [s3 EXCEPT !.open = FALSE, !.worth = 0, !.owed = 0]
               /\ s12' = s12 + s3.worth + s3.owed
      <4>1. s3' \in [open : BOOLEAN, worth : Int, owed : Int] /\ s3'.open = FALSE
        <5>1. s3' = [open |-> FALSE, worth |-> 0, owed |-> 0]
          BY <3>1, <1>c
        <5> QED BY <5>1
      <4>2. s3.worth \in Int /\ s3.owed \in Int /\ s12 \in Int
        BY <1>f DEF BooksShape
      <4> QED BY <3>1, <4>1, <4>2
    <3>2. CASE UNCHANGED <<s3, s12>>
      BY <3>2, <1>f DEF BooksShape
    <3> QED BY <1>4, <3>1, <3>2 DEF Books!Unanswered
  <2>3. /\ Books!NoAnswer \in [usd : Money, fee : Money, leg : [Sides -> Nat]]
        /\ Books!NoAnswer.usd = Books!None
    BY MoneyFacts DEF Books!NoAnswer, Books!Nothing, Sides
  <2>4. BooksShape'
    BY <2>1, <2>2, <2>3, <1>f DEF BooksShape
  <2>5. OnChain'
    BY <2>1, <2>2, <1>f DEF OnChain
  <2>6. Answer' /\ Booked'
    BY <2>1, <2>3, <1>f DEF Answer, Booked
  <2> QED BY <2>1, <2>4, <2>5, <2>6, <1>f
          DEF BooksInv, Books!BookedOnce, Books!EndsBooked, Books!Closed
<1>5. CASE Books!BookAtOnce
  <2>1. /\ s1 = "exited" /\ s1' = "save" /\ s2 = FALSE /\ s4' = Books!Credited(s4)
        /\ s7' = IF s6.usd = Books!None THEN Books!None ELSE Books!Realized(s6.usd, s4)
        /\ UNCHANGED <<s2, s3, s5, s6, s8, s9, s10, s11, s12, s13>>
    BY <1>5, <1>f DEF Books!BookAtOnce, BooksShape
  <2>2. s4' \in [basis : Int, fees : Int]
    <3>1. CASE s6.fee = Books!None
      BY <2>1, <3>1, <1>f DEF Books!Credited, BooksShape
    <3>2. CASE s6.fee # Books!None
      <4>1. s6.fee.usd \in Int
        BY <3>2, <1>f, MoneyFacts DEF BooksShape
      <4> QED BY <2>1, <3>2, <4>1, <1>f DEF Books!Credited, BooksShape
    <3> QED BY <3>1, <3>2
  <2>3. s6.usd # Books!None => s7' = Books!Known(Total) /\ s8 = Books!Nothing
    BY <2>1, <1>f DEF Books!Realized, Answer
  <2>4. Total \in Int /\ Total' = Total
    BY <2>1, <1>f DEF Total, BooksShape
  <2>5. BooksShape'
    BY <2>1, <2>2, <2>3, <2>4, <1>f, MoneyFacts DEF BooksShape
  <2>6. OnChain'
    BY <2>1, <1>f, MoneyFacts DEF OnChain, Books!Credited, Books!NoAnswer
  <2>7. Answer'
    BY <2>1, <1>f DEF Answer
  <2>8. Booked'
    BY <2>1, <2>3, <2>4, <1>f, MoneyFacts DEF Booked
  <2> QED BY <2>1, <2>4, <2>5, <2>6, <2>7, <2>8, <1>f
          DEF BooksInv, Books!BookedOnce, Books!EndsBooked, Books!Closed, BooksShape
<1>6. CASE \E l \in Sides : Books!Enqueue(l)
  <2>1. PICK l \in Sides : Books!Enqueue(l)
    BY <1>6
  <2>2. /\ s1 \in {"exited", "enqueue"} /\ s1' = "enqueue" /\ s2 = TRUE
        /\ s6.leg[l] > 0 /\ s8' = [s8 EXCEPT ![l] = s6.leg[l]]
        /\ UNCHANGED <<s2, s3, s4, s5, s6, s7, s9, s10, s11, s12, s13>>
    BY <2>1, <1>f DEF Books!Enqueue, Books!Attributable, BooksShape, Sides
  <2>3. s6 # Books!NoAnswer
    BY <2>2 DEF Books!NoAnswer, Books!Nothing, Sides
  <2>4. /\ s8' \in [Sides -> Nat]
        /\ \A k \in Sides : s8'[k] = 0 \/ s8'[k] = s6.leg[k]
    BY <2>2, <2>3, <1>f DEF BooksShape, Answer
  <2>5. BooksShape'
    BY <2>2, <2>4, <1>f DEF BooksShape
  <2>6. Answer'
    BY <2>2, <2>4, <1>f DEF Answer, Total
  <2>7. OnChain' /\ Booked'
    BY <2>2, <2>3, <1>f DEF OnChain, Booked
  <2> QED BY <2>2, <2>5, <2>6, <2>7, <1>f
          DEF BooksInv, Books!BookedOnce, Books!EndsBooked, Books!Closed, BooksShape, Booked
<1>7. CASE Books!BookLater
  <2>1. /\ s1 \in {"exited", "enqueue"} /\ s1' = "save" /\ s2 = TRUE /\ s7' = Books!Settling
        /\ \A l \in Sides : s6.leg[l] > 0 => s8[l] > 0
        /\ UNCHANGED <<s2, s3, s4, s5, s6, s8, s9, s10, s11, s12, s13>>
    BY <1>7, <1>f DEF Books!BookLater, Books!Attributable, BooksShape, Sides
  <2>2. s6.usd # Books!None => /\ s6 # Books!NoAnswer
                               /\ \A l \in Sides : s8[l] = 0 \/ s8[l] = s6.leg[l]
    BY <1>f DEF Answer, Books!NoAnswer
  <2>3. s7' # Books!None => s7' = Books!Known(Total) /\ s8 = Books!Nothing
    <3> SUFFICES ASSUME s7' # Books!None PROVE s7' = Books!Known(Total) /\ s8 = Books!Nothing
      OBVIOUS
    <3>1. /\ s6.usd # Books!None /\ s7' = Books!Realized(s6.usd, s4)
          /\ \A l \in Sides : ~(s6.leg[l] > 0)
      BY <2>1 DEF Books!Settling, Books!Attributable, Sides
    <3>2. \A l \in Sides : s8[l] = 0
      BY <2>2, <3>1, <1>f DEF BooksShape
    <3>3. s8 = Books!Nothing
      BY <3>2, <1>f DEF BooksShape, Books!Nothing, Sides
    <3> QED BY <2>1, <3>1, <3>3, <1>f DEF Answer, Books!Realized
  <2>4. s7' = Books!None /\ s6.usd # Books!None => s8 = s6.leg
    <3> SUFFICES ASSUME s6.usd # Books!None PROVE s8 = s6.leg
      OBVIOUS
    <3>1. \A l \in Sides : s8[l] = s6.leg[l]
      BY <2>1, <2>2, <1>f DEF BooksShape
    <3> QED BY <3>1, <1>f DEF BooksShape
  <2>5. Total \in Int /\ Total' = Total
    BY <2>1, <1>f DEF Total, BooksShape
  <2>6. BooksShape'
    BY <2>1, <2>3, <2>5, <1>f, MoneyFacts DEF BooksShape
  <2>7. OnChain' /\ Answer'
    BY <2>1, <1>f DEF OnChain, Answer
  <2>8. Booked'
    BY <2>1, <2>3, <2>4, <2>5, <1>f DEF Booked
  <2> QED BY <2>1, <2>5, <2>6, <2>7, <2>8, <1>f
          DEF BooksInv, Books!BookedOnce, Books!EndsBooked, Books!Closed, BooksShape
<1>8. CASE Books!Save
  <2>1. /\ s1 = "save" /\ s1' = "close" /\ s5' = Books!Saved(s4)
        /\ UNCHANGED <<s2, s3, s4, s6, s7, s8, s9, s10, s11, s12, s13>>
    BY <1>8 DEF Books!Save
  <2>2. s5'.state = "open" /\ s5'.fees = s4.fees /\ s5'.basis = s4.basis /\ s5.state = "open"
    BY <2>1, <1>f DEF Books!Saved, BooksShape
  <2>3. BooksShape'
    BY <2>1, <2>2, <1>f, MoneyFacts DEF BooksShape, Books!Saved
  <2>4. OnChain' /\ Answer' /\ Booked'
    BY <2>1, <2>2, <1>f DEF OnChain, Answer, Booked, Total
  <2> QED BY <2>1, <2>2, <2>3, <2>4, <1>f
          DEF BooksInv, Books!BookedOnce, Books!EndsBooked, Books!Closed, Booked
<1>9. CASE Books!Close
  <2>1. /\ s1 = "close" /\ s5' = [s5 EXCEPT !.state = "closed", !.realized = s7]
        /\ s1' = IF s2 THEN "tell" ELSE "outcome"
        /\ UNCHANGED <<s2, s3, s4, s6, s7, s8, s9, s10, s11, s12, s13>>
    BY <1>9 DEF Books!Close
  <2>2. /\ s5'.state = "closed" /\ s5'.realized = s7 /\ s5.state = "open"
        /\ s5'.fees = s5.fees /\ s5'.basis = s5.basis
    BY <2>1, <1>f DEF BooksShape
  <2>3. BooksShape'
    BY <2>1, <2>2, <1>f DEF BooksShape
  <2>4. OnChain' /\ Answer' /\ Booked'
    BY <2>1, <2>2, <1>f DEF OnChain, Answer, Booked, Total, BooksShape
  <2> QED BY <2>1, <2>2, <2>3, <2>4, <1>f
          DEF BooksInv, Books!BookedOnce, Books!EndsBooked, Books!Closed, Booked, Total
<1>10. CASE Books!RecordOutcome
  <2>1. /\ s1 = "outcome" /\ s1' = "tell" /\ s9' = s7 /\ s5.realized = s7
        /\ UNCHANGED <<s2, s3, s4, s5, s6, s7, s8, s10, s11, s12, s13>>
    BY <1>10, <1>f DEF Books!RecordOutcome, Booked
  <2>2. s2 = FALSE /\ s5.state = "closed"
    BY <2>1, <1>f DEF Answer, BooksShape
  <2>3. BooksShape' /\ OnChain'
    BY <2>1, <2>2, <1>f DEF BooksShape, OnChain
  <2>4. Answer' /\ Booked'
    BY <2>1, <2>2, <1>f DEF Answer, Booked, Total
  <2>5. Books!BookedOnce'
    BY <2>1, <2>2, <1>f DEF Books!BookedOnce, Books!Closed
  <2>6. Books!EndsBooked'
    BY <2>1, <2>2, <1>f DEF Books!EndsBooked, Books!Closed
  <2> QED BY <2>3, <2>4, <2>5, <2>6 DEF BooksInv
<1>11. CASE Books!Tell
  <2>1. /\ s1 = "tell" /\ s1' = "done" /\ s5.realized = s7
        /\ s10' = IF Books!Unresolved THEN {"unresolved"}
                  ELSE IF s2 THEN Books!Attributable ELSE {}
        /\ UNCHANGED <<s2, s3, s4, s5, s6, s7, s8, s9, s11, s12, s13>>
    BY <1>11, <1>f DEF Books!Tell, Booked
  <2>2. /\ s10' \cap Sides # {} => s10' = {l \in Sides : s8[l] > 0}
        /\ s10' = {"unresolved"} => s7 = Books!None
    <3>1. CASE Books!Unresolved
      BY <2>1, <3>1 DEF Books!Unresolved, Sides
    <3>2. CASE ~Books!Unresolved /\ s2 = TRUE
      <4>1. s10' = {l \in Sides : s6.leg[l] > 0}
        BY <2>1, <3>2 DEF Books!Attributable, Sides
      <4>2. ASSUME NEW k \in s10' PROVE \A l \in Sides : s8[l] > 0 <=> s6.leg[l] > 0
        <5>1. s6.leg[k] > 0 /\ k \in Sides
          BY <4>1, <4>2
        <5>2. s6 # Books!NoAnswer
          BY <5>1 DEF Books!NoAnswer, Books!Nothing, Sides
        <5> QED BY <2>1, <3>2, <5>2, <1>f DEF Answer, BooksShape
      <4> QED BY <4>1, <4>2 DEF Sides
    <3>3. CASE ~Books!Unresolved /\ s2 = FALSE
      BY <2>1, <3>3
    <3> QED BY <3>1, <3>2, <3>3, <1>f DEF BooksShape
  <2>3. BooksShape' /\ OnChain' /\ Answer' /\ Booked'
    BY <2>1, <1>f DEF BooksShape, OnChain, Answer, Booked, Total
  <2>4. Books!BookedOnce'
    BY <2>1, <1>f DEF Books!BookedOnce, Books!Closed
  <2>5. s6.usd # Books!None /\ s7 = Books!None => s8 = s6.leg
    BY <2>1, <1>f DEF Booked
  <2>6. Books!EndsBooked'
    BY <2>1, <2>2, <2>5, <1>f DEF Books!EndsBooked, Books!Closed, BooksShape, Sides
  <2> QED BY <2>3, <2>4, <2>6 DEF BooksInv
<1>12. CASE Books!Restart
  <2>1. /\ s1 # "done" /\ s2' \in BOOLEAN /\ s6' = Books!NoAnswer /\ s7' = Books!None
        /\ UNCHANGED <<s3, s8, s9, s10, s11, s12, s13>> /\ s10 = {}
    BY <1>12, <1>f DEF Books!Restart, Booked
  <2>2. /\ Books!NoAnswer \in [usd : Money, fee : Money, leg : [Sides -> Nat]]
        /\ Books!NoAnswer.usd = Books!None /\ Books!None \in Money
        /\ \A l \in Sides : Books!NoAnswer.leg[l] = 0
    BY MoneyFacts DEF Books!NoAnswer, Books!Nothing, Sides
  <2>3. CASE s5.state # "open" /\ s1' = "done" /\ UNCHANGED <<s4, s5>>
    <3>1. BooksShape' /\ OnChain' /\ Answer' /\ Booked'
      BY <2>1, <2>2, <2>3, <1>f DEF BooksShape, OnChain, Answer, Booked
    <3> QED BY <2>1, <2>3, <3>1, <1>f
            DEF BooksInv, Books!BookedOnce, Books!EndsBooked, Books!Closed
  <2>4. CASE /\ s5.state = "open" /\ s1' = "held" /\ UNCHANGED s5
             /\ s4' = [basis |-> s5.basis, fees |-> s5.fees]
    <3>1. BooksShape' /\ OnChain' /\ Answer' /\ Booked'
      BY <2>1, <2>2, <2>4, <1>f DEF BooksShape, OnChain, Answer, Booked
    <3> QED BY <2>1, <2>4, <3>1, <1>f
            DEF BooksInv, Books!BookedOnce, Books!EndsBooked, Books!Closed
  <2>5. CASE /\ s5.state = "open" /\ s1' = "done" /\ ~s3.open /\ UNCHANGED s4
             /\ s5' = [s5 EXCEPT !.state = "dropped"]
    <3>1. s5'.state = "dropped"
      BY <2>5, <1>f DEF BooksShape
    <3>2. BooksShape' /\ OnChain' /\ Answer' /\ Booked'
      BY <2>1, <2>2, <2>5, <3>1, <1>f DEF BooksShape, OnChain, Answer, Booked
    <3> QED BY <2>1, <2>5, <3>1, <3>2, <1>f
            DEF BooksInv, Books!BookedOnce, Books!EndsBooked, Books!Closed
  <2> QED BY <1>12, <2>3, <2>4, <2>5 DEF Books!Restart
<1>13. CASE UNCHANGED <<s1, s2, s3, s4, s5, s6, s7, s8, s9, s10, s11, s12, s13, s14>>
  BY <1>13, <1>f
  DEF BooksInv, BooksShape, OnChain, Answer, Booked, Total, Books!BookedOnce,
      Books!EndsBooked, Books!Closed
<1> QED
  BY <1>1, <1>2, <1>3, <1>4, <1>5, <1>6, <1>7, <1>8, <1>9, <1>10, <1>11, <1>12, <1>13
  DEF Books!Next, Sides

-----------------------------------------------------------------------------
\* A set has the same number of elements under every name.
LEMMA SameCount ==
    ASSUME NEW S
    PROVE  /\ Errors!Cardinality(S) = Cardinality(S)
           /\ Remarks!Cardinality(S) = Cardinality(S)
           /\ Status!Cardinality(S) = Cardinality(S)
BY Zenon DEF Errors!Cardinality, Remarks!Cardinality, Status!Cardinality, Cardinality

(* Telemetry, the reports                                                  *)

Awaited == UNION {Errors!ToSet(m.batch) : m \in s2}

ReportTypes ==
    /\ s1 \in Seq(ErrorReport)
    /\ \A m \in s2 \cup s3 \cup s4 : m.batch \in Seq(ErrorReport)
    /\ s6 \in [ErrorKind -> Nat] /\ IsFiniteSet(s11)

\* Only what is counted has a receipt, and what is counted keeps it while it may
\* be sent again.
ReceiptInv == s5 \subseteq s11 /\ s11 \cap Errors!InUse \subseteq s5

\* Of the sound reports, what is under way was made and what is answered is counted;
\* no other is counted.
WireInv ==
    /\ \A m \in s3 : Errors!ToSet(m.batch) \ BadReport \subseteq s10
    /\ \A m \in s4 : Errors!ToSet(m.batch) \ BadReport \subseteq s11
    /\ s11 \cap BadReport = {}

ErrorsInv == ReportTypes /\ ReceiptInv /\ WireInv /\ Errors!ReportKept /\ Errors!CountedOnce

LEMMA ErrorsInit == ASSUME Errors!Init PROVE ErrorsInv
<1> USE DEF Errors!Init
<1>1. Errors!ToSet(s1) = {}
  BY DEF Errors!ToSet
<1>2. ReportTypes
  BY FS_EmptySet DEF ReportTypes
<1>3. ReceiptInv /\ WireInv
  BY DEF ReceiptInv, WireInv
<1>4. Errors!ReportKept
  BY <1>1 DEF Errors!ReportKept
<1>5. Errors!CountedOnce
  <2>1. ASSUME NEW k \in ErrorKind PROVE Cardinality({r \in s11 : KindOf(r) = k}) = 0
    <3>1. {r \in s11 : KindOf(r) = k} = {}
      OBVIOUS
    <3> QED BY <3>1, FS_EmptySet
  <2> QED BY <2>1, SameCount DEF Errors!CountedOnce
<1> QED BY <1>2, <1>3, <1>4, <1>5 DEF ErrorsInv

\* The end of a sequence, after its first k.
LEMMA EndOf ==
    ASSUME NEW S, NEW q \in Seq(S), NEW k \in 0 .. Len(q)
    PROVE  /\ SubSeq(q, k + 1, Len(q)) \in Seq(S)
           /\ Len(SubSeq(q, k + 1, Len(q))) = Len(q) - k
           /\ \A i \in 1 .. Len(q) - k : SubSeq(q, k + 1, Len(q))[i] = q[k + i]
OBVIOUS

\* A sequence cut in two.
LEMMA Cut ==
    ASSUME NEW S, NEW q \in Seq(S), NEW k \in 0 .. Len(q)
    PROVE  /\ SubSeq(q, 1, k) \in Seq(S) /\ SubSeq(q, k + 1, Len(q)) \in Seq(S)
           /\ Errors!ToSet(q) = Errors!ToSet(SubSeq(q, 1, k)) \cup Errors!ToSet(SubSeq(q, k + 1, Len(q)))
<1> DEFINE a == SubSeq(q, 1, k)
           b == SubSeq(q, k + 1, Len(q))
<1>1. a \in Seq(S) /\ Len(a) = k /\ \A i \in 1 .. k : a[i] = q[i]
  OBVIOUS
<1>2. b \in Seq(S) /\ Len(b) = Len(q) - k /\ \A i \in 1 .. Len(q) - k : b[i] = q[k + i]
  BY EndOf
<1>3. DOMAIN q = 1 .. Len(q) /\ DOMAIN a = 1 .. Len(a) /\ DOMAIN b = 1 .. Len(b)
  BY <1>1, <1>2
<1> HIDE DEF a, b
<1>4. ASSUME NEW i \in 1 .. Len(q) PROVE q[i] \in Errors!ToSet(a) \cup Errors!ToSet(b)
  <2>1. CASE i <= k
    BY <2>1, <1>1, <1>3 DEF Errors!ToSet
  <2>2. CASE i > k
    <3>1. i - k \in 1 .. Len(b) /\ b[i - k] = q[i]
      BY <2>2, <1>2
    <3> QED BY <3>1, <1>3 DEF Errors!ToSet
  <2> QED BY <2>1, <2>2
<1>5. ASSUME NEW i \in 1 .. Len(a) PROVE a[i] \in Errors!ToSet(q)
  BY <1>1, <1>3 DEF Errors!ToSet
<1>6. ASSUME NEW i \in 1 .. Len(b) PROVE b[i] \in Errors!ToSet(q)
  <2>1. k + i \in 1 .. Len(q) /\ b[i] = q[k + i]
    BY <1>2
  <2> QED BY <2>1, <1>3 DEF Errors!ToSet
<1>7. Errors!ToSet(q) = Errors!ToSet(a) \cup Errors!ToSet(b)
  BY <1>3, <1>4, <1>5, <1>6 DEF Errors!ToSet
<1> QED BY <1>1, <1>2, <1>7 DEF a, b

LEMMA Joined ==
    ASSUME NEW S, NEW q \in Seq(S), NEW t \in Seq(S)
    PROVE  q \o t \in Seq(S) /\ Errors!ToSet(q \o t) = Errors!ToSet(q) \cup Errors!ToSet(t)
<1> DEFINE a == q \o t
<1>1. a \in Seq(S) /\ Len(a) = Len(q) + Len(t) /\ \A i \in 1 .. Len(q) : a[i] = q[i]
  OBVIOUS
<1>2. \A i \in 1 .. Len(t) : a[Len(q) + i] = t[i]
  OBVIOUS
<1>3. DOMAIN q = 1 .. Len(q) /\ DOMAIN a = 1 .. Len(a) /\ DOMAIN t = 1 .. Len(t)
  BY <1>1
<1>0. Len(q) \in Nat /\ Len(t) \in Nat
  OBVIOUS
<1> HIDE DEF a
<1>4. ASSUME NEW i \in 1 .. Len(a) PROVE a[i] \in Errors!ToSet(q) \cup Errors!ToSet(t)
  <2>1. CASE i <= Len(q)
    BY <2>1, <1>0, <1>1, <1>3 DEF Errors!ToSet
  <2>2. CASE i > Len(q)
    <3>1. i - Len(q) \in 1 .. Len(t) /\ Len(q) + (i - Len(q)) = i
      BY <2>2, <1>0, <1>1
    <3>2. a[i] = t[i - Len(q)]
      BY <3>1, <1>2
    <3> QED BY <3>1, <3>2, <1>3 DEF Errors!ToSet
  <2> QED BY <2>1, <2>2, <1>0
<1>5. ASSUME NEW i \in 1 .. Len(q) PROVE q[i] \in Errors!ToSet(a)
  BY <1>0, <1>1, <1>3 DEF Errors!ToSet
<1>6. ASSUME NEW i \in 1 .. Len(t) PROVE t[i] \in Errors!ToSet(a)
  <2> DEFINE j == Len(q) + i
  <2>0. j \in 1 .. Len(a)
    BY <1>0, <1>1
  <2>1. j \in 1 .. Len(a) /\ a[j] = t[i]
    BY <2>0, <1>2
  <2> HIDE DEF j
  <2> QED BY <2>1, <1>3 DEF Errors!ToSet
<1>7. Errors!ToSet(a) = Errors!ToSet(q) \cup Errors!ToSet(t)
  BY <1>3, <1>4, <1>5, <1>6 DEF Errors!ToSet
<1> QED BY <1>1, <1>7 DEF a

LEMMA Appended ==
    ASSUME NEW S, NEW q \in Seq(S), NEW x \in S
    PROVE  Append(q, x) \in Seq(S) /\ Errors!ToSet(Append(q, x)) = Errors!ToSet(q) \cup {x}
<1>1. Append(q, x) \in Seq(S) /\ Len(Append(q, x)) = Len(q) + 1 /\ Len(q) \in Nat
  OBVIOUS
<1>2. Append(q, x)[Len(q) + 1] = x /\ \A i \in 1 .. Len(q) : Append(q, x)[i] = q[i]
  OBVIOUS
<1>3. DOMAIN q = 1 .. Len(q) /\ DOMAIN Append(q, x) = 1 .. Len(q) + 1
  BY <1>1
<1> QED BY <1>1, <1>2, <1>3 DEF Errors!ToSet

LEMMA Headed ==
    ASSUME NEW S, NEW q \in Seq(S), Len(q) > 0
    PROVE  Tail(q) \in Seq(S) /\ Errors!ToSet(q) = {Head(q)} \cup Errors!ToSet(Tail(q))
<1>1. Tail(q) \in Seq(S) /\ Len(Tail(q)) = Len(q) - 1 /\ Len(q) \in Nat /\ Head(q) = q[1]
  OBVIOUS
<1>2. \A i \in 1 .. Len(q) - 1 : Tail(q)[i] = q[i + 1]
  OBVIOUS
<1>3. DOMAIN q = 1 .. Len(q) /\ DOMAIN Tail(q) = 1 .. Len(q) - 1
  BY <1>1
<1>4. ASSUME NEW i \in 1 .. Len(q) PROVE q[i] \in {Head(q)} \cup Errors!ToSet(Tail(q))
  <2>1. CASE i = 1
    BY <2>1, <1>1
  <2>2. CASE i # 1
    <3>1. i - 1 \in 1 .. Len(q) - 1 /\ (i - 1) + 1 = i
      BY <2>2, <1>1
    <3>2. Tail(q)[i - 1] = q[i]
      BY <3>1, <1>2
    <3> QED BY <3>1, <3>2, <1>3 DEF Errors!ToSet
  <2> QED BY <2>1, <2>2
<1>5. Head(q) \in Errors!ToSet(q)
  BY <1>1, <1>3 DEF Errors!ToSet
<1>6. ASSUME NEW i \in 1 .. Len(q) - 1 PROVE Tail(q)[i] \in Errors!ToSet(q)
  BY <1>1, <1>2, <1>3 DEF Errors!ToSet
<1> QED BY <1>1, <1>3, <1>4, <1>5, <1>6 DEF Errors!ToSet

\* A smaller number of reports than there are.
LEMMA FewOf ==
    ASSUME NEW n \in Nat, NEW k \in Nat
    PROVE  /\ Errors!Min({n, k}) \in 0 .. n /\ Errors!Min({n, k}) \in {n, k}
           /\ Errors!Min({n, k}) <= k
<1>1. \E x \in {n, k} : \A y \in {n, k} : x <= y
  OBVIOUS
<1>2. Errors!Min({n, k}) \in {n, k} /\ \A y \in {n, k} : Errors!Min({n, k}) <= y
  BY <1>1 DEF Errors!Min
<1> QED BY <1>2

\* Nothing is counted: the counts hold.
LEMMA CountsStay ==
    ASSUME Errors!CountedOnce, s6' = s6, s11' = s11
    PROVE  Errors!CountedOnce'
BY DEF Errors!CountedOnce

\* What is in use, member by member.
LEMMA InUseIs ==
    \A r : r \in Errors!InUse <=> \/ r \in Errors!ToSet(s1)
                                  \/ \E m \in s2 \cup s3 : r \in Errors!ToSet(m.batch)
BY Zenon DEF Errors!InUse

LEMMA KeptIs ==
    Errors!ReportKept <=>
      \A r : \/ r \in BadReport
             \/ r \in s10 <=> \/ r \in s11 \/ r \in s12 \/ r \in Errors!ToSet(s1)
                              \/ \E m \in s2 : r \in Errors!ToSet(m.batch)
<1> DEFINE K == s11 \cup s12 \cup Errors!ToSet(s1) \cup UNION {Errors!ToSet(m.batch) : m \in s2}
<1>1. \A r : r \in K <=> \/ r \in s11 \/ r \in s12 \/ r \in Errors!ToSet(s1)
                         \/ \E m \in s2 : r \in Errors!ToSet(m.batch)
  BY Zenon
<1>2. Errors!ReportKept <=> s10 \ BadReport = K \ BadReport
  BY Zenon DEF Errors!ReportKept
<1> HIDE DEF K
<1>3. s10 \ BadReport = K \ BadReport <=> \A r : r \in BadReport \/ (r \in s10 <=> r \in K)
  <2>1. s10 \ BadReport = K \ BadReport
        <=> \A r : r \in s10 \ BadReport <=> r \in K \ BadReport
    OBVIOUS
  <2> QED BY <2>1
<1> QED BY <1>1, <1>2, <1>3

\* A sequence lists finitely many values.
LEMMA ListFinite ==
    ASSUME NEW S, NEW q \in Seq(S)
    PROVE  IsFiniteSet(Errors!ToSet(q))
<1>1. Len(q) \in Nat /\ DOMAIN q = 1 .. Len(q)
  OBVIOUS
<1>2. IsFiniteSet(1 .. Len(q))
  BY <1>1, FS_Interval
<1>3. q \in Surjection(1 .. Len(q), Errors!ToSet(q))
  BY <1>1 DEF Surjection, Errors!ToSet
<1> QED BY <1>2, <1>3, FS_Surjection

LEMMA ErrorsNext ==
    ASSUME ErrorsInv,
           [Errors!Next]_<<s1, s2, s3, s4, s5, s6, s7, s8, s9, s10, s11, s12, s13, s14>>
    PROVE  ErrorsInv'
<1> USE RecordsAssumption DEF ReportsAssumption
<1>f. /\ ReportTypes /\ ReceiptInv /\ WireInv /\ Errors!ReportKept /\ Errors!CountedOnce
      /\ s11 \subseteq s10
  <2>1. ReportTypes /\ ReceiptInv /\ WireInv /\ Errors!ReportKept /\ Errors!CountedOnce
    BY DEF ErrorsInv
  <2> QED BY <2>1, KeptIs DEF WireInv
<1>k. (\A r : \/ r \in BadReport
              \/ r \in s10' <=> \/ r \in s11' \/ r \in s12' \/ r \in Errors!ToSet(s1')
                                \/ \E m \in s2' : r \in Errors!ToSet(m.batch))
        => Errors!ReportKept'
  <2> DEFINE K == s11 \cup s12 \cup Errors!ToSet(s1) \cup UNION {Errors!ToSet(m.batch) : m \in s2}
  <2>1. \A r : r \in K' <=> \/ r \in s11' \/ r \in s12' \/ r \in Errors!ToSet(s1')
                            \/ \E m \in s2' : r \in Errors!ToSet(m.batch)
    BY Zenon
  <2>2. s10' \ BadReport = K' \ BadReport => Errors!ReportKept'
    BY Zenon DEF Errors!ReportKept
  <2> HIDE DEF K
  <2> QED BY <2>1, <2>2
<1>u. \A r : r \in Errors!InUse' <=> \/ r \in Errors!ToSet(s1')
                                     \/ \E m \in s2' \cup s3' : r \in Errors!ToSet(m.batch)
  BY Zenon DEF Errors!InUse
<1>1. ASSUME NEW r \in ErrorReport, Errors!ReportError(r) PROVE ErrorsInv'
  <2>1. /\ r \notin s10 /\ s10' = s10 \cup {r} /\ UNCHANGED <<s2, s3, s4, s5, s6, s11>>
    BY <1>1 DEF Errors!ReportError
  <2>2. /\ s1' \in Seq(ErrorReport) /\ s12 \subseteq s12'
        /\ Errors!ToSet(s1') \cup s12' = Errors!ToSet(s1) \cup s12 \cup {r}
        /\ Errors!ToSet(s1') \subseteq Errors!ToSet(s1) \cup {r}
    <3>1. CASE Len(s1) >= Buffer
      <4>1. s1' = Append(Tail(s1), r) /\ s12' = s12 \cup {Head(s1)}
        BY <3>1, <1>1 DEF Errors!ReportError
      <4>2. s1 \in Seq(ErrorReport) /\ Len(s1) > 0
        BY <3>1, <1>f DEF ReportTypes
      <4>3. /\ Tail(s1) \in Seq(ErrorReport)
            /\ Errors!ToSet(s1) = {Head(s1)} \cup Errors!ToSet(Tail(s1))
        BY <4>2, Headed
      <4> DEFINE t == Tail(s1)
      <4>t. t \in Seq(ErrorReport)
        BY <4>3
      <4> HIDE DEF t
      <4>4. Append(t, r) \in Seq(ErrorReport)
            /\ Errors!ToSet(Append(t, r)) = Errors!ToSet(t) \cup {r}
        BY <4>t, Appended
      <4>5. s1' \in Seq(ErrorReport) /\ Errors!ToSet(s1') = Errors!ToSet(Tail(s1)) \cup {r}
        BY <4>1, <4>4 DEF t
      <4> QED BY <4>1, <4>3, <4>5
    <3>2. CASE ~(Len(s1) >= Buffer)
      <4>1. s1' = Append(s1, r) /\ s12' = s12
        BY <3>2, <1>1 DEF Errors!ReportError
      <4> QED BY <4>1, <1>f, Appended DEF ReportTypes
    <3> QED BY <3>1, <3>2
  <2>3. ReportTypes' /\ WireInv'
    BY <2>1, <2>2, <1>f DEF ReportTypes, WireInv
  <2>4. ReceiptInv'
    BY <2>1, <2>2, <1>f, <1>u, InUseIs, Zenon DEF ReceiptInv
  <2>5. Errors!ReportKept'
    BY <2>1, <2>2, <1>f, <1>k, KeptIs
  <2> QED BY <2>1, <2>3, <2>4, <2>5, <1>f, CountsStay DEF ErrorsInv
<1>2. ASSUME Errors!FlushReports PROVE ErrorsInv'
  <2> DEFINE n == Errors!Min({Len(s1), FlushSize})
             b == SubSeq(s1, 1, n)
  <2>1. PICK m : /\ m.batch = b /\ s1' = SubSeq(s1, n + 1, Len(s1))
                 /\ s2' = s2 \cup {m} /\ s3' = s3 \cup {m}
    BY <1>2 DEF Errors!FlushReports
  <2>2. UNCHANGED <<s4, s5, s6, s10, s11, s12>>
    BY <1>2 DEF Errors!FlushReports, Errors!alerts
  <2>3. s1 \in Seq(ErrorReport) /\ n \in 0 .. Len(s1)
    BY <1>f, FewOf DEF ReportTypes
  <2> HIDE DEF n
  <2>4. /\ b \in Seq(ErrorReport) /\ s1' \in Seq(ErrorReport)
        /\ Errors!ToSet(s1) = Errors!ToSet(b) \cup Errors!ToSet(s1')
    BY <2>1, <2>3, Cut
  <2> HIDE DEF b
  <2>5. ReportTypes'
    BY <2>1, <2>2, <2>4, <1>f DEF ReportTypes
  <2>6. Errors!ToSet(b) \ BadReport \subseteq s10
    BY <2>4, <1>f, KeptIs
  <2>7. WireInv'
    BY <2>1, <2>2, <2>6, <1>f DEF WireInv
  <2>8. Errors!InUse' \subseteq Errors!InUse
    BY <2>1, <2>4, <1>u, InUseIs, Zenon
  <2>9. ReceiptInv'
    BY <2>2, <2>8, <1>f DEF ReceiptInv
  <2>10. Errors!ReportKept'
    <3>1. ASSUME NEW r
          PROVE  \/ r \in Errors!ToSet(s1') \/ \E q \in s2' : r \in Errors!ToSet(q.batch)
                 <=> \/ r \in Errors!ToSet(s1) \/ \E q \in s2 : r \in Errors!ToSet(q.batch)
      BY <2>1, <2>4
    <3> QED BY <2>2, <3>1, <1>f, <1>k, KeptIs
  <2> QED BY <2>2, <2>5, <2>7, <2>9, <2>10, <1>f, CountsStay DEF ErrorsInv
<1>3. ASSUME NEW m \in s3, Errors!ServeBatch(m) PROVE ErrorsInv'
  <2>1. s3' = s3 \ {m} /\ UNCHANGED <<s1, s2, s10, s12>>
    BY <1>3 DEF Errors!ServeBatch
  <2>u. Errors!InUse' \subseteq Errors!InUse
    BY <2>1, <1>u, InUseIs, Zenon
  <2>2. CASE UNCHANGED <<s5, s6, s11, s4>>
    <3>1. ReportTypes' /\ WireInv'
      BY <2>1, <2>2, <1>f DEF ReportTypes, WireInv
    <3>2. ReceiptInv'
      BY <2>2, <2>u, <1>f DEF ReceiptInv
    <3>3. Errors!ReportKept'
      BY <2>1, <2>2, <1>f, <1>k, KeptIs
    <3> QED BY <2>2, <3>1, <3>2, <3>3, <1>f, CountsStay DEF ErrorsInv
  <2>3. CASE ~UNCHANGED <<s5, s6, s11, s4>>
    <3> DEFINE new == (Errors!ToSet(m.batch) \ BadReport) \ s5
    <3>1. /\ s5' = s5 \cup new /\ s11' = s11 \cup new /\ s4' = s4 \cup {m}
          /\ s6' = [k \in ErrorKind |-> s6[k] + Cardinality({r \in new : KindOf(r) = k})]
      BY <1>3, <2>3, SameCount DEF Errors!ServeBatch, Errors!Uncounted
    <3>2. \A r \in Errors!ToSet(m.batch) : r \in Errors!InUse /\ (r \in BadReport \/ r \in s10)
      BY <1>f, InUseIs DEF WireInv
    <3>3. new \cap s11 = {}
      BY <3>2, <1>f DEF ReceiptInv
    <3>4. IsFiniteSet(new)
      <4>1. m.batch \in Seq(ErrorReport)
        BY <1>f DEF ReportTypes
      <4>2. IsFiniteSet(Errors!ToSet(m.batch))
        BY <4>1, ListFinite
      <4> QED BY <4>2, FS_Subset
    <3> HIDE DEF new
    <3>5. ASSUME NEW k \in ErrorKind
          PROVE  /\ s6'[k] \in Nat
                 /\ s6'[k] = Cardinality({r \in s11' : KindOf(r) = k})
      <4> DEFINE old == {r \in s11 : KindOf(r) = k}
                 fresh == {r \in new : KindOf(r) = k}
      <4>1. IsFiniteSet(old) /\ IsFiniteSet(fresh)
        BY <3>4, <1>f, FS_Subset DEF ReportTypes
      <4>2. old \cap fresh = {} /\ {r \in s11' : KindOf(r) = k} = old \cup fresh
        BY <3>1, <3>3
      <4>3. s6[k] = Cardinality(old)
        BY <1>f, SameCount DEF Errors!CountedOnce
      <4>4. s6'[k] = s6[k] + Cardinality(fresh)
        BY <3>1
      <4>7. Cardinality({r \in s11' : KindOf(r) = k}) = Cardinality(old \cup fresh)
        BY <4>2
      <4> HIDE DEF old, fresh
      <4>5. Cardinality(old \cup fresh) = Cardinality(old) + Cardinality(fresh)
        <5>1. old \cap fresh = {} /\ Cardinality({}) = 0
          BY <4>2, FS_EmptySet
        <5>2. Cardinality(old) \in Nat /\ Cardinality(fresh) \in Nat
          BY <4>1, FS_CardinalityType
        <5>3. Cardinality(old \cup fresh)
                = Cardinality(old) + Cardinality(fresh) - Cardinality(old \cap fresh)
          BY <4>1, FS_Union
        <5>4. Cardinality(old \cap fresh) = 0
          BY <5>1, Zenon
        <5> QED BY <5>2, <5>3, <5>4
      <4>6. Cardinality(old) \in Nat /\ Cardinality(fresh) \in Nat
        BY <4>1, FS_CardinalityType
      <4> QED BY <4>3, <4>4, <4>5, <4>6, <4>7
    <3>6. Errors!CountedOnce'
      BY <3>5, SameCount DEF Errors!CountedOnce
    <3>7. IsFiniteSet(s11')
      BY <3>1, <3>4, <1>f, FS_Union DEF ReportTypes
    <3>8. s6' \in [ErrorKind -> Nat]
      BY <3>1, <3>5
    <3>9. ReportTypes'
      BY <2>1, <3>1, <3>7, <3>8, <1>f DEF ReportTypes
    <3>10. ReceiptInv'
      BY <2>u, <3>1, <1>f DEF ReceiptInv
    <3>11. WireInv'
      <4>1. Errors!ToSet(m.batch) \ BadReport \subseteq s11' /\ s11' \cap BadReport = {}
        BY <3>1, <1>f DEF new, ReceiptInv, WireInv
      <4> QED BY <4>1, <2>1, <3>1, <1>f DEF WireInv
    <3>12. Errors!ReportKept'
      <4>1. new \subseteq s10
        BY <3>2 DEF new
      <4> QED BY <2>1, <3>1, <4>1, <1>f, <1>k, KeptIs
    <3> QED BY <3>6, <3>9, <3>10, <3>11, <3>12 DEF ErrorsInv
  <2> QED BY <2>2, <2>3
<1>4. ASSUME NEW m \in s2, Errors!Accepted(m) PROVE ErrorsInv'
  <2>1. /\ m \in s4 /\ s2' = s2 \ {m} /\ s4' = s4 \ {m}
        /\ UNCHANGED <<s1, s3, s5, s6, s10, s11, s12>>
    BY <1>4 DEF Errors!Accepted
  <2>2. ReportTypes' /\ WireInv'
    BY <2>1, <1>f DEF ReportTypes, WireInv
  <2>3. Errors!InUse' \subseteq Errors!InUse
    BY <2>1, <1>u, InUseIs, Zenon
  <2>4. ReceiptInv'
    BY <2>1, <2>3, <1>f DEF ReceiptInv
  <2>5. Errors!ReportKept'
    <3>1. Errors!ToSet(m.batch) \ BadReport \subseteq s11
      BY <2>1, <1>f DEF WireInv
    <3> QED BY <2>1, <3>1, <1>f, <1>k, KeptIs
  <2> QED BY <2>1, <2>2, <2>4, <2>5, <1>f, CountsStay DEF ErrorsInv
<1>5. ASSUME NEW m \in s2, Errors!Failed(m) PROVE ErrorsInv'
  <2> DEFINE all == m.batch \o s1
             n == Errors!Min({Len(all), Buffer})
  <2>1. /\ s2' = s2 \ {m} /\ s4' = s4 \ {m} /\ UNCHANGED <<s3, s5, s6, s10, s11>>
        /\ s1' = SubSeq(all, 1, n)
        /\ s12' = s12 \cup Errors!ToSet(SubSeq(all, Buffer + 1, Len(all)))
    BY <1>5 DEF Errors!Failed, Errors!Requeue, Errors!alerts
  <2>2. m.batch \in Seq(ErrorReport) /\ s1 \in Seq(ErrorReport)
    BY <1>f DEF ReportTypes
  <2>3. /\ all \in Seq(ErrorReport)
        /\ Errors!ToSet(all) = Errors!ToSet(m.batch) \cup Errors!ToSet(s1)
    BY <2>2, Joined
  <2> HIDE DEF all
  <2>4. n \in 0 .. Len(all) /\ n \in {Len(all), Buffer} /\ n <= Buffer
    BY <2>3, FewOf
  <2>5. SubSeq(all, Buffer + 1, Len(all)) = SubSeq(all, n + 1, Len(all))
    <3>1. CASE n = Buffer
      BY <3>1
    <3>2. CASE n = Len(all)
      <4>1. Len(all) \in Nat /\ Buffer \in Nat /\ Len(all) <= Buffer
        BY <2>3, <2>4, <3>2
      <4>2. SubSeq(all, Buffer + 1, Len(all)) = <<>> /\ SubSeq(all, Len(all) + 1, Len(all)) = <<>>
        BY <2>3, <4>1
      <4> QED BY <3>2, <4>2
    <3> QED BY <2>4, <3>1, <3>2
  <2> HIDE DEF n
  <2>6. /\ s1' \in Seq(ErrorReport)
        /\ Errors!ToSet(all) = Errors!ToSet(s1') \cup Errors!ToSet(SubSeq(all, n + 1, Len(all)))
    BY <2>1, <2>3, <2>4, Cut
  <2>7. /\ Errors!ToSet(s1') \subseteq Errors!ToSet(m.batch) \cup Errors!ToSet(s1)
        /\ Errors!ToSet(s1') \cup s12' = Errors!ToSet(m.batch) \cup Errors!ToSet(s1) \cup s12
    BY <2>1, <2>3, <2>5, <2>6
  <2>8. ReportTypes' /\ WireInv'
    BY <2>1, <2>6, <1>f DEF ReportTypes, WireInv
  <2>9. Errors!InUse' \subseteq Errors!InUse
    BY <2>1, <2>7, <1>u, InUseIs, Zenon
  <2>10. ReceiptInv'
    BY <2>1, <2>9, <1>f DEF ReceiptInv
  <2>11. Errors!ReportKept'
    <3>1. ASSUME NEW r
          PROVE  \/ r \in s12' \/ r \in Errors!ToSet(s1') \/ \E q \in s2' : r \in Errors!ToSet(q.batch)
                 <=> \/ r \in s12 \/ r \in Errors!ToSet(s1) \/ \E q \in s2 : r \in Errors!ToSet(q.batch)
      BY <2>1, <2>7
    <3> QED BY <2>1, <3>1, <1>f, <1>k, KeptIs
  <2> QED BY <2>1, <2>8, <2>10, <2>11, <1>f, CountsStay DEF ErrorsInv
<1>6. ASSUME Errors!PruneReceipts PROVE ErrorsInv'
  <2>1. s5' = s5 \cap Errors!InUse /\ UNCHANGED <<s1, s2, s3, s4, s6, s10, s11, s12>>
    BY <1>6 DEF Errors!PruneReceipts
  <2>2. ReportTypes' /\ WireInv' /\ Errors!ReportKept' /\ Errors!CountedOnce'
    BY <2>1, <1>f, CountsStay DEF ReportTypes, WireInv, Errors!ReportKept
  <2>3. Errors!InUse' = Errors!InUse
    BY <2>1, Zenon DEF Errors!InUse
  <2>4. ReceiptInv'
    BY <2>1, <2>3, <1>f DEF ReceiptInv
  <2> QED BY <2>2, <2>4 DEF ErrorsInv
<1>7. ASSUME Errors!EngineRestart PROVE ErrorsInv'
  <2>1. /\ s12' = s12 \cup Errors!ToSet(s1) \cup UNION {Errors!ToSet(m.batch) : m \in s2}
        /\ s1' = <<>> /\ s2' = {} /\ s4' = {} /\ UNCHANGED <<s3, s5, s6, s10, s11>>
    BY <1>7 DEF Errors!EngineRestart
  <2>2. ReportTypes' /\ WireInv'
    BY <2>1, <1>f DEF ReportTypes, WireInv
  <2>3. Errors!ToSet(s1') = {}
    BY <2>1 DEF Errors!ToSet
  <2>4. Errors!InUse' \subseteq Errors!InUse
    BY <2>1, <2>3, <1>u, InUseIs, Zenon
  <2>5. ReceiptInv'
    BY <2>1, <2>4, <1>f DEF ReceiptInv
  <2>6. \A r : r \in s12' <=> \/ r \in s12 \/ r \in Errors!ToSet(s1)
                              \/ \E m \in s2 : r \in Errors!ToSet(m.batch)
    BY <2>1, Zenon
  <2>7. Errors!ReportKept'
    BY <2>1, <2>3, <2>6, <1>f, <1>k, KeptIs
  <2> QED BY <2>1, <2>2, <2>5, <2>7, <1>f, CountsStay DEF ErrorsInv
<1>8. ASSUME UNCHANGED <<s1, s2, s3, s4, s5, s6, s10, s11, s12>> PROVE ErrorsInv'
  <2>1. ReportTypes' /\ WireInv' /\ Errors!ReportKept' /\ Errors!CountedOnce'
    BY <1>8, <1>f, CountsStay DEF ReportTypes, WireInv, Errors!ReportKept
  <2>2. Errors!InUse' = Errors!InUse
    BY <1>8, Zenon DEF Errors!InUse
  <2>3. ReceiptInv'
    BY <1>8, <2>2, <1>f DEF ReceiptInv
  <2> QED BY <2>1, <2>3 DEF ErrorsInv
<1>9. ASSUME \/ Errors!SetPreference \/ \E a \in {} : Errors!Emit(a)
             \/ \E k \in {} : \/ Errors!Reclaim(k) \/ Errors!Claim(k) \/ Errors!FlushDies(k)
                              \/ \E a \in {} : Errors!Deliver(k, a)
      PROVE  UNCHANGED <<s1, s2, s3, s4, s5, s6, s10, s11, s12>>
  BY <1>9 DEF Errors!SetPreference, Errors!reports
<1> QED BY <1>1, <1>2, <1>3, <1>4, <1>5, <1>6, <1>7, <1>8, <1>9, Zenon DEF Errors!Next

LEMMA ErrorsClaims == ErrorsInv => Errors!CountedOnce /\ Errors!ReportKept
BY DEF ErrorsInv

-----------------------------------------------------------------------------
(* Telemetry, the alerts                                                   *)

AlertRow == [at : {"none", "pending", "claimed", "delivered"},
             by : Flusher \cup {"nobody"}, attempts : 0 .. AbandonAfter]

FlushRow == [pc : {"off", "claim", "send"}, todo : SUBSET Notice]

AlertTypes ==
    /\ s8 \in [Notice -> AlertRow] /\ s9 \in [Flusher -> FlushRow]
    /\ s13 \in [Notice -> Nat] /\ s14 \in [Notice -> Nat]

\* A flush works on the rows that it has claimed, and on no other.
ClaimInv ==
    \A k \in Flusher : /\ s9[k].pc # "send" => s9[k].todo = {}
                       /\ \A a \in s9[k].todo : s8[a].at = "claimed" /\ s8[a].by = k

Idle(r) == r.at = "claimed" /\ r.by = "nobody"

\* A row whose message went p times, q of them with a claim that was interrupted.
RowFits(r, p, q) ==
    /\ p <= q + (IF r.at = "delivered" THEN 1 ELSE 0)
    /\ p <= r.attempts + (IF r.at = "delivered" \/ Idle(r) THEN 1 ELSE 0)
    /\ r.at \in {"claimed", "delivered"} => r.attempts < AbandonAfter

SentInv == \A a \in Notice : RowFits(s8[a], s13[a], s14[a])

AlertsInv == AlertTypes /\ ClaimInv /\ SentInv

LEMMA AlertsInit == ASSUME Alerts!Init PROVE AlertsInv
<1> USE RecordsAssumption DEF AlertsAssumption, Alerts!Init
<1>1. AlertTypes
  BY DEF AlertTypes, AlertRow, FlushRow
<1>2. ClaimInv
  BY DEF ClaimInv
<1>3. SentInv
  BY DEF SentInv, RowFits, Idle
<1> QED BY <1>1, <1>2, <1>3 DEF AlertsInv

LEMMA AlertsClaims == AlertsInv => Alerts!AlertNotRepeated
<1> SUFFICES ASSUME AlertsInv, NEW a \in Notice
             PROVE  s13[a] <= 1 + s14[a] /\ s13[a] <= AbandonAfter
  BY DEF Alerts!AlertNotRepeated
<1> USE RecordsAssumption DEF AlertsAssumption
<1>1. s8[a] \in AlertRow /\ s13[a] \in Nat /\ s14[a] \in Nat /\ RowFits(s8[a], s13[a], s14[a])
  BY DEF AlertsInv, AlertTypes, SentInv
<1> QED BY <1>1 DEF RowFits, Idle, AlertRow

\* A row whose fields are these.
IsRow(t, at, by, n) == t \in AlertRow /\ t.at = at /\ t.by = by /\ t.attempts = n

LEMMA RowSet ==
    ASSUME NEW r \in AlertRow, NEW k \in Flusher \cup {"nobody"}
    PROVE  /\ IsRow([r EXCEPT !.at = "pending"], "pending", r.by, r.attempts)
           /\ IsRow([r EXCEPT !.by = k], r.at, k, r.attempts)
           /\ IsRow([r EXCEPT !.at = "claimed", !.by = k], "claimed", k, r.attempts)
           /\ IsRow([r EXCEPT !.at = "delivered", !.by = k], "delivered", k, r.attempts)
BY DEF IsRow, AlertRow

LEMMA RowTried ==
    ASSUME NEW r \in AlertRow, r.attempts < AbandonAfter
    PROVE  /\ IsRow([r EXCEPT !.at = "pending", !.attempts = @ + 1], "pending", r.by, r.attempts + 1)
           /\ IsRow(Alerts!Released(r), "pending", "nobody", r.attempts + 1)
<1> USE RecordsAssumption DEF AlertsAssumption
<1> DEFINE n == r.attempts + 1
<1>1. n \in 0 .. AbandonAfter
  BY DEF AlertRow
<1> HIDE DEF n
<1>2. /\ IsRow([r EXCEPT !.at = "pending", !.attempts = n], "pending", r.by, n)
      /\ IsRow([r EXCEPT !.at = "pending", !.by = "nobody", !.attempts = n], "pending", "nobody", n)
  BY <1>1 DEF IsRow, AlertRow
<1>3. /\ [r EXCEPT !.at = "pending", !.attempts = @ + 1] = [r EXCEPT !.at = "pending", !.attempts = n]
      /\ Alerts!Released(r) = [r EXCEPT !.at = "pending", !.by = "nobody", !.attempts = n]
  BY DEF n, Alerts!Released
<1> QED BY <1>2, <1>3 DEF n

\* What the actions make of a row.
LEMMA RowMoves ==
    ASSUME NEW r \in AlertRow, NEW p \in Nat, NEW q \in Nat, RowFits(r, p, q)
    PROVE  /\ LET t == [r EXCEPT !.at = "pending"]
              IN  r.at = "none" => t \in AlertRow /\ RowFits(t, p, q)
           /\ LET t == [r EXCEPT !.at = "pending", !.attempts = @ + 1]
              IN  Idle(r) => t \in AlertRow /\ RowFits(t, p, q)
           /\ \A k \in Flusher :
                LET t == [r EXCEPT !.at = "claimed", !.by = k]
                IN  r.at = "pending" /\ r.attempts < AbandonAfter
                      => t \in AlertRow /\ RowFits(t, p, q) /\ t.at = "claimed" /\ t.by = k
           /\ r.at = "claimed" /\ r.by # "nobody" =>
                /\ LET t == [r EXCEPT !.at = "delivered", !.by = "nobody"]
                   IN  t \in AlertRow /\ RowFits(t, p + 1, q)
                /\ LET t == [r EXCEPT !.by = "nobody"]
                   IN  t \in AlertRow /\ RowFits(t, p, q) /\ RowFits(t, p + 1, q + 1)
                /\ LET t == Alerts!Released(r)
                   IN  t \in AlertRow /\ RowFits(t, p, q)
<1> USE RecordsAssumption DEF AlertsAssumption
<1>0. r.attempts \in Nat /\ AbandonAfter \in Nat
  BY DEF AlertRow
<1>1. ASSUME NEW t, r.at = "none", IsRow(t, "pending", r.by, r.attempts)
      PROVE  t \in AlertRow /\ RowFits(t, p, q)
  BY <1>0, <1>1 DEF IsRow, RowFits, Idle
<1>2. ASSUME NEW t, Idle(r), IsRow(t, "pending", r.by, r.attempts + 1)
      PROVE  t \in AlertRow /\ RowFits(t, p, q)
  BY <1>0, <1>2 DEF IsRow, RowFits, Idle
<1>3. ASSUME NEW t, NEW k \in Flusher, r.at = "pending", r.attempts < AbandonAfter,
             IsRow(t, "claimed", k, r.attempts)
      PROVE  t \in AlertRow /\ RowFits(t, p, q) /\ t.at = "claimed" /\ t.by = k
  BY <1>0, <1>3 DEF IsRow, RowFits, Idle
<1>4. ASSUME NEW t, r.at = "claimed", r.by # "nobody"
      PROVE  /\ IsRow(t, "delivered", "nobody", r.attempts) => t \in AlertRow /\ RowFits(t, p + 1, q)
             /\ IsRow(t, "claimed", "nobody", r.attempts)
                  => t \in AlertRow /\ RowFits(t, p, q) /\ RowFits(t, p + 1, q + 1)
             /\ IsRow(t, "pending", "nobody", r.attempts + 1) => t \in AlertRow /\ RowFits(t, p, q)
  <2>1. r.attempts < AbandonAfter /\ p <= q /\ p <= r.attempts
    BY <1>0, <1>4 DEF RowFits, Idle
  <2> QED BY <1>0, <2>1 DEF IsRow, RowFits, Idle
<1>5. Idle(r) \/ r.at = "claimed" => r.attempts < AbandonAfter
  BY DEF RowFits, Idle
<1> QED BY <1>1, <1>2, <1>3, <1>4, <1>5, RowSet, RowTried, Zenon DEF Idle

LEMMA AlertsNext ==
    ASSUME AlertsInv,
           [Alerts!Next]_<<s1, s2, s3, s4, s5, s6, s7, s8, s9, s10, s11, s12, s13, s14>>
    PROVE  AlertsInv'
<1> USE RecordsAssumption DEF AlertsAssumption
<1>f. AlertTypes /\ ClaimInv /\ SentInv
  BY DEF AlertsInv
<1>t. ASSUME NEW a \in Notice
      PROVE  s8[a] \in AlertRow /\ s13[a] \in Nat /\ s14[a] \in Nat /\ RowFits(s8[a], s13[a], s14[a])
  BY <1>f DEF AlertTypes, SentInv
<1>k. ASSUME NEW k \in Flusher
      PROVE  /\ s9[k].todo \subseteq Notice /\ k # "nobody"
             /\ \A a \in s9[k].todo : s8[a].at = "claimed" /\ s8[a].by = k
  BY <1>f DEF AlertTypes, FlushRow, ClaimInv
\* Flush k is changed, and the rows of the others are not.
<1>c. ASSUME NEW k \in Flusher, NEW d \in SUBSET Notice, NEW pc \in {"off", "claim", "send"},
             s9' = [s9 EXCEPT ![k] = [pc |-> pc, todo |-> d]], pc # "send" => d = {},
             \A a \in d : s8'[a].at = "claimed" /\ s8'[a].by = k,
             \A j \in Flusher \ {k} : \A a \in s9[j].todo : s8'[a] = s8[a]
      PROVE  ClaimInv' /\ s9' \in [Flusher -> FlushRow]
  <2>1. [pc |-> pc, todo |-> d] \in FlushRow
    BY DEF FlushRow
  <2>2. s9' \in [Flusher -> FlushRow] /\ s9'[k] = [pc |-> pc, todo |-> d]
        /\ \A j \in Flusher \ {k} : s9'[j] = s9[j]
    BY <2>1, <1>c, <1>f DEF AlertTypes
  <2>3. ClaimInv'
    BY <2>2, <1>c, <1>f DEF ClaimInv
  <2> QED BY <2>2, <2>3
<1>1. ASSUME NEW a \in Notice, Alerts!Emit(a) PROVE AlertsInv'
  <2> DEFINE t == [s8[a] EXCEPT !.at = "pending"]
  <2>1. s8[a].at = "none" /\ s8' = [s8 EXCEPT ![a] = t] /\ UNCHANGED <<s9, s13, s14>>
    BY <1>1 DEF Alerts!Emit
  <2>2. t \in AlertRow /\ RowFits(t, s13[a], s14[a])
    BY <2>1, <1>t, RowMoves
  <2> HIDE DEF t
  <2>3. s8' \in [Notice -> AlertRow] /\ s8'[a] = t /\ \A b \in Notice \ {a} : s8'[b] = s8[b]
    BY <2>1, <2>2, <1>f DEF AlertTypes
  <2>4. AlertTypes' /\ SentInv'
    BY <2>1, <2>2, <2>3, <1>f DEF AlertTypes, SentInv
  <2>5. ClaimInv'
    BY <2>1, <2>3, <1>f, <1>k DEF ClaimInv
  <2> QED BY <2>4, <2>5 DEF AlertsInv
<1>2. ASSUME NEW k \in Flusher, Alerts!Reclaim(k) PROVE AlertsInv'
  <2>1. /\ s9[k].pc = "off" /\ s9' = [s9 EXCEPT ![k].pc = "claim"]
        /\ s8' = [a \in Notice |->
                    IF Idle(s8[a]) THEN [s8[a] EXCEPT !.at = "pending", !.attempts = @ + 1]
                    ELSE s8[a]]
        /\ UNCHANGED <<s13, s14>>
    BY <1>2 DEF Alerts!Reclaim, Alerts!Stale, Idle
  <2>2. ASSUME NEW a \in Notice
        PROVE  s8'[a] \in AlertRow /\ RowFits(s8'[a], s13[a], s14[a])
    <3>1. CASE Idle(s8[a])
      BY <3>1, <2>1, <1>t, RowMoves
    <3>2. CASE ~Idle(s8[a])
      BY <3>2, <2>1, <1>t
    <3> QED BY <3>1, <3>2
  <2>3. s8' \in [Notice -> AlertRow]
    BY <2>1, <2>2
  <2>4. s9[k].todo = {} /\ s9' = [s9 EXCEPT ![k] = [pc |-> "claim", todo |-> {}]]
    <3>1. s9[k].todo = {} /\ s9[k] \in FlushRow
      BY <2>1, <1>f DEF ClaimInv, AlertTypes
    <3>2. [s9[k] EXCEPT !.pc = "claim"] = [pc |-> "claim", todo |-> {}]
      BY <3>1 DEF FlushRow
    <3> QED BY <2>1, <3>1, <3>2
  <2>5. ASSUME NEW j \in Flusher \ {k}, NEW a \in s9[j].todo PROVE s8'[a] = s8[a]
    <3>1. a \in Notice /\ ~Idle(s8[a])
      BY <1>k DEF Idle
    <3> QED BY <3>1, <2>1
  <2>6. ClaimInv' /\ s9' \in [Flusher -> FlushRow]
    BY <2>4, <2>5, <1>c
  <2> QED BY <2>1, <2>2, <2>3, <2>6, <1>f DEF AlertsInv, AlertTypes, SentInv
<1>3. ASSUME NEW k \in Flusher, Alerts!Claim(k) PROVE AlertsInv'
  <2>0. s9[k].pc = "claim" /\ UNCHANGED <<s13, s14>>
    BY <1>3 DEF Alerts!Claim
  <2>1. PICK s \in SUBSET {a \in Notice : Alerts!Claimable(a)} :
          /\ s8' = [a \in Notice |->
                      IF a \in s THEN [s8[a] EXCEPT !.at = "claimed", !.by = k] ELSE s8[a]]
          /\ s9' = [s9 EXCEPT ![k] = [pc |-> IF s = {} THEN "off" ELSE "send", todo |-> s]]
    BY <1>3 DEF Alerts!Claim
  <2>2. ASSUME NEW a \in s
        PROVE  /\ a \in Notice /\ s8[a].at = "pending"
               /\ s8'[a] \in AlertRow /\ RowFits(s8'[a], s13[a], s14[a])
               /\ s8'[a].at = "claimed" /\ s8'[a].by = k
    <3>1. a \in Notice /\ s8[a].at = "pending" /\ s8[a].attempts < AbandonAfter
      BY DEF Alerts!Claimable, Alerts!Pending
    <3> DEFINE t == [s8[a] EXCEPT !.at = "claimed", !.by = k]
    <3>2. s8'[a] = t
      BY <3>1, <2>1
    <3>3. t \in AlertRow /\ RowFits(t, s13[a], s14[a]) /\ t.at = "claimed" /\ t.by = k
      BY <3>1, <1>t, RowMoves
    <3> HIDE DEF t
    <3> QED BY <3>1, <3>2, <3>3
  <2>3. ASSUME NEW a \in Notice \ s PROVE s8'[a] = s8[a]
    BY <2>1
  <2>4. s8' \in [Notice -> AlertRow]
    BY <2>1, <2>2, <2>3, <1>t
  <2>5. SentInv'
    BY <2>0, <2>2, <2>3, <1>t DEF SentInv
  <2>6. ASSUME NEW j \in Flusher \ {k}, NEW a \in s9[j].todo PROVE s8'[a] = s8[a]
    <3>1. a \in Notice /\ s8[a].at = "claimed"
      BY <1>k
    <3> QED BY <3>1, <2>2, <2>3
  <2>7. ClaimInv' /\ s9' \in [Flusher -> FlushRow]
    <3> DEFINE pc == IF s = {} THEN "off" ELSE "send"
    <3>1. pc \in {"off", "claim", "send"} /\ (pc # "send" => s = {}) /\ s \in SUBSET Notice
      OBVIOUS
    <3>2. s9' = [s9 EXCEPT ![k] = [pc |-> pc, todo |-> s]]
      BY <2>1
    <3> HIDE DEF pc
    <3> QED BY <3>1, <3>2, <2>2, <2>6, <1>c
  <2> QED BY <2>0, <2>4, <2>5, <2>7, <1>f DEF AlertsInv, AlertTypes
<1>4. ASSUME NEW k \in Flusher, NEW a \in Notice, Alerts!Deliver(k, a) PROVE AlertsInv'
  <2>1. s9[k].pc = "send" /\ a \in s9[k].todo /\ s8[a].at = "claimed" /\ s8[a].by = k /\ k # "nobody"
    BY <1>4, <1>k DEF Alerts!Deliver
  <2> DEFINE Fits(r, p, q) ==
               /\ s8' = [s8 EXCEPT ![a] = r] /\ r \in AlertRow /\ RowFits(r, p, q)
               /\ s13' = [s13 EXCEPT ![a] = p] /\ s14' = [s14 EXCEPT ![a] = q]
  <2>2. \E r : \E p, q \in Nat : Fits(r, p, q)
    <3> DEFINE p == s13[a]
               q == s14[a]
    <3>0. /\ p \in Nat /\ q \in Nat /\ p + 1 \in Nat /\ q + 1 \in Nat /\ s8[a] \in AlertRow
          /\ RowFits(s8[a], p, q)
      BY <1>t
    <3>u. s13 = [s13 EXCEPT ![a] = p] /\ s14 = [s14 EXCEPT ![a] = q]
      BY <1>f DEF AlertTypes
    <3>1. CASE /\ s13' = [s13 EXCEPT ![a] = @ + 1] /\ UNCHANGED s14
               /\ s8' = [s8 EXCEPT ![a].at = "delivered", ![a].by = "nobody"]
      <4> DEFINE r == [s8[a] EXCEPT !.at = "delivered", !.by = "nobody"]
      <4>1. s8' = [s8 EXCEPT ![a] = r]
        BY <3>1, <1>f DEF AlertTypes
      <4>2. r \in AlertRow /\ RowFits(r, p + 1, q)
        BY <3>0, <2>1, RowMoves
      <4> HIDE DEF r
      <4>3. Fits(r, p + 1, q)
        BY <3>1, <3>u, <4>1, <4>2
      <4> QED BY <3>0, <4>3
    <3>2. CASE /\ s13' = [s13 EXCEPT ![a] = @ + 1] /\ s14' = [s14 EXCEPT ![a] = @ + 1]
               /\ s8' = [s8 EXCEPT ![a].by = "nobody"]
      <4> DEFINE r == [s8[a] EXCEPT !.by = "nobody"]
      <4>1. s8' = [s8 EXCEPT ![a] = r]
        BY <3>2
      <4>2. r \in AlertRow /\ RowFits(r, p + 1, q + 1)
        BY <3>0, <2>1, RowMoves
      <4> HIDE DEF r
      <4>3. Fits(r, p + 1, q + 1)
        BY <3>2, <4>1, <4>2
      <4> QED BY <3>0, <4>3
    <3>3. CASE s8' = [s8 EXCEPT ![a] = Alerts!Released(s8[a])] /\ UNCHANGED <<s13, s14>>
      <4> DEFINE r == Alerts!Released(s8[a])
      <4>1. s8' = [s8 EXCEPT ![a] = r]
        BY <3>3
      <4>2. r \in AlertRow /\ RowFits(r, p, q)
        BY <3>0, <2>1, RowMoves
      <4> HIDE DEF r
      <4>3. Fits(r, p, q)
        BY <3>3, <3>u, <4>1, <4>2
      <4> QED BY <3>0, <4>3
    <3>4. CASE s8' = [s8 EXCEPT ![a].by = "nobody"] /\ UNCHANGED <<s13, s14>>
      <4> DEFINE r == [s8[a] EXCEPT !.by = "nobody"]
      <4>1. s8' = [s8 EXCEPT ![a] = r]
        BY <3>4
      <4>2. r \in AlertRow /\ RowFits(r, p, q)
        BY <3>0, <2>1, RowMoves
      <4> HIDE DEF r
      <4>3. Fits(r, p, q)
        BY <3>4, <3>u, <4>1, <4>2
      <4> QED BY <3>0, <4>3
    <3> QED BY <1>4, <3>1, <3>2, <3>3, <3>4 DEF Alerts!Deliver
  <2>3. PICK r : \E p, q \in Nat : Fits(r, p, q)
    BY <2>2
  <2>4. PICK p \in Nat, q \in Nat : Fits(r, p, q)
    BY <2>3
  <2>6. ClaimInv' /\ s9' \in [Flusher -> FlushRow]
    <3> DEFINE d == s9[k].todo \ {a}
               pc == IF d = {} THEN "off" ELSE "send"
    <3>1. pc \in {"off", "claim", "send"} /\ (pc # "send" => d = {})
      OBVIOUS
    <3>2. s9' = [s9 EXCEPT ![k] = [pc |-> pc, todo |-> d]]
      BY <1>4 DEF Alerts!Deliver, Alerts!Rest
    <3>3. \A b \in Notice \ {a} : s8'[b] = s8[b]
      BY <2>4, <1>f DEF AlertTypes
    <3>4. d \in SUBSET Notice /\ \A b \in d : s8'[b].at = "claimed" /\ s8'[b].by = k
      BY <3>3, <1>k
    <3>5. ASSUME NEW j \in Flusher \ {k}, NEW b \in s9[j].todo PROVE s8'[b] = s8[b]
      <4>1. b \in Notice /\ s8[b].by = j
        BY <1>k
      <4> QED BY <4>1, <2>1, <3>3
    <3> HIDE DEF d, pc
    <3> QED BY <3>1, <3>2, <3>4, <3>5, <1>c
  <2>5. AlertTypes' /\ SentInv'
    <3>1. /\ s8' \in [Notice -> AlertRow] /\ s13' \in [Notice -> Nat] /\ s14' \in [Notice -> Nat]
          /\ s8'[a] = r /\ s13'[a] = p /\ s14'[a] = q
          /\ \A b \in Notice \ {a} : s8'[b] = s8[b] /\ s13'[b] = s13[b] /\ s14'[b] = s14[b]
      BY <2>4, <1>f DEF AlertTypes
    <3>2. SentInv'
      BY <3>1, <2>4, <1>t DEF SentInv
    <3>3. s9' \in [Flusher -> FlushRow]
      BY <2>6
    <3> QED BY <3>1, <3>2, <3>3 DEF AlertTypes
  <2> QED BY <2>5, <2>6 DEF AlertsInv
<1>5. ASSUME NEW k \in Flusher, Alerts!FlushDies(k) PROVE AlertsInv'
  <2>1. /\ s9[k].pc = "send"
        /\ s8' = [a \in Notice |-> IF a \in s9[k].todo THEN [s8[a] EXCEPT !.by = "nobody"] ELSE s8[a]]
        /\ s9' = [s9 EXCEPT ![k] = [pc |-> "off", todo |-> {}]]
    BY <1>5 DEF Alerts!FlushDies
  <2>2. PICK c \in s9[k].todo, out \in BOOLEAN :
          /\ s13' = [s13 EXCEPT ![c] = IF out THEN @ + 1 ELSE @]
          /\ s14' = [s14 EXCEPT ![c] = IF out THEN @ + 1 ELSE @]
    BY <1>5 DEF Alerts!FlushDies
  <2>3. ASSUME NEW a \in s9[k].todo
        PROVE  /\ s8'[a] \in AlertRow /\ RowFits(s8'[a], s13[a], s14[a])
               /\ RowFits(s8'[a], s13[a] + 1, s14[a] + 1)
    <3>1. a \in Notice /\ s8[a].at = "claimed" /\ s8[a].by # "nobody"
      BY <1>k
    <3> DEFINE t == [s8[a] EXCEPT !.by = "nobody"]
    <3>2. s8'[a] = t
      BY <3>1, <2>1
    <3>3. t \in AlertRow /\ RowFits(t, s13[a], s14[a]) /\ RowFits(t, s13[a] + 1, s14[a] + 1)
      BY <3>1, <1>t, RowMoves
    <3> HIDE DEF t
    <3> QED BY <3>2, <3>3
  <2>4. ASSUME NEW a \in Notice, a \notin s9[k].todo PROVE s8'[a] = s8[a]
    BY <2>1, <2>4
  <2>5. s8' \in [Notice -> AlertRow]
    BY <2>1, <2>3, <2>4, <1>t
  <2>6. s13' \in [Notice -> Nat] /\ s14' \in [Notice -> Nat]
    <3>0. c \in Notice /\ s13[c] + 1 \in Nat /\ s14[c] + 1 \in Nat
      BY <1>k, <1>t
    <3>1. CASE out
      <4>1. s13' = [s13 EXCEPT ![c] = s13[c] + 1] /\ s14' = [s14 EXCEPT ![c] = s14[c] + 1]
        BY <3>1, <2>2
      <4> QED BY <3>0, <4>1, <1>f DEF AlertTypes
    <3>2. CASE ~out
      BY <3>2, <2>2, <1>f DEF AlertTypes
    <3> QED BY <3>1, <3>2
  <2>7. ASSUME NEW a \in Notice PROVE RowFits(s8'[a], s13'[a], s14'[a])
    <3>1. \/ a \in s9[k].todo /\ s13'[a] = s13[a] + 1 /\ s14'[a] = s14[a] + 1
          \/ s13'[a] = s13[a] /\ s14'[a] = s14[a]
      BY <2>2, <1>f DEF AlertTypes
    <3> QED BY <3>1, <2>3, <2>4, <1>t
  <2>8. ASSUME NEW j \in Flusher \ {k}, NEW a \in s9[j].todo PROVE s8'[a] = s8[a]
    <3>1. a \in Notice /\ s8[a].by = j
      BY <1>k
    <3>2. a \notin s9[k].todo
      BY <3>1, <1>k
    <3> QED BY <3>1, <3>2, <2>4
  <2>9. ClaimInv' /\ s9' \in [Flusher -> FlushRow]
    <3> DEFINE d == {}
    <3>1. d \in SUBSET Notice /\ \A a \in d : s8'[a].at = "claimed" /\ s8'[a].by = k
      OBVIOUS
    <3>2. s9' = [s9 EXCEPT ![k] = [pc |-> "off", todo |-> d]] /\ ("off" # "send" => d = {})
      BY <2>1
    <3> HIDE DEF d
    <3> QED BY <3>1, <3>2, <2>8, <1>c
  <2> QED BY <2>5, <2>6, <2>7, <2>9 DEF AlertsInv, AlertTypes, SentInv
<1>6. ASSUME UNCHANGED <<s8, s9, s13, s14>> PROVE AlertsInv'
  BY <1>6, <1>f DEF AlertsInv, AlertTypes, ClaimInv, SentInv
<1>7. ASSUME \/ \E r \in {} : Alerts!ReportError(r)
             \/ Alerts!FlushReports \/ \E m \in s3 : Alerts!ServeBatch(m)
             \/ \E m \in s2 : Alerts!Accepted(m) \/ Alerts!Failed(m)
             \/ Alerts!PruneReceipts \/ Alerts!EngineRestart \/ Alerts!SetPreference
      PROVE  UNCHANGED <<s8, s9, s13, s14>>
  BY <1>7 DEF Alerts!FlushReports, Alerts!ServeBatch, Alerts!Accepted, Alerts!Failed,
     Alerts!PruneReceipts, Alerts!EngineRestart, Alerts!SetPreference, Alerts!alerts
<1> QED BY <1>1, <1>2, <1>3, <1>4, <1>5, <1>6, <1>7, Zenon DEF Alerts!Next

-----------------------------------------------------------------------------
(* Feedback, the submissions                                               *)

RequestRow == [hash : Remark, at : Nat, id : Nat,
               pc : {"wire", "find", "insert", "stored", "refused", "denied"}]

\* Requests are numbered from one on, and of the past, as is what is kept.
RemarkTypes ==
    /\ s1 \in Nat
    /\ \E n \in Nat : s4 \in [1 .. n -> RequestRow]
    /\ s3 \in [Speaker -> Nat]
    /\ \A s \in Speaker : s3[s] # 0 => s3[s] \in DOMAIN s4
    /\ \A r \in DOMAIN s4 : s4[r].at <= s1
    /\ IsFiniteSet(s2) /\ \A f \in s2 : f.at \in Nat /\ f.at <= s1
    /\ \A f \in s5 : f.id \in Nat

\* What is kept of the span up to t, and who has a request of that span under way.
Rows(t, span) == {f \in s2 : f.at <= t /\ f.at > t - span}
Flying(t, span) ==
    {s \in Speaker : s3[s] # 0 /\ s4[s3[s]].at <= t /\ s4[s3[s]].at > t - span}

LimitInv(span, most) ==
    \A t \in 0 .. s1 :
       Cardinality(Rows(t, span)) + Cardinality(Flying(t, span)) <= most + Cardinality(Speaker) - 1

\* A request that found or inserted its feedback names it.
StoredInv ==
    \A r \in DOMAIN s4 :
       /\ s4[r].pc = "insert" => s4[r].id = r
       /\ s4[r].pc \in {"wire", "find"} => s4[r].id = r
       /\ s4[r].pc = "stored" => \E f \in s5 : f.id = s4[r].id /\ f.hash = s4[r].hash

RemarksInv ==
    /\ RemarkTypes /\ StoredInv /\ Remarks!ToldStored
    /\ LimitInv(HourTicks, HourMost) /\ LimitInv(DayTicks, DayMost)

LEMMA SpeakerCount == Cardinality(Speaker) \in Nat \ {0} /\ IsFiniteSet(Speaker)
<1>1. IsFiniteSet(Speaker) /\ Speaker # {}
  BY RecordsAssumption DEF RemarksAssumption
<1> QED BY <1>1, FS_CardinalityType, FS_EmptySet

LEMMA CountsAre ==
    ASSUME RemarkTypes, NEW t, NEW span
    PROVE  /\ IsFiniteSet(Rows(t, span)) /\ Cardinality(Rows(t, span)) \in Nat
           /\ IsFiniteSet(Flying(t, span)) /\ Cardinality(Flying(t, span)) \in Nat
           /\ Cardinality(Flying(t, span)) <= Cardinality(Speaker)
<1>1. Rows(t, span) \subseteq s2 /\ IsFiniteSet(s2)
  BY DEF Rows, RemarkTypes
<1>2. Flying(t, span) \subseteq Speaker
  BY DEF Flying
<1>3. IsFiniteSet(Rows(t, span)) /\ IsFiniteSet(Flying(t, span))
      /\ Cardinality(Flying(t, span)) <= Cardinality(Speaker)
  BY <1>1, <1>2, SpeakerCount, FS_Subset
<1> QED BY <1>3, FS_CardinalityType

LEMMA RemarksInit == ASSUME Remarks!Init PROVE RemarksInv
<1> USE RecordsAssumption DEF RemarksAssumption
<1>1. /\ s1 = 0 /\ s2 = {} /\ s5 = {} /\ s8 = {} /\ s3 = [s \in Speaker |-> 0]
      /\ s4 = [r \in {} |-> 0]
  BY DEF Remarks!Init
<1>2. RemarkTypes
  <2>1. s4 \in [1 .. 0 -> RequestRow] /\ DOMAIN s4 = {}
    BY <1>1
  <2>2. IsFiniteSet(s2)
    BY <1>1, FS_EmptySet
  <2>3. \E n \in Nat : s4 \in [1 .. n -> RequestRow]
    BY <2>1
  <2> QED BY <1>1, <2>1, <2>2, <2>3 DEF RemarkTypes
<1>3. StoredInv /\ Remarks!ToldStored
  BY <1>1 DEF StoredInv, Remarks!ToldStored
<1>4. ASSUME NEW span, NEW most \in Nat PROVE LimitInv(span, most)
  <2> SUFFICES ASSUME NEW t \in 0 .. s1
      PROVE  Cardinality(Rows(t, span)) + Cardinality(Flying(t, span)) <= most + Cardinality(Speaker) - 1
    BY DEF LimitInv
  <2>1. Rows(t, span) = {} /\ Flying(t, span) = {}
    BY <1>1 DEF Rows, Flying
  <2>2. Cardinality(Rows(t, span)) = 0 /\ Cardinality(Flying(t, span)) = 0
    BY <2>1, FS_EmptySet
  <2> QED BY <2>2, SpeakerCount
<1> QED BY <1>2, <1>3, <1>4 DEF RemarksInv

LEMMA RemarksClaims == RemarksInv => Remarks!LimitsHold /\ Remarks!ToldStored
<1> SUFFICES ASSUME RemarksInv PROVE Remarks!LimitsHold
  BY DEF RemarksInv
<1> USE RecordsAssumption DEF RemarksAssumption
<1>1. RemarkTypes /\ LimitInv(HourTicks, HourMost) /\ LimitInv(DayTicks, DayMost)
  BY DEF RemarksInv
<1>2. ASSUME NEW t \in 0 .. s1, NEW span, NEW most \in Nat, LimitInv(span, most)
      PROVE  Cardinality({f \in s2 : f.at <= t /\ f.at > t - span}) <= most + Cardinality(Speaker) - 1
  <2>1. Cardinality(Rows(t, span)) + Cardinality(Flying(t, span)) <= most + Cardinality(Speaker) - 1
    BY <1>2 DEF LimitInv
  <2>2. Cardinality(Rows(t, span)) \in Nat /\ Cardinality(Flying(t, span)) \in Nat
    BY <1>1, CountsAre
  <2>3. Cardinality(Rows(t, span)) <= most + Cardinality(Speaker) - 1
    BY <2>1, <2>2, SpeakerCount
  <2> QED BY <2>3 DEF Rows
<1> QED BY <1>1, <1>2, SameCount DEF Remarks!LimitsHold

\* Nothing is added, neither to what is kept nor to what is under way.
LEMMA LimitShrinks ==
    ASSUME RemarkTypes, RemarkTypes', NEW span \in Nat, NEW most \in Nat, LimitInv(span, most),
           \A t \in 0 .. s1' : \E u \in 0 .. s1 :
              Rows(t, span)' \subseteq Rows(u, span) /\ Flying(t, span)' \subseteq Flying(u, span)
    PROVE  LimitInv(span, most)'
<1> SUFFICES ASSUME NEW t \in 0 .. s1'
    PROVE  Cardinality(Rows(t, span)') + Cardinality(Flying(t, span)')
             <= most + Cardinality(Speaker) - 1
  BY DEF LimitInv
<1>1. PICK u \in 0 .. s1 :
        Rows(t, span)' \subseteq Rows(u, span) /\ Flying(t, span)' \subseteq Flying(u, span)
  OBVIOUS
<1>2. /\ Cardinality(Rows(u, span)) \in Nat /\ Cardinality(Flying(u, span)) \in Nat
      /\ IsFiniteSet(Rows(u, span)) /\ IsFiniteSet(Flying(u, span))
  BY CountsAre
<1>3. /\ Cardinality(Rows(t, span)') <= Cardinality(Rows(u, span))
      /\ Cardinality(Flying(t, span)') <= Cardinality(Flying(u, span))
      /\ IsFiniteSet(Rows(t, span)') /\ IsFiniteSet(Flying(t, span)')
  BY <1>1, <1>2, FS_Subset
<1>4. Cardinality(Rows(t, span)') \in Nat /\ Cardinality(Flying(t, span)') \in Nat
  BY <1>3, FS_CardinalityType
<1>5. Cardinality(Rows(u, span)) + Cardinality(Flying(u, span)) <= most + Cardinality(Speaker) - 1
  BY <1>1 DEF LimitInv
<1> QED BY <1>2, <1>3, <1>4, <1>5, SpeakerCount

\* A submission, admitted by the gate of the span.
LEMMA LimitSubmits ==
    ASSUME RemarkTypes, RemarkTypes', NEW span \in Nat, NEW most \in Nat, LimitInv(span, most),
           NEW s \in Speaker, NEW r, s3[s] = 0, s3' = [s3 EXCEPT ![s] = r],
           s1' = s1, s2' = s2, r \notin DOMAIN s4, s4'[r].at = s1,
           \A q \in DOMAIN s4 : s4'[q] = s4[q],
           Cardinality({f \in s2 : f.at > s1 - span}) < most
    PROVE  LimitInv(span, most)'
<1> SUFFICES ASSUME NEW t \in 0 .. s1
    PROVE  Cardinality(Rows(t, span)') + Cardinality(Flying(t, span)')
             <= most + Cardinality(Speaker) - 1
  BY DEF LimitInv
<1>0. s1 \in Nat /\ t \in Nat
  BY DEF RemarkTypes
<1>1. Rows(t, span)' = Rows(t, span)
  BY DEF Rows
<1>2. ASSUME NEW o \in Speaker \ {s} PROVE o \in Flying(t, span)' <=> o \in Flying(t, span)
  <2>1. s3'[o] = s3[o] /\ (s3[o] # 0 => s3[o] \in DOMAIN s4)
    BY DEF RemarkTypes
  <2>2. s3[o] # 0 => s4'[s3'[o]] = s4[s3[o]]
    BY <2>1
  <2> QED BY <2>1, <2>2 DEF Flying
<1>3. CASE t < s1
  <2>1. s \notin Flying(t, span)' /\ s \notin Flying(t, span)
    <3>1. s3'[s] = r
      BY DEF RemarkTypes
    <3> QED BY <3>1, <1>3, <1>0 DEF Flying
  <2>2. Flying(t, span)' = Flying(t, span)
    <3>1. Flying(t, span)' \subseteq Speaker /\ Flying(t, span) \subseteq Speaker
      BY DEF Flying
    <3>2. ASSUME NEW o PROVE o \in Flying(t, span)' <=> o \in Flying(t, span)
      <4>1. CASE o \in Speaker \ {s}
        BY <4>1, <1>2
      <4>2. CASE o \notin Speaker \ {s}
        BY <4>2, <3>1, <2>1
      <4> QED BY <4>1, <4>2
    <3> DEFINE A == Flying(t, span)'
               B == Flying(t, span)
    <3>3. \A o : o \in A <=> o \in B
      BY <3>2
    <3> HIDE DEF A, B
    <3>4. A = B
      BY <3>3
    <3> QED BY <3>4 DEF A, B
  <2>3. Cardinality(Rows(t, span)') = Cardinality(Rows(t, span))
        /\ Cardinality(Flying(t, span)') = Cardinality(Flying(t, span))
    BY <2>2, <1>1
  <2> QED BY <2>3 DEF LimitInv
<1>4. CASE t = s1
  <2> DEFINE W == {f \in s2 : f.at > s1 - span}
  <2>1. Rows(t, span) \subseteq W /\ W \subseteq s2 /\ IsFiniteSet(s2)
    BY <1>4 DEF Rows, RemarkTypes
  <2>2. IsFiniteSet(W)
    BY <2>1, FS_Subset
  <2>3. Cardinality(Rows(t, span)) <= Cardinality(W) /\ Cardinality(W) \in Nat /\ Cardinality(W) < most
    BY <2>1, <2>2, FS_Subset, FS_CardinalityType
  <2>4. Cardinality(Rows(t, span)) \in Nat
    BY CountsAre
  <2>5. Cardinality(Flying(t, span)') \in Nat /\ Cardinality(Flying(t, span)') <= Cardinality(Speaker)
    <3>1. Flying(t, span)' \subseteq Speaker
      BY DEF Flying
    <3>2. IsFiniteSet(Flying(t, span)') /\ Cardinality(Flying(t, span)') <= Cardinality(Speaker)
      BY <3>1, SpeakerCount, FS_Subset
    <3> QED BY <3>2, FS_CardinalityType
  <2> HIDE DEF W
  <2>6. Cardinality(Rows(t, span)') = Cardinality(Rows(t, span))
    BY <1>1
  <2> QED BY <2>3, <2>4, <2>5, <2>6, SpeakerCount
<1> QED BY <1>0, <1>3, <1>4

\* An answer, or none: the request lands and is kept, in place of another of its id.
LEMMA LimitLands ==
    ASSUME RemarkTypes, RemarkTypes', NEW span \in Nat, NEW most \in Nat, LimitInv(span, most),
           NEW s \in Speaker, s3[s] # 0, s3' = [s3 EXCEPT ![s] = 0],
           s1' = s1, s4' = s4,
           NEW g, g.at = s4[s3[s]].at, s2' \subseteq s2 \cup {g}
    PROVE  LimitInv(span, most)'
<1> SUFFICES ASSUME NEW t \in 0 .. s1
    PROVE  Cardinality(Rows(t, span)') + Cardinality(Flying(t, span)')
             <= most + Cardinality(Speaker) - 1
  BY DEF LimitInv
<1> DEFINE R == Rows(t, span)
           F == Flying(t, span)
<1>0. Cardinality(R) + Cardinality(F) <= most + Cardinality(Speaker) - 1
  BY DEF LimitInv
<1>1. IsFiniteSet(R) /\ IsFiniteSet(F) /\ Cardinality(R) \in Nat /\ Cardinality(F) \in Nat
  BY CountsAre
<1>2. F' \subseteq F \ {s}
  <2>1. s3'[s] = 0 /\ \A o \in Speaker \ {s} : s3'[o] = s3[o]
    BY DEF RemarkTypes
  <2> QED BY <2>1 DEF Flying
<1>3. R' \subseteq R \cup {g}
  BY DEF Rows
<1>4. IsFiniteSet(R') /\ IsFiniteSet(F')
  <2>1. IsFiniteSet(R \cup {g})
    BY <1>1, FS_AddElement
  <2> QED BY <1>1, <1>2, <1>3, <2>1, FS_Subset
<1>5. Cardinality(R') \in Nat /\ Cardinality(F') \in Nat
  BY <1>4, FS_CardinalityType
<1>6. CASE s \in F
  <2>1. IsFiniteSet(F \ {s}) /\ Cardinality(F \ {s}) = Cardinality(F) - 1
    BY <1>1, <1>6, FS_RemoveElement
  <2>2. Cardinality(F') <= Cardinality(F \ {s})
    BY <1>2, <2>1, FS_Subset
  <2>3. IsFiniteSet(R \cup {g}) /\ (Cardinality(R \cup {g}) = Cardinality(R)
                                  \/ Cardinality(R \cup {g}) = Cardinality(R) + 1)
    BY <1>1, FS_AddElement
  <2>4. Cardinality(R') <= Cardinality(R \cup {g})
    BY <1>3, <2>3, FS_Subset
  <2> DEFINE a == Cardinality(R)
             b == Cardinality(F)
             x == Cardinality(R')
             y == Cardinality(F')
             z == Cardinality(F \ {s})
             w == Cardinality(R \cup {g})
             m == Cardinality(Speaker)
  <2>5. a \in Nat /\ b \in Nat /\ x \in Nat /\ y \in Nat /\ m \in Nat
    BY <1>1, <1>5, SpeakerCount
  <2>6. z = b - 1 /\ y <= z /\ (w = a \/ w = a + 1) /\ x <= w /\ a + b <= most + m - 1
    BY <1>0, <2>1, <2>2, <2>3, <2>4
  <2> HIDE DEF a, b, x, y, z, w, m
  <2>7. x + y <= most + m - 1
    BY <2>5, <2>6
  <2> QED BY <2>7 DEF x, y, m
<1>7. CASE s \notin F
  <2>1. ~(g.at <= t /\ g.at > t - span)
    BY <1>7 DEF Flying
  <2>2. R' \subseteq R
    BY <2>1, <1>3 DEF Rows
  <2>3. Cardinality(R') <= Cardinality(R) /\ Cardinality(F') <= Cardinality(F)
    BY <1>1, <1>2, <2>2, FS_Subset
  <2> HIDE DEF R, F
  <2>4. Cardinality(R') + Cardinality(F') <= most + Cardinality(Speaker) - 1
    BY <1>0, <1>1, <1>5, <2>3, SpeakerCount
  <2> QED BY <2>4 DEF R, F
<1> QED BY <1>6, <1>7

\* A step of one request: what it says and when it was made stay, as do the rest.
LEMMA RequestMoves ==
    ASSUME RemarksInv, NEW r \in DOMAIN s4, NEW row \in RequestRow,
           row.at = s4[r].at, s4' = [s4 EXCEPT ![r] = row],
           s1' = s1, s2' = s2, s3' = s3, \A f \in s5' : f.id \in Nat
    PROVE  /\ RemarkTypes' /\ LimitInv(HourTicks, HourMost)' /\ LimitInv(DayTicks, DayMost)'
           /\ DOMAIN s4' = DOMAIN s4 /\ s4'[r] = row
           /\ \A q \in DOMAIN s4 \ {r} : s4'[q] = s4[q]
<1> USE RecordsAssumption DEF RemarksAssumption
<1>1. RemarkTypes /\ LimitInv(HourTicks, HourMost) /\ LimitInv(DayTicks, DayMost)
  BY DEF RemarksInv
<1>2. PICK n \in Nat : s4 \in [1 .. n -> RequestRow]
  BY <1>1 DEF RemarkTypes
<1>3. /\ s4' \in [1 .. n -> RequestRow] /\ DOMAIN s4' = DOMAIN s4 /\ s4'[r] = row
      /\ \A q \in DOMAIN s4 \ {r} : s4'[q] = s4[q]
  BY <1>2
<1>4. \A q \in DOMAIN s4 : s4'[q].at = s4[q].at
  BY <1>3
<1>5. RemarkTypes'
  <2>1. \A q \in DOMAIN s4' : s4'[q].at <= s1'
    BY <1>1, <1>3, <1>4 DEF RemarkTypes
  <2>2. s1' \in Nat /\ s3' \in [Speaker -> Nat]
        /\ \A s \in Speaker : s3'[s] # 0 => s3'[s] \in DOMAIN s4'
    BY <1>1, <1>3 DEF RemarkTypes
  <2>3. IsFiniteSet(s2') /\ \A f \in s2' : f.at \in Nat /\ f.at <= s1'
    BY <1>1 DEF RemarkTypes
  <2> QED BY <1>3, <2>1, <2>2, <2>3 DEF RemarkTypes
<1>6. ASSUME NEW t, NEW span
      PROVE  Rows(t, span)' = Rows(t, span) /\ Flying(t, span)' \subseteq Flying(t, span)
  <2>1. \A s \in Speaker : s3[s] # 0 => s4'[s3'[s]].at = s4[s3[s]].at
    BY <1>1, <1>4 DEF RemarkTypes
  <2>2. Flying(t, span)' \subseteq Flying(t, span)
    BY <2>1 DEF Flying
  <2> QED BY <2>2 DEF Rows
<1>7. ASSUME NEW span \in Nat, NEW most \in Nat, LimitInv(span, most) PROVE LimitInv(span, most)'
  <2>1. \A t \in 0 .. s1' : \E u \in 0 .. s1 :
           Rows(t, span)' \subseteq Rows(u, span) /\ Flying(t, span)' \subseteq Flying(u, span)
    BY <1>6
  <2> QED BY <2>1, <1>1, <1>5, <1>7, LimitShrinks
<1> QED BY <1>1, <1>3, <1>5, <1>7

LEMMA RemarksTick == ASSUME RemarksInv, Remarks!Tick PROVE RemarksInv'
<1> USE RecordsAssumption DEF RemarksAssumption
<1>1. RemarkTypes /\ LimitInv(HourTicks, HourMost) /\ LimitInv(DayTicks, DayMost)
      /\ StoredInv /\ Remarks!ToldStored
  BY DEF RemarksInv
<1>2. s1' = s1 + 1 /\ s2' = s2 /\ s3' = s3 /\ s4' = s4 /\ s5' = s5 /\ s8' = s8
  BY DEF Remarks!Tick
<1>3. s1 \in Nat /\ \A r \in DOMAIN s4 : s4[r].at \in Nat /\ s4[r].at <= s1
  BY <1>1 DEF RemarkTypes, RequestRow
<1>4. RemarkTypes'
  <2>1. s1' \in Nat /\ \A r \in DOMAIN s4' : s4'[r].at <= s1'
    BY <1>2, <1>3
  <2>2. IsFiniteSet(s2') /\ \A f \in s2' : f.at \in Nat /\ f.at <= s1'
    BY <1>1, <1>2, <1>3 DEF RemarkTypes
  <2> QED BY <1>1, <1>2, <2>1, <2>2 DEF RemarkTypes
<1>5. StoredInv' /\ Remarks!ToldStored'
  BY <1>1, <1>2 DEF StoredInv, Remarks!ToldStored
<1>6. ASSUME NEW span \in Nat, NEW t \in 0 .. s1'
      PROVE  \E u \in 0 .. s1 :
                Rows(t, span)' \subseteq Rows(u, span) /\ Flying(t, span)' \subseteq Flying(u, span)
  <2>1. CASE t <= s1
    <3>1. Rows(t, span)' = Rows(t, span) /\ Flying(t, span)' = Flying(t, span)
      BY <1>2 DEF Rows, Flying
    <3>2. t \in 0 .. s1
      BY <2>1, <1>2, <1>3
    <3> QED BY <3>1, <3>2
  <2>2. CASE ~(t <= s1)
    <3>1. t = s1 + 1
      BY <2>2, <1>2, <1>3
    <3>2. Rows(t, span)' \subseteq Rows(s1, span)
      <4> SUFFICES ASSUME NEW f \in s2, f.at <= t, f.at > t - span
          PROVE  f.at <= s1 /\ f.at > s1 - span
        BY <1>2 DEF Rows
      <4>1. f.at \in Nat /\ f.at <= s1
        BY <1>1 DEF RemarkTypes
      <4> QED BY <4>1, <3>1, <1>3
    <3>3. Flying(t, span)' \subseteq Flying(s1, span)
      <4> SUFFICES ASSUME NEW s \in Speaker, s3[s] # 0, s4[s3[s]].at <= t, s4[s3[s]].at > t - span
          PROVE  s4[s3[s]].at <= s1 /\ s4[s3[s]].at > s1 - span
        BY <1>2 DEF Flying
      <4>1. s4[s3[s]].at \in Nat /\ s4[s3[s]].at <= s1
        BY <1>1, <1>3 DEF RemarkTypes
      <4> QED BY <4>1, <3>1, <1>3
    <3>4. s1 \in 0 .. s1
      BY <1>3
    <3> QED BY <3>2, <3>3, <3>4
  <2> QED BY <2>1, <2>2
<1>7. LimitInv(HourTicks, HourMost)'
  BY <1>1, <1>4, <1>6, LimitShrinks
<1>8. LimitInv(DayTicks, DayMost)'
  BY <1>1, <1>4, <1>6, LimitShrinks
<1> QED BY <1>4, <1>5, <1>7, <1>8 DEF RemarksInv

LEMMA RemarksSubmit ==
    ASSUME RemarksInv, NEW s \in Speaker, NEW h \in Remark, Remarks!Submit(s, h) PROVE RemarksInv'
<1> USE RecordsAssumption DEF RemarksAssumption
<1>1. RemarkTypes /\ LimitInv(HourTicks, HourMost) /\ LimitInv(DayTicks, DayMost)
      /\ StoredInv /\ Remarks!ToldStored
  BY DEF RemarksInv
<1>2. PICK n \in Nat : s4 \in [1 .. n -> RequestRow]
  BY <1>1 DEF RemarkTypes
<1>3. Remarks!Cardinality(DOMAIN s4) = n /\ DOMAIN s4 = 1 .. n
  <2>1. DOMAIN s4 = 1 .. n
    BY <1>2
  <2>2. Cardinality(1 .. n) = n
    BY FS_Interval
  <2> QED BY <2>1, <2>2, SameCount
<1> DEFINE r == n + 1
           row == [hash |-> h, at |-> s1, pc |-> "wire", id |-> r]
<1>4. /\ s3[s] = 0 /\ Remarks!Admitted(h)
      /\ s4' = [q \in (1 .. n) \cup {r} |-> IF q = r THEN row ELSE s4[q]]
      /\ s3' = [s3 EXCEPT ![s] = r]
      /\ s1' = s1 /\ s2' = s2 /\ s5' = s5 /\ s8' = s8
  BY <1>3, Zenon DEF Remarks!Submit, Remarks!Made
<1>5. s1 \in Nat /\ s3 \in [Speaker -> Nat]
  BY <1>1 DEF RemarkTypes
<1>6. row \in RequestRow /\ r \in Nat \ {0} /\ (1 .. n) \cup {r} = 1 .. r /\ r \notin 1 .. n
  BY <1>5 DEF RequestRow
<1>7. s4' \in [1 .. r -> RequestRow] /\ s4'[r] = row /\ \A q \in 1 .. n : s4'[q] = s4[q]
  <2> HIDE DEF row
  <2> QED BY <1>2, <1>4, <1>6
<1>8. row.at = s1 /\ row.pc = "wire" /\ row.id = r
  OBVIOUS
<1>9. s3'[s] = r /\ \A o \in Speaker \ {s} : s3'[o] = s3[o]
  BY <1>4, <1>5
<1> HIDE DEF row, r
<1>10. DOMAIN s4' = 1 .. r /\ 1 .. n \subseteq 1 .. r /\ r \in 1 .. r /\ 1 .. r = (1 .. n) \cup {r}
  BY <1>6, <1>7
<1>11. RemarkTypes'
  <2>1. \A q \in DOMAIN s4' : s4'[q].at <= s1'
    <3>1. s4'[r].at <= s1'
      BY <1>4, <1>5, <1>7, <1>8
    <3>2. \A q \in 1 .. n : s4'[q].at <= s1'
      BY <1>1, <1>3, <1>4, <1>7 DEF RemarkTypes
    <3> QED BY <3>1, <3>2, <1>10
  <2>2. s3' \in [Speaker -> Nat] /\ \A o \in Speaker : s3'[o] # 0 => s3'[o] \in DOMAIN s4'
    <3>1. s3' \in [Speaker -> Nat]
      BY <1>4, <1>5, <1>6
    <3>2. \A o \in Speaker \ {s} : s3'[o] # 0 => s3'[o] \in DOMAIN s4'
      BY <1>1, <1>3, <1>9, <1>10 DEF RemarkTypes
    <3> QED BY <3>1, <3>2, <1>9, <1>10
  <2>3. IsFiniteSet(s2') /\ (\A f \in s2' : f.at \in Nat /\ f.at <= s1') /\ \A f \in s5' : f.id \in Nat
    BY <1>1, <1>4 DEF RemarkTypes
  <2> QED BY <1>4, <1>5, <1>6, <1>7, <2>1, <2>2, <2>3 DEF RemarkTypes
<1>12. StoredInv' /\ Remarks!ToldStored'
  <2>1. \A q \in 1 .. n : /\ s4'[q].pc = "insert" => s4'[q].id = q
                          /\ s4'[q].pc \in {"wire", "find"} => s4'[q].id = q
                          /\ s4'[q].pc = "stored" =>
                                \E f \in s5' : f.id = s4'[q].id /\ f.hash = s4'[q].hash
    <3> TAKE q \in 1 .. n
    <3>1. s4'[q] = s4[q] /\ q \in DOMAIN s4
      BY <1>3, <1>7
    <3>2. /\ s4[q].pc = "insert" => s4[q].id = q
          /\ s4[q].pc \in {"wire", "find"} => s4[q].id = q
          /\ s4[q].pc = "stored" => \E f \in s5 : f.id = s4[q].id /\ f.hash = s4[q].hash
      BY <3>1, <1>1 DEF StoredInv
    <3> QED BY <3>1, <3>2, <1>4
  <2>2. s4'[r].pc = "wire" /\ s4'[r].id = r
    BY <1>7, <1>8
  <2>3. StoredInv'
    BY <2>1, <2>2, <1>10 DEF StoredInv
  <2> QED BY <2>3, <1>1, <1>4 DEF Remarks!ToldStored
<1>13. Cardinality({f \in s2 : f.at > s1 - HourTicks}) < HourMost
       /\ Cardinality({f \in s2 : f.at > s1 - DayTicks}) < DayMost
  <2>1. ~(Remarks!Cardinality(Remarks!Within(s2, HourTicks)) >= HourMost)
        /\ ~(Remarks!Cardinality(Remarks!Within(s2, DayTicks)) >= DayMost)
    BY <1>4, Zenon DEF Remarks!Admitted, Remarks!HourLimit, Remarks!DayLimit
  <2>2. /\ Cardinality(Remarks!Within(s2, HourTicks)) \in Nat
        /\ Cardinality(Remarks!Within(s2, DayTicks)) \in Nat
    <3>1. /\ Remarks!Within(s2, HourTicks) \subseteq s2
          /\ Remarks!Within(s2, DayTicks) \subseteq s2 /\ IsFiniteSet(s2)
      BY <1>1 DEF Remarks!Within, RemarkTypes
    <3> QED BY <3>1, FS_Subset, FS_CardinalityType
  <2>3. Cardinality(Remarks!Within(s2, HourTicks)) < HourMost
        /\ Cardinality(Remarks!Within(s2, DayTicks)) < DayMost
    BY <2>1, <2>2, SameCount
  <2> QED BY <2>3 DEF Remarks!Within
<1>14. ASSUME NEW span \in Nat, NEW most \in Nat, LimitInv(span, most),
             Cardinality({f \in s2 : f.at > s1 - span}) < most
       PROVE LimitInv(span, most)'
  <2>1. r \notin DOMAIN s4 /\ s4'[r].at = s1 /\ \A q \in DOMAIN s4 : s4'[q] = s4[q]
    BY <1>3, <1>6, <1>7, <1>8
  <2> QED BY <2>1, <1>1, <1>4, <1>11, <1>14, LimitSubmits
<1> QED BY <1>1, <1>11, <1>12, <1>13, <1>14 DEF RemarksInv

\* The end of a wait: what is kept of it, under which id.
LEMMA RemarkLands ==
    ASSUME RemarksInv, NEW s \in Speaker, s3[s] # 0, s3' = [s3 EXCEPT ![s] = 0],
           s1' = s1, s4' = s4, s5' = s5,
           s2' = s2 \/ \E id : Remarks!Save(id, s4[s3[s]])
    PROVE  /\ RemarkTypes' /\ StoredInv'
           /\ LimitInv(HourTicks, HourMost)' /\ LimitInv(DayTicks, DayMost)'
<1> USE RecordsAssumption DEF RemarksAssumption
<1>1. RemarkTypes /\ LimitInv(HourTicks, HourMost) /\ LimitInv(DayTicks, DayMost) /\ StoredInv
  BY DEF RemarksInv
<1>2. s3[s] \in DOMAIN s4 /\ s4[s3[s]].at \in Nat /\ s4[s3[s]].at <= s1 /\ s3 \in [Speaker -> Nat]
  BY <1>1 DEF RemarkTypes, RequestRow
<1>3. PICK g : g.at = s4[s3[s]].at /\ s2' \subseteq s2 \cup {g}
  <2>1. CASE s2' = s2
    <3>1. [at |-> s4[s3[s]].at].at = s4[s3[s]].at
      OBVIOUS
    <3> QED BY <2>1, <3>1
  <2>2. CASE \E id : Remarks!Save(id, s4[s3[s]])
    <3>1. PICK id : s2' = {f \in s2 : f.id # id}
                            \cup {[id |-> id, hash |-> s4[s3[s]].hash, at |-> s4[s3[s]].at]}
      BY <2>2 DEF Remarks!Save
    <3> DEFINE h == [id |-> id, hash |-> s4[s3[s]].hash, at |-> s4[s3[s]].at]
    <3>2. h.at = s4[s3[s]].at
      OBVIOUS
    <3> HIDE DEF h
    <3>3. s2' \subseteq s2 \cup {h}
      BY <3>1 DEF h
    <3> QED BY <3>2, <3>3
  <2> QED BY <2>1, <2>2
<1>4. RemarkTypes'
  <2>1. IsFiniteSet(s2')
    <3>1. IsFiniteSet(s2 \cup {g})
      BY <1>1, FS_AddElement DEF RemarkTypes
    <3> QED BY <3>1, <1>3, FS_Subset
  <2>2. \A f \in s2' : f.at \in Nat /\ f.at <= s1'
    BY <1>1, <1>2, <1>3 DEF RemarkTypes
  <2>3. s3' \in [Speaker -> Nat] /\ \A o \in Speaker : s3'[o] # 0 => s3'[o] \in DOMAIN s4'
    <3>1. s3' \in [Speaker -> Nat] /\ s3'[s] = 0 /\ \A o \in Speaker \ {s} : s3'[o] = s3[o]
      BY <1>2
    <3> QED BY <3>1, <1>1 DEF RemarkTypes
  <2> QED BY <1>1, <2>1, <2>2, <2>3 DEF RemarkTypes
<1>5. StoredInv'
  BY <1>1 DEF StoredInv
<1>6. LimitInv(HourTicks, HourMost)'
  BY <1>1, <1>3, <1>4, LimitLands
<1>7. LimitInv(DayTicks, DayMost)'
  BY <1>1, <1>3, <1>4, LimitLands
<1> QED BY <1>4, <1>5, <1>6, <1>7

LEMMA RemarksReceive ==
    ASSUME RemarksInv, NEW s \in Speaker, Remarks!Receive(s) PROVE RemarksInv'
<1>1. RemarkTypes /\ StoredInv /\ Remarks!ToldStored
  BY DEF RemarksInv
<1> DEFINE f == s4[s3[s]]
<1>2. /\ s3[s] # 0 /\ s3' = [s3 EXCEPT ![s] = 0]
      /\ s1' = s1 /\ s4' = s4 /\ s5' = s5
      /\ s2' = s2 \/ \E id : Remarks!Save(id, s4[s3[s]])
      /\ s8' = s8 \/ (f.pc = "stored" /\ s8' = s8 \cup {<<f.id, f.hash>>})
  BY Zenon DEF Remarks!Receive
<1>3. /\ RemarkTypes' /\ StoredInv'
      /\ LimitInv(HourTicks, HourMost)' /\ LimitInv(DayTicks, DayMost)'
  BY <1>2, RemarkLands
<1>4. Remarks!ToldStored'
  <2>1. CASE s8' = s8
    BY <2>1, <1>1, <1>2 DEF Remarks!ToldStored
  <2>2. CASE f.pc = "stored" /\ s8' = s8 \cup {<<f.id, f.hash>>}
    <3>1. s3[s] \in DOMAIN s4
      BY <1>1, <1>2 DEF RemarkTypes
    <3>2. \E e \in s5 : e.id = f.id /\ e.hash = f.hash
      BY <3>1, <2>2, <1>1 DEF StoredInv
    <3> HIDE DEF f
    <3>3. \A x \in s8' : x \in s8 \/ x = <<f.id, f.hash>>
      BY <2>2
    <3>4. <<f.id, f.hash>>[1] = f.id /\ <<f.id, f.hash>>[2] = f.hash
      OBVIOUS
    <3>5. \A x \in s8' : \E e \in s5 : e.id = x[1] /\ e.hash = x[2]
      BY <3>2, <3>3, <3>4, <1>1 DEF Remarks!ToldStored
    <3> QED BY <3>5, <1>2 DEF Remarks!ToldStored
  <2> QED BY <2>1, <2>2, <1>2
<1> QED BY <1>3, <1>4 DEF RemarksInv

LEMMA RemarksGiveUp ==
    ASSUME RemarksInv, NEW s \in Speaker, Remarks!GiveUp(s) PROVE RemarksInv'
<1>1. Remarks!ToldStored
  BY DEF RemarksInv
<1>2. /\ s3[s] # 0 /\ s3' = [s3 EXCEPT ![s] = 0]
      /\ s1' = s1 /\ s4' = s4 /\ s5' = s5 /\ s8' = s8
      /\ Remarks!Save(Remarks!Own(s3[s]), s4[s3[s]])
  BY Zenon DEF Remarks!GiveUp
<1>3. /\ RemarkTypes' /\ StoredInv'
      /\ LimitInv(HourTicks, HourMost)' /\ LimitInv(DayTicks, DayMost)'
  BY <1>2, RemarkLands
<1>4. Remarks!ToldStored'
  BY <1>1, <1>2 DEF Remarks!ToldStored
<1> QED BY <1>3, <1>4 DEF RemarksInv

LEMMA RemarksServed ==
    ASSUME RemarksInv, NEW r \in DOMAIN s4,
           Remarks!Limit(r) \/ Remarks!Find(r) \/ Remarks!Insert(r)
    PROVE  RemarksInv'
<1>1. RemarkTypes /\ StoredInv /\ Remarks!ToldStored
  BY DEF RemarksInv
<1>2. PICK n \in Nat : s4 \in [1 .. n -> RequestRow]
  BY <1>1 DEF RemarkTypes
<1>3. s4[r] \in RequestRow /\ r \in Nat
  BY <1>2
<1> DEFINE old == s4[r]
           new(pc) == [old EXCEPT !.pc = pc]
<1>4. ASSUME NEW pc \in {"wire", "find", "insert", "stored", "refused", "denied"}
      PROVE  new(pc) \in RequestRow /\ new(pc).pc = pc /\ new(pc).at = old.at /\ new(pc).id = old.id
             /\ new(pc).hash = old.hash
  BY <1>3 DEF RequestRow
<1>5. s1' = s1 /\ s2' = s2 /\ s3' = s3 /\ s8' = s8
  BY Zenon DEF Remarks!Limit, Remarks!Find, Remarks!Insert
<1>6. \E row \in RequestRow :
        /\ s4' = [s4 EXCEPT ![r] = row] /\ row.at = old.at
        /\ \A f \in s5 : f \in s5'
        /\ \A f \in s5' : f.id \in Nat
        /\ row.pc \in {"wire", "find", "insert"} => row.id = r
        /\ row.pc = "stored" => \E f \in s5' : f.id = row.id /\ f.hash = row.hash
  <2>1. CASE Remarks!Limit(r)
    <3>1. /\ old.pc = "wire" /\ s5' = s5
          /\ \E pc \in {"denied", "find", "refused"} : s4' = [s4 EXCEPT ![r] = new(pc)]
      <4>1. old.pc = "wire" /\ s5' = s5
            /\ (Remarks!Step(r, "denied") \/ Remarks!Step(r, "find") \/ Remarks!Step(r, "refused"))
        BY <2>1, Zenon DEF Remarks!Limit
      <4> QED BY <4>1 DEF Remarks!Step
    <3>2. PICK pc \in {"denied", "find", "refused"} : s4' = [s4 EXCEPT ![r] = new(pc)]
      BY <3>1
    <3>3. old.id = r /\ \A f \in s5 : f.id \in Nat
      BY <3>1, <1>1 DEF StoredInv, RemarkTypes
    <3>4. new(pc) \in RequestRow /\ new(pc).pc = pc /\ new(pc).at = old.at /\ new(pc).id = old.id
      BY <1>4
    <3> DEFINE row == new(pc)
    <3>5. /\ row \in RequestRow /\ s4' = [s4 EXCEPT ![r] = row] /\ row.at = old.at
          /\ row.pc # "stored" /\ row.id = r
      BY <3>2, <3>3, <3>4
    <3> HIDE DEF row
    <3> QED BY <3>1, <3>3, <3>5
  <2>2. CASE Remarks!Find(r)
    <3>1. old.pc = "find" /\ s5' = s5
      BY <2>2, Zenon DEF Remarks!Find
    <3>2. old.id = r /\ \A f \in s5 : f.id \in Nat
      BY <3>1, <1>1 DEF StoredInv, RemarkTypes
    <3>3. CASE Remarks!Step(r, "insert")
      <4> DEFINE row == new("insert")
      <4>1. /\ row \in RequestRow /\ s4' = [s4 EXCEPT ![r] = row] /\ row.at = old.at
            /\ row.pc = "insert" /\ row.id = r
        BY <3>2, <3>3, <1>4 DEF Remarks!Step
      <4> HIDE DEF row
      <4> QED BY <3>1, <3>2, <4>1
    <3>4. CASE \E f \in Remarks!Same(r) : s4' = [s4 EXCEPT ![r].pc = "stored", ![r].id = f.id]
      <4>1. PICK f \in s5 : f.hash = old.hash
                            /\ s4' = [s4 EXCEPT ![r].pc = "stored", ![r].id = f.id]
        BY <3>4 DEF Remarks!Same
      <4> DEFINE row == [old EXCEPT !.pc = "stored", !.id = f.id]
      <4>2. f.id \in Nat
        BY <3>2
      <4>3. row \in RequestRow /\ row.at = old.at /\ row.pc = "stored" /\ row.id = f.id
            /\ row.hash = old.hash
        BY <4>2, <1>3 DEF RequestRow
      <4>4. s4' = [s4 EXCEPT ![r] = row]
        BY <4>1, <1>2
      <4> HIDE DEF row
      <4>5. \E e \in s5' : e.id = row.id /\ e.hash = row.hash
        BY <4>1, <4>3, <3>1
      <4> QED BY <4>3, <4>4, <4>5, <3>1, <3>2
    <3> QED BY <2>2, <3>3, <3>4, Zenon DEF Remarks!Find
  <2>3. CASE Remarks!Insert(r)
    <3>1. old.pc = "insert" /\ \A f \in s5 : f.id \in Nat
      BY <2>3, <1>1 DEF Remarks!Insert, RemarkTypes
    <3>2. old.id = r
      BY <3>1, <1>1 DEF StoredInv
    <3>3. CASE s5' = s5 \cup {[id |-> r, hash |-> old.hash, at |-> old.at]}
               /\ Remarks!Step(r, "stored")
      <4> DEFINE row == new("stored")
                 e == [id |-> r, hash |-> old.hash, at |-> old.at]
      <4>1. /\ row \in RequestRow /\ s4' = [s4 EXCEPT ![r] = row] /\ row.at = old.at
            /\ row.pc = "stored" /\ row.id = r /\ row.hash = old.hash
        BY <3>2, <3>3, <1>4 DEF Remarks!Step
      <4>2. e.id = r /\ e.hash = old.hash /\ s5' = s5 \cup {e}
        BY <3>3
      <4> HIDE DEF row, e
      <4>3. (\A f \in s5 : f \in s5') /\ (\A f \in s5' : f.id \in Nat) /\ e \in s5'
        BY <3>1, <4>2, <1>3
      <4> QED BY <4>1, <4>2, <4>3
    <3>4. CASE Remarks!Step(r, "refused") /\ s5' = s5
      <4> DEFINE row == new("refused")
      <4>1. /\ row \in RequestRow /\ s4' = [s4 EXCEPT ![r] = row] /\ row.at = old.at
            /\ row.pc = "refused" /\ row.id = r
        BY <3>2, <3>4, <1>4 DEF Remarks!Step
      <4> HIDE DEF row
      <4> QED BY <3>1, <3>4, <4>1
    <3> QED BY <2>3, <3>3, <3>4, Zenon DEF Remarks!Insert
  <2> QED BY <2>1, <2>2, <2>3
<1>7. PICK row \in RequestRow :
        /\ s4' = [s4 EXCEPT ![r] = row] /\ row.at = old.at
        /\ \A f \in s5 : f \in s5'
        /\ \A f \in s5' : f.id \in Nat
        /\ row.pc \in {"wire", "find", "insert"} => row.id = r
        /\ row.pc = "stored" => \E f \in s5' : f.id = row.id /\ f.hash = row.hash
  BY <1>6
<1>8. /\ RemarkTypes' /\ LimitInv(HourTicks, HourMost)' /\ LimitInv(DayTicks, DayMost)'
      /\ DOMAIN s4' = DOMAIN s4 /\ s4'[r] = row
      /\ \A q \in DOMAIN s4 \ {r} : s4'[q] = s4[q]
  BY <1>5, <1>7, RequestMoves
<1>9. StoredInv'
  <2>1. ASSUME NEW q \in DOMAIN s4 \ {r}
        PROVE  /\ s4'[q].pc = "insert" => s4'[q].id = q
               /\ s4'[q].pc \in {"wire", "find"} => s4'[q].id = q
               /\ s4'[q].pc = "stored" =>
                     \E f \in s5' : f.id = s4'[q].id /\ f.hash = s4'[q].hash
    BY <1>1, <1>7, <1>8 DEF StoredInv
  <2> QED BY <2>1, <1>7, <1>8 DEF StoredInv
<1>10. Remarks!ToldStored'
  BY <1>1, <1>5, <1>7 DEF Remarks!ToldStored
<1> QED BY <1>8, <1>9, <1>10 DEF RemarksInv

LEMMA RemarksNext ==
    ASSUME RemarksInv, [Remarks!Next]_<<s1, s2, s3, s4, s5, s6, s7, s8>>
    PROVE  RemarksInv'
<1>1. \/ UNCHANGED <<s1, s2, s3, s4, s5, s6, s7, s8>>
      \/ Remarks!Hammer \/ Remarks!Tick
      \/ \E s \in Speaker : Remarks!Receive(s) \/ Remarks!GiveUp(s)
                            \/ \E h \in Remark : Remarks!Submit(s, h)
      \/ \E r \in DOMAIN s4 : Remarks!Limit(r) \/ Remarks!Find(r) \/ Remarks!Insert(r)
  BY Zenon DEF Remarks!Next, Remarks!Made
<1>2. ~Remarks!Hammer
  BY DEF Remarks!Hammer
<1>3. CASE UNCHANGED <<s1, s2, s3, s4, s5, s6, s7, s8>>
  BY <1>3 DEF RemarksInv, RemarkTypes, StoredInv, Remarks!ToldStored, LimitInv, Rows, Flying
<1> QED BY <1>1, <1>2, <1>3, RemarksTick, RemarksReceive, RemarksGiveUp, RemarksSubmit, RemarksServed

-----------------------------------------------------------------------------
(* Feedback, the limiter                                                   *)

\* How many of the hits counted were accepted one after the other.
Run(count) == IF count < LimiterHits THEN count ELSE LimiterHits

\* Accepted hits, latest last, as many as the limit before an hour is over: the
\* latest of them are those the counter counts, behind them lies more than an hour.
Rated(q, count) ==
    /\ q \in Seq(Nat) /\ count \in Nat
    /\ \A i, j \in 1 .. Len(q) : i <= j => q[i] <= q[j]
    /\ \A i \in 1 .. Len(q) : i > LimiterHits => q[i] - q[i - LimiterHits] >= HourTicks
    /\ Len(q) = 0 <=> count = 0
    /\ Run(count) <= Len(q)
    /\ Run(count) < Len(q) => q[Len(q) - Run(count) + 1] - q[Len(q) - Run(count)] > HourTicks

LimiterInv ==
    /\ s1 \in Nat /\ s6.count \in Nat /\ s6.at \in Nat
    /\ Rated(s7, s6.count)
    /\ Len(s7) > 0 => s6.at = s7[Len(s7)] /\ s7[Len(s7)] <= s1

LEMMA LimiterInit == ASSUME Limiter!Init PROVE LimiterInv
<1> USE RecordsAssumption DEF RemarksAssumption
<1>1. s1 = 0 /\ s6.count = 0 /\ s6.at = 0 /\ s7 = <<>>
  BY DEF Limiter!Init, Limiter!NoRow
<1> QED BY <1>1 DEF LimiterInv, Rated, Run

LEMMA LimiterClaims == LimiterInv => Limiter!RateCapped
<1> SUFFICES ASSUME LimiterInv PROVE Limiter!RateCapped
  OBVIOUS
<1>1. s7 \in Seq(Nat) /\ Len(s7) \in Nat
  BY DEF LimiterInv, Rated
<1> QED BY <1>1 DEF LimiterInv, Rated, Limiter!RateCapped

\* One hit more, after an hour or within the limit.
LEMMA AddHit ==
    ASSUME NEW q, NEW count, Rated(q, count), NEW x \in Nat,
           \A i \in 1 .. Len(q) : q[i] <= x
    PROVE  /\ (Len(q) > 0 => x - q[Len(q)] > HourTicks) => Rated(Append(q, x), 1)
           /\ count < LimiterHits => Rated(Append(q, x), count + 1)
<1> DEFINE n == Len(q)
           a == Append(q, x)
           M == LimiterHits
           H == HourTicks
<1>0. M \in Nat \ {0} /\ H \in Nat /\ q \in Seq(Nat) /\ n \in Nat /\ count \in Nat
  BY RecordsAssumption DEF RemarksAssumption, Rated
<1>1. a \in Seq(Nat) /\ Len(a) = n + 1 /\ a[n + 1] = x /\ \A i \in 1 .. n : a[i] = q[i] /\ q[i] \in Nat
  BY <1>0
<1>2. /\ \A i, j \in 1 .. n : i <= j => q[i] <= q[j]
      /\ \A i \in 1 .. n : i > M => q[i] - q[i - M] >= H
      /\ n = 0 <=> count = 0
      /\ Run(count) <= n
      /\ Run(count) < n => q[n - Run(count) + 1] - q[n - Run(count)] > H
  BY DEF Rated
<1>3. \A i \in 1 .. n : q[i] <= x
  OBVIOUS
<1>r. ASSUME NEW c \in Nat \ {0}, Run(c) <= n + 1,
             n + 1 > M => x - a[n + 1 - M] >= H,
             Run(c) < n + 1 => a[n + 1 - Run(c) + 1] - a[n + 1 - Run(c)] > H
      PROVE  Rated(a, c)
  <2> HIDE DEF n, a, M, H
  <2>1. \A i, j \in 1 .. Len(a) : i <= j => a[i] <= a[j]
    <3> SUFFICES ASSUME NEW i \in 1 .. Len(a), NEW j \in 1 .. Len(a), i <= j PROVE a[i] <= a[j]
      OBVIOUS
    <3>0. i \in 1 .. n + 1 /\ j \in 1 .. n + 1
      BY <1>1
    <3>1. CASE j = n + 1
      <4>1. CASE i = n + 1
        BY <3>1, <4>1, <1>1
      <4>2. CASE i # n + 1
        BY <3>0, <3>1, <4>2, <1>0, <1>1, <1>3
      <4> QED BY <4>1, <4>2
    <3>2. CASE j # n + 1
      <4>1. i \in 1 .. n /\ j \in 1 .. n
        BY <3>0, <3>2, <1>0
      <4> QED BY <4>1, <1>1, <1>2
    <3> QED BY <3>1, <3>2
  <2>2. \A i \in 1 .. Len(a) : i > M => a[i] - a[i - M] >= H
    <3> SUFFICES ASSUME NEW i \in 1 .. Len(a), i > M PROVE a[i] - a[i - M] >= H
      OBVIOUS
    <3>0. i \in 1 .. n + 1
      BY <1>1
    <3>1. CASE i = n + 1
      <4> DEFINE j == n + 1 - M
      <4>1. j \in 1 .. n /\ n + 1 > M /\ i - M = j /\ a[j] \in Nat
        BY <3>1, <1>0, <1>1
      <4>2. x - a[j] >= H
        BY <4>1, <1>r
      <4> HIDE DEF j
      <4>3. a[i] = x /\ a[i - M] = a[j]
        BY <3>1, <4>1, <1>1
      <4> QED BY <4>1, <4>2, <4>3, <1>0
    <3>2. CASE i # n + 1
      <4>1. i \in 1 .. n /\ i - M \in 1 .. n
        BY <3>0, <3>2, <1>0
      <4> QED BY <4>1, <1>1, <1>2
    <3> QED BY <3>1, <3>2
  <2>3. Run(c) <= Len(a) /\ (Len(a) = 0 <=> c = 0) /\ c \in Nat
    BY <1>0, <1>1, <1>r
  <2>4. Run(c) < Len(a) => a[Len(a) - Run(c) + 1] - a[Len(a) - Run(c)] > H
    <3> DEFINE k == Run(c)
               L == Len(a)
    <3>1. k \in Nat /\ L = n + 1 /\ n \in Nat
      BY <1>0, <1>1 DEF Run, M
    <3>2. k < n + 1 => a[n + 1 - k + 1] - a[n + 1 - k] > H
      BY <1>r
    <3> HIDE DEF k, L
    <3>3. k < L => a[L - k + 1] - a[L - k] > H
      BY <3>1, <3>2
    <3> QED BY <3>3 DEF k, L
  <2> QED BY <2>1, <2>2, <2>3, <2>4, <1>1 DEF Rated, M, H
<1>4. ASSUME n > 0 => x - q[n] > H PROVE Rated(a, 1)
  <2> HIDE DEF n, a, M, H
  <2>1. Run(1) = 1
    BY <1>0 DEF Run, M
  <2>2. n + 1 > M => x - a[n + 1 - M] >= H
    <3> SUFFICES ASSUME n + 1 > M PROVE x - a[n + 1 - M] >= H
      OBVIOUS
    <3>1. n + 1 - M \in 1 .. n /\ n \in 1 .. n
      BY <1>0
    <3>2. q[n + 1 - M] <= q[n] /\ q[n] \in Nat /\ q[n + 1 - M] \in Nat
      BY <3>1, <1>0, <1>1, <1>2
    <3>3. a[n + 1 - M] = q[n + 1 - M] /\ x - q[n] > H
      BY <3>1, <1>1, <1>4
    <3> QED BY <3>2, <3>3, <1>0
  <2>3. 1 < n + 1 => a[n + 1 - 1 + 1] - a[n + 1 - 1] > H
    BY <1>0, <1>1, <1>4
  <2> QED BY <2>1, <2>2, <2>3, <1>0, <1>r
<1>5. ASSUME count < M PROVE Rated(a, count + 1)
  <2> HIDE DEF n, a, H
  <2>1. Run(count) = count /\ Run(count + 1) = count + 1 /\ count + 1 \in Nat \ {0}
    BY <1>0, <1>5 DEF Run
  <2> HIDE DEF M
  <2>2. ASSUME count < n
        PROVE  /\ a[n - count + 1] - a[n - count] > H /\ n - count + 1 \in 1 .. n /\ n - count \in 1 .. n
    <3>1. n - count + 1 \in 1 .. n /\ n - count \in 1 .. n
      BY <2>2, <1>0, <1>2
    <3>2. q[n - count + 1] - q[n - count] > H
      BY <2>1, <2>2, <1>2
    <3> QED BY <3>1, <3>2, <1>1
  <2>3. n + 1 > M => x - a[n + 1 - M] >= H
    <3> SUFFICES ASSUME n + 1 > M PROVE x - a[n + 1 - M] >= H
      OBVIOUS
    <3>1. count < n /\ n + 1 - M \in 1 .. n /\ n + 1 - M <= n - count
      BY <1>0, <1>2, <1>5
    <3> DEFINE i == n + 1 - M
               j == n - count
    <3>2. i \in 1 .. n /\ j \in 1 .. n /\ j + 1 \in 1 .. n /\ i <= j /\ a[j + 1] - a[j] > H
      BY <3>1, <2>2
    <3> HIDE DEF i, j
    <3>3. /\ a[i] = q[i] /\ a[j] = q[j] /\ a[j + 1] = q[j + 1]
          /\ q[i] \in Nat /\ q[j] \in Nat /\ q[j + 1] \in Nat
      BY <3>2, <1>1
    <3>4. q[i] <= q[j] /\ q[j + 1] <= x
      BY <3>2, <1>2, <1>3
    <3>5. x - a[i] >= H
      <4>1. q[j + 1] - q[j] > H /\ a[i] = q[i]
        BY <3>2, <3>3
      <4>2. x \in Nat /\ H \in Nat
        BY <1>0
      <4> QED BY <4>1, <4>2, <3>3, <3>4
    <3> QED BY <3>5 DEF i
  <2>4. count + 1 < n + 1 => a[n + 1 - (count + 1) + 1] - a[n + 1 - (count + 1)] > H
    <3>1. n + 1 - (count + 1) = n - count /\ n + 1 - (count + 1) + 1 = n - count + 1
      BY <1>0
    <3> QED BY <3>1, <2>2, <1>0
  <2>5. count + 1 <= n + 1
    BY <2>1, <1>0, <1>2
  <2> QED BY <2>1, <2>3, <2>4, <2>5, <1>r
<1> QED BY <1>4, <1>5

\* Forgetting the hits before the latest.
LEMMA ForgetHits ==
    ASSUME NEW q, NEW count, Rated(q, count), Len(q) > LimiterHits
    PROVE  /\ Rated(Limiter!Latest(q), count) /\ Len(Limiter!Latest(q)) = LimiterHits + 1
           /\ Limiter!Latest(q)[LimiterHits + 1] = q[Len(q)]
<1> DEFINE n == Len(q)
           M == LimiterHits
           a == Limiter!Latest(q)
           d == n - M - 1
<1>0. M \in Nat \ {0} /\ HourTicks \in Nat /\ q \in Seq(Nat) /\ n \in Nat /\ d \in Nat /\ n = d + M + 1
  BY RecordsAssumption DEF RemarksAssumption, Rated
<1>1. a \in Seq(Nat) /\ Len(a) = M + 1 /\ \A i \in 1 .. M + 1 : a[i] = q[i + d] /\ i + d \in 1 .. n
  <2>1. a = SubSeq(q, d + 1, Len(q))
    <3>1. n - M = d + 1
      BY <1>0
    <3> QED BY <3>1 DEF Limiter!Latest
  <2> HIDE DEF a, d, M
  <2>2. d \in 0 .. Len(q) /\ Len(q) - d = M + 1
    BY <1>0
  <2>3. a \in Seq(Nat) /\ Len(a) = Len(q) - d /\ \A i \in 1 .. Len(q) - d : a[i] = q[d + i]
    BY <2>1, <2>2, <1>0, EndOf
  <2>4. \A i \in 1 .. M + 1 : d + i = i + d /\ i + d \in 1 .. n
    BY <1>0
  <2> QED BY <2>2, <2>3, <2>4
<1>2. /\ \A i, j \in 1 .. n : i <= j => q[i] <= q[j]
      /\ \A i \in 1 .. n : i > M => q[i] - q[i - M] >= HourTicks
      /\ n = 0 <=> count = 0
      /\ Run(count) <= n /\ count \in Nat
      /\ Run(count) < n => q[n - Run(count) + 1] - q[n - Run(count)] > HourTicks
  BY DEF Rated
<1>3. Run(count) \in 1 .. M
  BY <1>0, <1>2 DEF Run
<1> HIDE DEF n, M, a, d
<1>4. \A i, j \in 1 .. Len(a) : i <= j => a[i] <= a[j]
  <2> SUFFICES ASSUME NEW i \in 1 .. Len(a), NEW j \in 1 .. Len(a), i <= j PROVE a[i] <= a[j]
    OBVIOUS
  <2>0. i \in 1 .. M + 1 /\ j \in 1 .. M + 1
    BY <1>1
  <2>1. a[i] = q[i + d] /\ a[j] = q[j + d] /\ i + d \in 1 .. n /\ j + d \in 1 .. n
    BY <2>0, <1>1
  <2>2. i + d <= j + d
    BY <2>0, <1>0
  <2> QED BY <2>1, <2>2, <1>2
<1>5. \A i \in 1 .. Len(a) : i > M => a[i] - a[i - M] >= HourTicks
  <2> SUFFICES ASSUME NEW i \in 1 .. Len(a), i > M PROVE a[i] - a[i - M] >= HourTicks
    OBVIOUS
  <2> DEFINE j == i + d
  <2>0. i \in 1 .. M + 1
    BY <1>1
  <2>1. i - M \in 1 .. M + 1 /\ j > M /\ (i - M) + d = j - M
    BY <2>0, <1>0
  <2>2. a[i] = q[j] /\ j \in 1 .. n
    BY <2>0, <1>1
  <2>3. a[i - M] = q[j - M]
    BY <2>1, <1>1
  <2> HIDE DEF j
  <2>4. q[j] - q[j - M] >= HourTicks
    BY <2>1, <2>2, <1>2
  <2> QED BY <2>2, <2>3, <2>4
<1>6. a[M + 1 - Run(count) + 1] - a[M + 1 - Run(count)] > HourTicks
  <2> DEFINE k == Run(count)
  <2>1. /\ M + 1 - k + 1 \in 1 .. M + 1 /\ M + 1 - k \in 1 .. M + 1
        /\ (M + 1 - k + 1) + d = n - k + 1 /\ (M + 1 - k) + d = n - k /\ k < n
    BY <1>0, <1>3
  <2> HIDE DEF k
  <2>2. a[M + 1 - k + 1] = q[n - k + 1] /\ a[M + 1 - k] = q[n - k]
    BY <2>1, <1>1
  <2>3. q[n - k + 1] - q[n - k] > HourTicks
    BY <2>1, <1>2 DEF k
  <2> QED BY <2>2, <2>3 DEF k
<1>7. a[M + 1] = q[n]
  <2>1. M + 1 \in 1 .. M + 1 /\ (M + 1) + d = n
    BY <1>0
  <2> QED BY <2>1, <1>1
<1>8. Rated(a, count)
  <2>1. Run(count) <= Len(a) /\ (Len(a) = 0 <=> count = 0) /\ count \in Nat
    BY <1>0, <1>1, <1>2, <1>3
  <2>2. Run(count) < Len(a) => a[Len(a) - Run(count) + 1] - a[Len(a) - Run(count)] > HourTicks
    <3> DEFINE k == Run(count)
               L == Len(a)
    <3>1. k \in Nat /\ L = M + 1 /\ M \in Nat
      BY <1>0, <1>1, <1>3
    <3>2. a[M + 1 - k + 1] - a[M + 1 - k] > HourTicks
      BY <1>6
    <3> HIDE DEF k, L
    <3>3. a[L - k + 1] - a[L - k] > HourTicks
      BY <3>1, <3>2
    <3> QED BY <3>3 DEF k, L
  <2> QED BY <2>1, <2>2, <1>1, <1>4, <1>5 DEF Rated, M
<1> QED BY <1>1, <1>7, <1>8 DEF n, M, a

\* A hit on the limiter.
LEMMA HitFits ==
    ASSUME LimiterInv, s1' = s1, s6' = Limiter!Hit, Limiter!Note
    PROVE  LimiterInv'
<1> USE RecordsAssumption DEF RemarksAssumption
<1>f. /\ s1 \in Nat /\ s6.count \in Nat /\ s6.at \in Nat /\ Rated(s7, s6.count)
      /\ s7 \in Seq(Nat) /\ Len(s7) \in Nat /\ (Len(s7) = 0 <=> s6.count = 0)
      /\ Len(s7) > 0 => s6.at = s7[Len(s7)] /\ s7[Len(s7)] <= s1
  BY DEF LimiterInv, Rated
<1>1. /\ s6'.count = IF Limiter!Lapsed THEN 1 ELSE s6.count + 1
      /\ s6'.at = IF Limiter!Lapsed \/ s6.count < LimiterHits THEN s1 ELSE s6.at
      /\ s6'.count \in Nat /\ s6'.at \in Nat
  BY <1>f DEF Limiter!Hit
<1>2. CASE Limiter!Fits
  <2> DEFINE a == Append(s7, s1)
  <2>1. Limiter!Lapsed \/ s6.count < LimiterHits
    BY <1>2, <1>f DEF Limiter!Fits, Limiter!Hit
  <2>2. \A i \in 1 .. Len(s7) : s7[i] <= s1
    <3> SUFFICES ASSUME NEW i \in 1 .. Len(s7) PROVE s7[i] <= s1
      OBVIOUS
    <3>1. Len(s7) \in 1 .. Len(s7) /\ i <= Len(s7) /\ s7[i] \in Nat /\ s7[Len(s7)] \in Nat
      BY <1>f
    <3>2. s7[i] <= s7[Len(s7)]
      BY <3>1, <1>f DEF Rated
    <3> QED BY <3>1, <3>2, <1>f
  <2>3. Rated(a, s6'.count)
    <3>1. CASE Limiter!Lapsed
      <4>1. Len(s7) > 0 => s1 - s7[Len(s7)] > HourTicks
        BY <3>1, <1>f DEF Limiter!Lapsed
      <4> QED BY <3>1, <4>1, <1>1, <1>f, <2>2, AddHit
    <3>2. CASE ~Limiter!Lapsed
      BY <3>2, <2>1, <1>1, <1>f, <2>2, AddHit
    <3> QED BY <3>1, <3>2
  <2>4. Len(a) = Len(s7) + 1 /\ a[Len(a)] = s1
    BY <1>f
  <2> HIDE DEF a
  <2>5. s6'.at = s1
    BY <2>1, <1>1
  <2>6. CASE Len(s7) > LimiterHits
    <3>1. s7' = Limiter!Latest(a) /\ Len(a) > LimiterHits
      BY <1>2, <1>f, <2>4, <2>6 DEF Limiter!Note, a
    <3>2. Rated(s7', s6'.count) /\ Len(s7') = LimiterHits + 1 /\ s7'[Len(s7')] = s1
      BY <3>1, <2>3, <2>4, ForgetHits
    <3> QED BY <3>2, <2>5, <1>1, <1>f DEF LimiterInv
  <2>7. CASE ~(Len(s7) > LimiterHits)
    <3>1. s7' = a
      BY <1>2, <2>7 DEF Limiter!Note, a
    <3> QED BY <3>1, <2>3, <2>4, <2>5, <1>1, <1>f DEF LimiterInv
  <2> QED BY <2>6, <2>7
<1>3. CASE ~Limiter!Fits
  <2>1. s7' = s7
    BY <1>3 DEF Limiter!Note
  <2>2. ~Limiter!Lapsed /\ s6.count >= LimiterHits
    BY <1>3, <1>f DEF Limiter!Fits, Limiter!Hit
  <2>3. s6'.count = s6.count + 1 /\ s6'.at = s6.at
    BY <2>2, <1>1, <1>f
  <2>4. Run(s6.count + 1) = Run(s6.count)
    BY <2>2, <1>f DEF Run
  <2>5. Rated(s7, s6.count + 1)
    BY <2>2, <2>4, <1>f DEF Rated
  <2> QED BY <2>1, <2>3, <2>5, <1>1, <1>f DEF LimiterInv
<1> QED BY <1>2, <1>3

LEMMA LimiterNext ==
    ASSUME LimiterInv, [Limiter!Next]_<<s1, s2, s3, s4, s5, s6, s7, s8>>
    PROVE  LimiterInv'
<1>1. CASE Limiter!Hammer
  BY <1>1, HitFits DEF Limiter!Hammer
<1>2. CASE Limiter!Tick
  <2>1. s1' = s1 + 1 /\ UNCHANGED <<s6, s7>>
    BY <1>2 DEF Limiter!Tick
  <2>2. s7 \in Seq(Nat) /\ Len(s7) \in Nat /\ (Len(s7) > 0 => s7[Len(s7)] \in Nat) /\ s1 \in Nat
    BY DEF LimiterInv, Rated
  <2> QED BY <2>1, <2>2 DEF LimiterInv
<1>3. ASSUME NEW r \in Limiter!Made, Limiter!Limit(r) PROVE LimiterInv'
  <2>1. CASE s6' = Limiter!Hit /\ Limiter!Note
    BY <1>3, <2>1, HitFits DEF Limiter!Limit
  <2>2. CASE UNCHANGED <<s6, s7>>
    BY <1>3, <2>2 DEF Limiter!Limit, LimiterInv
  <2> QED BY <1>3, <2>1, <2>2 DEF Limiter!Limit
<1>4. ASSUME UNCHANGED <<s1, s6, s7>> PROVE LimiterInv'
  BY <1>4 DEF LimiterInv
<1>5. ASSUME \/ \E s \in Speaker : Limiter!Receive(s) \/ Limiter!GiveUp(s)
                                   \/ \E h \in Remark : Limiter!Submit(s, h)
             \/ \E r \in Limiter!Made : Limiter!Find(r) \/ Limiter!Insert(r)
      PROVE  UNCHANGED <<s1, s6, s7>>
  BY <1>5 DEF Limiter!Receive, Limiter!GiveUp, Limiter!Submit, Limiter!Find, Limiter!Insert
<1> QED BY <1>1, <1>2, <1>3, <1>4, <1>5, Zenon DEF Limiter!Next

-----------------------------------------------------------------------------
(* EngineState                                                             *)

ReportRow == [status : {"running", "stopped"}, sent : Nat,
              pc : {"wire", "write", "prune", "done"}, at : Nat,
              left : SUBSET (StatusPool \cup {"snapshot"})]

\* There is a snapshot of this time.
Shot(shots, t) == \E s \in shots : s.at = t

\* A report is of the past and outlives its time no more than the clock lets it;
\* once its snapshot is written and it may still put its heartbeat, it has one.
ReportFits(q, now, shots) ==
    /\ q.sent <= now /\ q.at <= now
    /\ q.at > 0 => q.sent <= q.at
    /\ q.pc = "write" => q.at > 0
    /\ q.pc # "done" \/ q.left # {} => now <= q.sent + WorkTime
    /\ q.pc = "write" /\ "snapshot" \notin q.left => Shot(shots, q.at)

\* There is a latest snapshot, if any.
ShotsFit(shots) ==
    /\ \A s \in shots : s.at \in Nat
    /\ shots # {} => \E s \in shots : \A t \in shots : t.at <= s.at

\* The heartbeat is of a report, lives no longer than that allows, and is backed.
BeatFits ==
    \/ s7 = Status!None
    \/ /\ s7.by \in DOMAIN s4 /\ s7.status = s4[s7.by].status
       /\ s7.at \in Nat /\ s4[s7.by].sent <= s7.at
       /\ s7.until \in Nat /\ s7.until <= s4[s7.by].sent + WorkTime + BeatTtl
       /\ s7.until > s1 => Shot(s5, s7.at)

StatusInv ==
    /\ s1 \in Nat \ {0}
    /\ \E n \in Nat : s4 \in [1 .. n -> ReportRow]
    /\ \A r \in DOMAIN s4 : ReportFits(s4[r], s1, s5)
    /\ ShotsFit(s5) /\ BeatFits

LEMMA StatusInit == ASSUME Status!Init PROVE StatusInv
<1>1. s1 = 1 /\ s4 = [r \in {} |-> 0] /\ s5 = {} /\ s7 = Status!None
  BY DEF Status!Init
<1>2. s4 \in [1 .. 0 -> ReportRow] /\ DOMAIN s4 = {}
  BY <1>1
<1>3. \E n \in Nat : s4 \in [1 .. n -> ReportRow]
  BY <1>2
<1>4. ShotsFit(s5) /\ BeatFits
  BY <1>1 DEF ShotsFit, BeatFits
<1> QED BY <1>1, <1>2, <1>3, <1>4 DEF StatusInv

LEMMA StatusClaims == StatusInv => Status!BeatBacked /\ Status!RunningFades
<1> SUFFICES ASSUME StatusInv PROVE Status!BeatBacked /\ Status!RunningFades
  OBVIOUS
<1> USE RecordsAssumption DEF StatusAssumption
<1>1. s1 \in Nat \ {0} /\ BeatFits /\ ShotsFit(s5)
  BY DEF StatusInv
<1>2. CASE s7 = Status!None
  <2>1. s7.until = 0 /\ s7.status = "none"
    BY <1>2 DEF Status!None
  <2>2. Status!BeatBacked
    BY <1>1, <2>1 DEF Status!BeatBacked
  <2>3. Status!Told.status = s7
    BY <1>2 DEF Status!Told, Status!Served
  <2>4. Status!RunningFades
    BY <2>1, <2>3, Zenon DEF Status!RunningFades
  <2> QED BY <2>2, <2>4
<1>3. CASE s7 # Status!None
  <2>1. /\ s7.by \in DOMAIN s4 /\ s7.status = s4[s7.by].status
        /\ s7.at \in Nat /\ s4[s7.by].sent <= s7.at
        /\ s7.until \in Nat /\ s7.until <= s4[s7.by].sent + WorkTime + BeatTtl
        /\ s7.until > s1 => Shot(s5, s7.at)
    BY <1>1, <1>3 DEF BeatFits
  <2>2. Status!BeatBacked
    <3> SUFFICES ASSUME s7.until > s1
        PROVE (\E s \in s5 : s.at = s7.at) /\ Status!Told.portfolio.at >= s7.at
      BY DEF Status!BeatBacked
    <3>1. PICK s \in s5 : s.at = s7.at
      BY <2>1 DEF Shot
    <3>2. \E m \in s5 : \A t \in s5 : t.at <= m.at
      BY <1>1, <3>1 DEF ShotsFit
    <3>3. Status!LatestSnapshot \in s5 /\ \A t \in s5 : t.at <= Status!LatestSnapshot.at
      <4> DEFINE m == CHOOSE m \in s5 : \A t \in s5 : t.at <= m.at
      <4>1. m \in s5 /\ \A t \in s5 : t.at <= m.at
        BY <3>2
      <4>2. Status!LatestSnapshot = m
        BY <3>1 DEF Status!LatestSnapshot
      <4> QED BY <4>1, <4>2
    <3>4. Status!Told.portfolio = Status!LatestSnapshot
      BY DEF Status!Told
    <3>5. s7.at <= Status!LatestSnapshot.at /\ Status!LatestSnapshot.at \in Nat
      BY <3>1, <3>3, <1>1 DEF ShotsFit
    <3> QED BY <3>1, <3>4, <3>5, <2>1
  <2>3. Status!RunningFades
    <3> SUFFICES ASSUME Status!Told.status.status = "running"
        PROVE \E r \in DOMAIN s4 : /\ s4[r].status = "running" /\ r = Status!Told.status.by
                                   /\ s1 <= s4[r].sent + WorkTime + BeatTtl
      BY DEF Status!RunningFades, Status!Sent
    <3>1. Status!Told.status = Status!Served
      BY DEF Status!Told
    <3>2. Status!Served = s7 /\ s7.until >= s1
      <4>1. Status!None.status = "none"
        BY DEF Status!None
      <4> QED BY <3>1, <4>1 DEF Status!Served
    <3>3. s4[s7.by].sent \in Nat
      <4>1. PICK n \in Nat : s4 \in [1 .. n -> ReportRow]
        BY DEF StatusInv
      <4>2. s4[s7.by] \in ReportRow
        BY <4>1, <2>1
      <4> QED BY <4>2 DEF ReportRow
    <3>4. s1 <= s4[s7.by].sent + WorkTime + BeatTtl
      BY <2>1, <3>2, <3>3, <1>1
    <3> QED BY <2>1, <3>1, <3>2, <3>4
  <2> QED BY <2>2, <2>3
<1> QED BY <1>2, <1>3

\* A step of one report, which may add a snapshot or prune those past their time.
LEMMA ReportMoves ==
    ASSUME StatusInv, NEW r \in DOMAIN s4, NEW row \in ReportRow, s1' = s1,
           s4' = [s4 EXCEPT ![r] = row],
           row.status = s4[r].status, row.sent = s4[r].sent, ReportFits(row, s1', s5'),
           ShotsFit(s5'),
           \A s \in s5 : s1 <= s.at + KeepTicks => Shot(s5', s.at),
           \/ s7' = s7
           \/ /\ s7'.by = r /\ s7'.status = s4[r].status
              /\ s7'.at \in Nat /\ s4[r].sent <= s7'.at
              /\ s7'.until \in Nat /\ s7'.until <= s4[r].sent + WorkTime + BeatTtl
              /\ Shot(s5', s7'.at)
    PROVE  StatusInv'
<1> USE RecordsAssumption DEF StatusAssumption
<1>0. s1 \in Nat \ {0} /\ (\A q \in DOMAIN s4 : ReportFits(s4[q], s1, s5)) /\ BeatFits
  BY DEF StatusInv
<1>1. PICK n \in Nat : s4 \in [1 .. n -> ReportRow]
  BY DEF StatusInv
<1>2. /\ s4' \in [1 .. n -> ReportRow] /\ DOMAIN s4' = DOMAIN s4 /\ s4'[r] = row
      /\ \A q \in DOMAIN s4 \ {r} : s4'[q] = s4[q]
  BY <1>1
<1>3. \A t, sent \in Nat :
         Shot(s5, t) /\ sent <= t /\ s1 <= sent + WorkTime + BeatTtl => Shot(s5', t)
  <2> SUFFICES ASSUME NEW t \in Nat, NEW sent \in Nat, Shot(s5, t), sent <= t,
                      s1 <= sent + WorkTime + BeatTtl
      PROVE  Shot(s5', t)
    OBVIOUS
  <2>1. PICK s \in s5 : s.at = t
    BY DEF Shot
  <2>2. s1 <= t + KeepTicks
    BY <1>0
  <2> QED BY <2>1, <2>2
<1>4. ASSUME NEW q \in DOMAIN s4 PROVE ReportFits(s4'[q], s1', s5')
  <2>1. CASE q = r
    BY <2>1, <1>2
  <2>2. CASE q # r
    <3>1. PICK old \in ReportRow : old = s4[q] /\ s4'[q] = old
      BY <1>1, <1>2, <2>2
    <3>2. ReportFits(old, s1, s5)
      BY <3>1, <1>0
    <3>3. old.sent \in Nat /\ old.at \in Nat
      BY DEF ReportRow
    <3>4. ASSUME old.pc = "write", "snapshot" \notin old.left PROVE Shot(s5', old.at)
      <4>1. Shot(s5, old.at) /\ old.sent <= old.at /\ s1 <= old.sent + WorkTime
        BY <3>2, <3>3, <3>4 DEF ReportFits
      <4>2. s1 <= old.sent + WorkTime + BeatTtl
        BY <4>1, <3>3, <1>0
      <4> QED BY <4>1, <4>2, <3>3, <1>3
    <3>5. ReportFits(old, s1', s5')
      BY <3>2, <3>4, <1>0 DEF ReportFits
    <3> QED BY <3>1, <3>5
  <2> QED BY <2>1, <2>2
<1>5. \A q \in DOMAIN s4 : s4'[q].status = s4[q].status /\ s4'[q].sent = s4[q].sent
                           /\ s4[q].sent \in Nat
  BY <1>1, <1>2 DEF ReportRow
<1>6. BeatFits'
  <2>1. CASE s7' = s7
    <3>1. CASE s7 = Status!None
      <4>1. s7' = Status!None'
        BY <2>1, <3>1 DEF Status!None
      <4> QED BY <4>1 DEF BeatFits
    <3>2. CASE s7 # Status!None
      <4>1. /\ s7.by \in DOMAIN s4 /\ s7.status = s4[s7.by].status
            /\ s7.at \in Nat /\ s4[s7.by].sent <= s7.at
            /\ s7.until \in Nat /\ s7.until <= s4[s7.by].sent + WorkTime + BeatTtl
            /\ s7.until > s1 => Shot(s5, s7.at)
        BY <3>2, <1>0 DEF BeatFits
      <4> DEFINE sent == s4[s7.by].sent
      <4>2. sent \in Nat /\ s4'[s7.by].sent = sent /\ s4'[s7.by].status = s4[s7.by].status
        BY <4>1, <1>5
      <4>3. ASSUME s7.until > s1 PROVE Shot(s5', s7.at)
        <5>1. s1 <= sent + WorkTime + BeatTtl
          BY <4>1, <4>2, <4>3, <1>0
        <5> QED BY <4>1, <4>2, <4>3, <5>1, <1>3
      <4> HIDE DEF sent
      <4>4. /\ s7.by \in DOMAIN s4' /\ s7.status = s4'[s7.by].status
            /\ s7.at \in Nat /\ s4'[s7.by].sent <= s7.at
            /\ s7.until \in Nat /\ s7.until <= s4'[s7.by].sent + WorkTime + BeatTtl
            /\ s7.until > s1 => Shot(s5', s7.at)
        BY <4>1, <4>2, <4>3, <1>2 DEF sent
      <4> QED BY <4>4, <2>1 DEF BeatFits
    <3> QED BY <3>1, <3>2
  <2>2. CASE s7' # s7
    <3>1. /\ s7'.by = r /\ s7'.status = s4[r].status
          /\ s7'.at \in Nat /\ s4[r].sent <= s7'.at
          /\ s7'.until \in Nat /\ s7'.until <= s4[r].sent + WorkTime + BeatTtl
          /\ Shot(s5', s7'.at)
      BY <2>2
    <3>2. s4'[r].status = s4[r].status /\ s4'[r].sent = s4[r].sent /\ r \in DOMAIN s4'
      BY <1>2, <1>5
    <3>3. /\ s7'.by \in DOMAIN s4' /\ s7'.status = s4'[s7'.by].status
          /\ s4'[s7'.by].sent <= s7'.at
          /\ s7'.until <= s4'[s7'.by].sent + WorkTime + BeatTtl
      BY <3>1, <3>2
    <3> QED BY <3>1, <3>3 DEF BeatFits
  <2> QED BY <2>1, <2>2
<1>7. s1' \in Nat \ {0}
  BY <1>0
<1> QED BY <1>2, <1>4, <1>6, <1>7 DEF StatusInv

\* A new report.
LEMMA ReportPosted ==
    ASSUME StatusInv, NEW status \in {"running", "stopped"}, NEW pools \in SUBSET StatusPool,
           Status!Post(status, pools), s1' = s1, s5' = s5, s7' = s7
    PROVE  StatusInv'
<1> USE RecordsAssumption DEF StatusAssumption
<1>0. s1 \in Nat \ {0} /\ (\A q \in DOMAIN s4 : ReportFits(s4[q], s1, s5)) /\ BeatFits /\ ShotsFit(s5)
  BY DEF StatusInv
<1>1. PICK n \in Nat : s4 \in [1 .. n -> ReportRow]
  BY DEF StatusInv
<1>2. Status!Cardinality(DOMAIN s4) = n /\ DOMAIN s4 = 1 .. n
  <2>1. DOMAIN s4 = 1 .. n
    BY <1>1
  <2>2. Cardinality(1 .. n) = n
    BY FS_Interval
  <2> QED BY <2>1, <2>2, SameCount
<1> DEFINE r == n + 1
           row == [status |-> status, sent |-> s1, pc |-> "wire", at |-> 0, left |-> pools]
<1>3. s4' = [q \in (1 .. n) \cup {r} |-> IF q # r THEN s4[q] ELSE row]
  BY <1>2, Zenon DEF Status!Post, Status!Sent
<1>4. row \in ReportRow /\ r \in Nat \ {0} /\ (1 .. n) \cup {r} = 1 .. r /\ r \notin 1 .. n
  BY <1>0 DEF ReportRow
<1>5. ReportFits(row, s1, s5)
  BY <1>0 DEF ReportFits
<1> HIDE DEF row
<1>6. s4' \in [1 .. r -> ReportRow] /\ s4'[r] = row /\ \A q \in 1 .. n : s4'[q] = s4[q]
  BY <1>1, <1>3, <1>4
<1>7. s1' = s1 /\ s5' = s5
  OBVIOUS
<1>8. ASSUME NEW q \in 1 .. r PROVE ReportFits(s4'[q], s1', s5')
  <2>1. CASE q = r
    <3>1. s4'[q] = row
      BY <2>1, <1>6
    <3> QED BY <3>1, <1>5, <1>7
  <2>2. CASE q # r
    <3>1. q \in 1 .. n
      BY <2>2, <1>4
    <3>2. s4'[q] = s4[q] /\ ReportFits(s4[q], s1, s5)
      BY <3>1, <1>0, <1>2, <1>6
    <3> QED BY <3>2, <1>7
  <2> QED BY <2>1, <2>2
<1>9. DOMAIN s4' = 1 .. r /\ \A q \in DOMAIN s4 : q \in DOMAIN s4' /\ s4'[q] = s4[q]
  BY <1>2, <1>4, <1>6
<1>10. BeatFits'
  <2>1. CASE s7 = Status!None
    BY <2>1 DEF BeatFits, Status!None
  <2>2. CASE s7 # Status!None
    <3>1. /\ s7.by \in DOMAIN s4 /\ s7.status = s4[s7.by].status
          /\ s7.at \in Nat /\ s4[s7.by].sent <= s7.at
          /\ s7.until \in Nat /\ s7.until <= s4[s7.by].sent + WorkTime + BeatTtl
          /\ s7.until > s1 => Shot(s5, s7.at)
      BY <2>2, <1>0 DEF BeatFits
    <3>2. s7.by \in DOMAIN s4' /\ s4'[s7.by] = s4[s7.by] /\ (Shot(s5', s7.at) <=> Shot(s5, s7.at))
      BY <3>1, <1>9 DEF Shot
    <3> QED BY <3>1, <3>2 DEF BeatFits
  <2> QED BY <2>1, <2>2
<1>11. ShotsFit(s5') /\ s1' \in Nat \ {0}
  BY <1>0 DEF ShotsFit
<1>12. \E m \in Nat : s4' \in [1 .. m -> ReportRow]
  BY <1>4, <1>6
<1> HIDE DEF r
<1> QED BY <1>8, <1>9, <1>10, <1>11, <1>12 DEF StatusInv

LEMMA StatusTick == ASSUME StatusInv, Status!Tick PROVE StatusInv'
<1> USE RecordsAssumption DEF StatusAssumption
<1>0. s1 \in Nat \ {0} /\ (\A q \in DOMAIN s4 : ReportFits(s4[q], s1, s5)) /\ BeatFits /\ ShotsFit(s5)
  BY DEF StatusInv
<1>1. PICK n \in Nat : s4 \in [1 .. n -> ReportRow]
  BY DEF StatusInv
<1>2. /\ s1' = s1 + 1 /\ s4' = s4 /\ s5' = s5 /\ s7' = s7
      /\ \A r \in DOMAIN s4 : s4[r].pc # "done" \/ s4[r].left # {} => s1 < s4[r].sent + WorkTime
  BY DEF Status!Tick, Status!Sent, Status!Alive
<1>3. \A t : Shot(s5', t) <=> Shot(s5, t)
  BY <1>2 DEF Shot
<1>4. ASSUME NEW r \in DOMAIN s4 PROVE ReportFits(s4'[r], s1', s5')
  <2> DEFINE q == s4[r]
  <2>1. q.sent \in Nat /\ q.at \in Nat
    BY <1>1 DEF ReportRow
  <2>2. ReportFits(q, s1, s5) /\ (q.pc # "done" \/ q.left # {} => s1 < q.sent + WorkTime) /\ s4'[r] = q
    BY <1>0, <1>2
  <2> HIDE DEF q
  <2>3. /\ q.sent <= s1' /\ q.at <= s1'
        /\ (q.pc # "done" \/ q.left # {} => s1' <= q.sent + WorkTime)
    BY <2>1, <2>2, <1>0, <1>2 DEF ReportFits
  <2>4. ReportFits(q, s1', s5')
    BY <2>2, <2>3, <1>3 DEF ReportFits
  <2> QED BY <2>2, <2>4
<1>5. BeatFits'
  <2>1. CASE s7 = Status!None
    BY <2>1, <1>2 DEF BeatFits, Status!None
  <2>2. CASE s7 # Status!None
    <3>1. /\ s7.by \in DOMAIN s4 /\ s7.status = s4[s7.by].status
          /\ s7.at \in Nat /\ s4[s7.by].sent <= s7.at
          /\ s7.until \in Nat /\ s7.until <= s4[s7.by].sent + WorkTime + BeatTtl
          /\ s7.until > s1 => Shot(s5, s7.at)
      BY <2>2, <1>0 DEF BeatFits
    <3>2. s7.until > s1' => Shot(s5', s7.at)
      BY <3>1, <1>0, <1>2, <1>3
    <3> QED BY <3>1, <3>2, <1>2 DEF BeatFits
  <2> QED BY <2>1, <2>2
<1>6. ShotsFit(s5') /\ s1' \in Nat \ {0}
  BY <1>0, <1>2 DEF ShotsFit
<1> QED BY <1>1, <1>2, <1>4, <1>5, <1>6 DEF StatusInv

LEMMA ReportWritten ==
    ASSUME StatusInv, NEW r \in DOMAIN s4,
           Status!Accept(r) \/ Status!Write(r) \/ Status!WriteFails(r)
             \/ Status!Put(r) \/ Status!Prune(r) \/ Status!Killed(r)
    PROVE  StatusInv'
<1> USE RecordsAssumption DEF StatusAssumption
<1>0. s1 \in Nat \ {0} /\ ShotsFit(s5)
  BY DEF StatusInv
<1>1. PICK n \in Nat : s4 \in [1 .. n -> ReportRow]
  BY DEF StatusInv
<1>2. PICK old \in ReportRow : old = s4[r] /\ ReportFits(old, s1, s5)
  BY <1>1 DEF StatusInv
<1>3. /\ old.status \in {"running", "stopped"} /\ old.sent \in Nat /\ old.at \in Nat
      /\ old.pc \in {"wire", "write", "prune", "done"}
      /\ old.left \in SUBSET (StatusPool \cup {"snapshot"})
  BY DEF ReportRow
<1>4. /\ old.sent <= s1 /\ old.at <= s1
      /\ old.at > 0 => old.sent <= old.at
      /\ old.pc = "write" => old.at > 0
      /\ old.pc # "done" \/ old.left # {} => s1 <= old.sent + WorkTime
      /\ old.pc = "write" /\ "snapshot" \notin old.left => Shot(s5, old.at)
  BY <1>2 DEF ReportFits
<1>5. s1' = s1
  BY Zenon DEF Status!Accept, Status!Write, Status!WriteFails, Status!Put, Status!Prune, Status!Killed
\* The step, when the snapshots and the heartbeat stay.
<1>6. ASSUME NEW row \in ReportRow, s4' = [s4 EXCEPT ![r] = row], s5' = s5, s7' = s7,
             row.status = old.status, row.sent = old.sent, ReportFits(row, s1, s5)
      PROVE  StatusInv'
  <2>1. ReportFits(row, s1', s5') /\ ShotsFit(s5')
    BY <1>0, <1>5, <1>6
  <2>2. \A s \in s5 : Shot(s5', s.at)
    BY <1>6 DEF Shot
  <2> QED BY <2>1, <2>2, <1>2, <1>5, <1>6, ReportMoves
<1>7. CASE Status!Accept(r)
  <2>1. s5' = s5 /\ s7' = s7 /\ old.pc = "wire"
    BY <1>7, <1>2 DEF Status!Accept
  <2>2. PICK now \in Nat : now = s1
    BY <1>0
  <2>3. CASE s4' = [s4 EXCEPT ![r].pc = "write", ![r].at = s1, ![r].left = @ \cup {"snapshot"}]
    <3>1. PICK left \in SUBSET (StatusPool \cup {"snapshot"}) : left = old.left \cup {"snapshot"}
      BY <1>3
    <3> DEFINE row == [old EXCEPT !.pc = "write", !.at = now, !.left = left]
    <3>2. /\ row \in ReportRow /\ row.status = old.status /\ row.sent = old.sent
          /\ row.pc = "write" /\ row.at = now /\ row.left = left
      BY <1>2 DEF ReportRow
    <3>3. s4' = [s4 EXCEPT ![r] = row]
      BY <2>2, <2>3, <3>1, <1>1, <1>2 DEF ReportRow
    <3> HIDE DEF row
    <3>4. "snapshot" \in row.left
      BY <3>1, <3>2
    <3>5. ReportFits(row, s1, s5)
      BY <3>2, <3>4, <2>1, <2>2, <1>0, <1>3, <1>4 DEF ReportFits
    <3> QED BY <3>2, <3>3, <3>5, <2>1, <1>6
  <2>4. CASE s4' = [s4 EXCEPT ![r].pc = "done", ![r].left = {}]
    <3> DEFINE row == [old EXCEPT !.pc = "done", !.left = {}]
    <3>1. /\ row \in ReportRow /\ row.status = old.status /\ row.sent = old.sent
          /\ row.pc = "done" /\ row.at = old.at /\ row.left = {}
      BY DEF ReportRow
    <3>2. s4' = [s4 EXCEPT ![r] = row]
      BY <2>4, <1>1, <1>2
    <3> HIDE DEF row
    <3>3. ReportFits(row, s1, s5)
      BY <3>1, <1>3, <1>4 DEF ReportFits
    <3> QED BY <3>1, <3>2, <3>3, <2>1, <1>6
  <2> QED BY <1>7, <2>3, <2>4 DEF Status!Accept
<1>8. CASE Status!WriteFails(r)
  <2>1. s5' = s5 /\ s7' = s7 /\ old.pc = "write"
    BY <1>8, <1>2 DEF Status!WriteFails
  <2>2. PICK x \in old.left : s4' = [s4 EXCEPT ![r].left = @ \ {x}, ![r].pc = "prune"]
    BY <1>8, <1>2 DEF Status!WriteFails
  <2>3. PICK left \in SUBSET (StatusPool \cup {"snapshot"}) : left = old.left \ {x}
    BY <1>3
  <2> DEFINE row == [old EXCEPT !.left = left, !.pc = "prune"]
  <2>4. /\ row \in ReportRow /\ row.status = old.status /\ row.sent = old.sent
        /\ row.pc = "prune" /\ row.at = old.at /\ row.left = left
    BY DEF ReportRow
  <2>5. s4' = [s4 EXCEPT ![r] = row]
    BY <2>2, <2>3, <1>1, <1>2
  <2> HIDE DEF row
  <2>6. ReportFits(row, s1, s5)
    BY <2>1, <2>4, <1>3, <1>4 DEF ReportFits
  <2> QED BY <2>1, <2>4, <2>5, <2>6, <1>6
<1>9. CASE Status!Killed(r)
  <2>1. s5' = s5 /\ s7' = s7 /\ s4' = [s4 EXCEPT ![r].pc = "done", ![r].left = {}]
    BY <1>9 DEF Status!Killed
  <2> DEFINE row == [old EXCEPT !.pc = "done", !.left = {}]
  <2>2. /\ row \in ReportRow /\ row.status = old.status /\ row.sent = old.sent
        /\ row.pc = "done" /\ row.at = old.at /\ row.left = {}
    BY DEF ReportRow
  <2>3. s4' = [s4 EXCEPT ![r] = row]
    BY <2>1, <1>1, <1>2
  <2> HIDE DEF row
  <2>4. ReportFits(row, s1, s5)
    BY <2>2, <1>3, <1>4 DEF ReportFits
  <2> QED BY <2>1, <2>2, <2>3, <2>4, <1>6
<1>10. CASE Status!Write(r)
  <2>1. PICK x \in old.left : /\ s4' = [s4 EXCEPT ![r].left = @ \ {x}]
                              /\ Status!Insert(r, x)
    BY <1>2, <1>10 DEF Status!Write
  <2>2. s7' = s7 /\ old.at > 0
    BY <1>2, <1>10 DEF Status!Write
  <2>0. PICK left \in SUBSET (StatusPool \cup {"snapshot"}) : left = old.left \ {x}
    BY <1>3
  <2> DEFINE row == [old EXCEPT !.left = left]
  <2>3. s4' = [s4 EXCEPT ![r] = row]
    BY <2>0, <2>1, <1>1, <1>2
  <2>4. ("snapshot" \notin left => "snapshot" \notin old.left \/ x = "snapshot")
        /\ (left # {} => old.left # {}) /\ old.left # {}
    BY <2>0, <2>1
  <2>5. /\ row \in ReportRow /\ row.status = old.status /\ row.sent = old.sent
        /\ row.pc = old.pc /\ row.at = old.at /\ row.left = left
    BY DEF ReportRow
  <2> HIDE DEF row
  <2>6. /\ ShotsFit(s5') /\ (\A s \in s5 : Shot(s5', s.at))
        /\ (x = "snapshot" => Shot(s5', old.at))
    <3>1. CASE x = "snapshot"
      <4> DEFINE shot == [at |-> old.at, status |-> old.status, by |-> r]
      <4>1. s5' = {s \in s5 : s.at # old.at} \cup {shot}
        BY <3>1, <2>1, <1>2 DEF Status!Insert
      <4>2. shot.at = old.at
        OBVIOUS
      <4> HIDE DEF shot
      <4>3. \A s \in s5' : s.at \in Nat
        BY <4>1, <4>2, <1>0, <1>3 DEF ShotsFit
      <4>4. \E s \in s5' : \A t \in s5' : t.at <= s.at
        <5>1. CASE \A t \in s5 : t.at <= old.at
          <6>1. \A t \in s5' : t.at <= shot.at
            BY <5>1, <4>1, <4>2, <1>3
          <6>2. shot \in s5'
            BY <4>1
          <6> QED BY <6>1, <6>2
        <5>2. CASE ~(\A t \in s5 : t.at <= old.at)
          <6>1. PICK m \in s5 : \A t \in s5 : t.at <= m.at
            BY <5>2, <1>0 DEF ShotsFit
          <6>2. m.at > old.at /\ m.at \in Nat
            BY <5>2, <6>1, <1>0, <1>3 DEF ShotsFit
          <6>3. m \in s5'
            BY <6>1, <6>2, <4>1, <1>3
          <6>4. \A t \in s5' : t.at <= m.at
            BY <6>1, <6>2, <4>1, <4>2, <1>3
          <6> QED BY <6>3, <6>4
        <5> QED BY <5>1, <5>2
      <4>5. ShotsFit(s5')
        BY <4>3, <4>4 DEF ShotsFit
      <4>6. Shot(s5', old.at)
        BY <4>1, <4>2 DEF Shot
      <4>7. \A s \in s5 : Shot(s5', s.at)
        BY <4>1, <4>6 DEF Shot
      <4> QED BY <4>5, <4>6, <4>7
    <3>2. CASE x # "snapshot"
      <4>1. s5' = s5
        BY <3>2, <2>1 DEF Status!Insert
      <4> QED BY <4>1, <3>2, <1>0 DEF ShotsFit, Shot
    <3> QED BY <3>1, <3>2
  <2>7. ReportFits(row, s1', s5')
    <3>1. ASSUME row.pc = "write", "snapshot" \notin row.left PROVE Shot(s5', row.at)
      <4>1. CASE x = "snapshot"
        BY <4>1, <2>5, <2>6
      <4>2. CASE "snapshot" \notin old.left
        <5>1. Shot(s5, old.at)
          BY <4>2, <3>1, <2>5, <1>4
        <5>2. PICK s \in s5 : s.at = old.at
          BY <5>1 DEF Shot
        <5> QED BY <5>2, <2>5, <2>6
      <4> QED BY <4>1, <4>2, <3>1, <2>4, <2>5
    <3>2. s1 <= row.sent + WorkTime
      BY <2>4, <2>5, <1>4
    <3>3. /\ row.sent <= s1 /\ row.at <= s1 /\ (row.at > 0 => row.sent <= row.at)
          /\ (row.pc = "write" => row.at > 0)
      BY <2>2, <2>5, <1>4
    <3> QED BY <3>1, <3>2, <3>3, <1>5 DEF ReportFits
  <2> QED BY <2>2, <2>3, <2>5, <2>6, <2>7, <1>2, <1>5, ReportMoves
<1>11. CASE Status!Put(r)
  <2>1. s5' = s5 /\ old.pc = "write" /\ old.left = {} /\ s4' = [s4 EXCEPT ![r].pc = "prune"]
    BY <1>2, <1>11 DEF Status!Put, Status!Stored, Status!Step
  <2> DEFINE row == [old EXCEPT !.pc = "prune"]
  <2>2. s4' = [s4 EXCEPT ![r] = row]
    BY <2>1, <1>1, <1>2
  <2>3. /\ row \in ReportRow /\ row.status = old.status /\ row.sent = old.sent
        /\ row.pc = "prune" /\ row.at = old.at /\ row.left = {}
    BY <2>1 DEF ReportRow
  <2> HIDE DEF row
  <2>4. Shot(s5, old.at) /\ old.at > 0 /\ old.sent <= old.at /\ s1 <= old.sent + WorkTime /\ old.sent <= s1
        /\ old.at <= s1
    BY <2>1, <1>4
  <2>5. ReportFits(row, s1', s5') /\ ShotsFit(s5') /\ (\A s \in s5 : Shot(s5', s.at)) /\ Shot(s5', old.at)
    BY <2>1, <2>3, <2>4, <1>0, <1>3, <1>5 DEF ReportFits, Shot
  <2>6. \/ s7' = s7
        \/ s7' = [status |-> old.status, at |-> old.at, by |-> r, until |-> s1 + BeatTtl]
    BY <1>2, <1>11 DEF Status!Put
  <2>7. \/ s7' = s7
        \/ /\ s7'.by = r /\ s7'.status = old.status
           /\ s7'.at \in Nat /\ old.sent <= s7'.at
           /\ s7'.until \in Nat /\ s7'.until <= old.sent + WorkTime + BeatTtl
           /\ Shot(s5', s7'.at)
    <3>1. CASE s7' = [status |-> old.status, at |-> old.at, by |-> r, until |-> s1 + BeatTtl]
      <4>1. s7'.status = old.status /\ s7'.at = old.at /\ s7'.by = r /\ s7'.until = s1 + BeatTtl
        BY <3>1
      <4>2. s1 + BeatTtl \in Nat /\ s1 + BeatTtl <= old.sent + WorkTime + BeatTtl
        BY <2>4, <1>0, <1>3
      <4> QED BY <4>1, <4>2, <2>4, <2>5, <1>3
    <3> QED BY <2>6, <3>1
  <2> QED BY <2>2, <2>3, <2>5, <2>7, <1>2, <1>5, ReportMoves
<1>12. CASE Status!Prune(r)
  <2>1. /\ old.pc = "prune" /\ s7' = s7 /\ s4' = [s4 EXCEPT ![r].pc = "done"]
        /\ (s5' = s5 \ Status!Pruned(s5) \/ s5' = s5)
    BY <1>2, <1>12, Zenon DEF Status!Prune, Status!Step
  <2> DEFINE row == [old EXCEPT !.pc = "done"]
  <2>2. s4' = [s4 EXCEPT ![r] = row]
    BY <2>1, <1>1, <1>2
  <2>3. /\ row \in ReportRow /\ row.status = old.status /\ row.sent = old.sent
        /\ row.pc = "done" /\ row.at = old.at /\ row.left = old.left
    BY DEF ReportRow
  <2> HIDE DEF row
  <2>4. ReportFits(row, s1', s5')
    BY <2>1, <2>3, <1>3, <1>4, <1>5 DEF ReportFits
  <2>5. \A s \in s5 : s1 <= s.at + KeepTicks => s \in s5'
    <3>1. \A s \in s5 : s.at \in Nat
      BY <1>0 DEF ShotsFit
    <3> QED BY <2>1, <3>1, <1>0 DEF Status!Pruned
  <2>6. \A s \in s5 : s1 <= s.at + KeepTicks => Shot(s5', s.at)
    BY <2>5 DEF Shot
  <2>7. ShotsFit(s5')
    <3>1. s5' \subseteq s5 /\ \A s \in s5 : s.at \in Nat
      BY <2>1, <1>0 DEF ShotsFit
    <3>2. ASSUME s5' # {} PROVE \E s \in s5' : \A t \in s5' : t.at <= s.at
      <4>1. CASE s5' = s5
        BY <4>1, <3>2, <1>0 DEF ShotsFit
      <4>2. CASE s5' = s5 \ Status!Pruned(s5)
        <5>1. PICK m \in s5 : \A t \in s5 : t.at <= m.at
          BY <3>1, <3>2, <1>0 DEF ShotsFit
        <5>2. PICK t \in s5' : TRUE
          BY <3>2
        <5>3. t \in s5 /\ ~(s1 > t.at + KeepTicks)
          BY <4>2, <5>2 DEF Status!Pruned
        <5>4. m.at \in Nat /\ t.at \in Nat /\ t.at <= m.at
          BY <3>1, <5>1, <5>3
        <5>5. ~(s1 > m.at + KeepTicks)
          BY <5>3, <5>4, <1>0
        <5>6. m \in s5'
          BY <4>2, <5>1, <5>5 DEF Status!Pruned
        <5> QED BY <5>1, <5>6, <3>1
      <4> QED BY <4>1, <4>2, <2>1
    <3> QED BY <3>1, <3>2 DEF ShotsFit
  <2> QED BY <2>1, <2>2, <2>3, <2>4, <2>6, <2>7, <1>2, <1>5, ReportMoves
<1> QED BY <1>7, <1>8, <1>9, <1>10, <1>11, <1>12

LEMMA StatusNext ==
    ASSUME StatusInv, [Status!Next]_<<s1, s2, s3, s4, s5, s6, s7>>
    PROVE  StatusInv'
<1>1. CASE Status!Shutdown
  <2>1. Status!Post("stopped", {}) /\ s1' = s1 /\ s5' = s5 /\ s7' = s7
    BY <1>1, Zenon DEF Status!Shutdown
  <2> QED BY <2>1, ReportPosted
<1>2. CASE \E pools \in SUBSET StatusPool : Status!Report(pools)
  <2>1. PICK pools \in SUBSET StatusPool : Status!Report(pools)
    BY <1>2
  <2>2. Status!Post("running", pools) /\ s1' = s1 /\ s5' = s5 /\ s7' = s7
    BY <2>1, Zenon DEF Status!Report
  <2> QED BY <2>2, ReportPosted
<1>3. CASE Status!Exit \/ Status!Launch \/ UNCHANGED <<s1, s2, s3, s4, s5, s6, s7>>
  <2>1. s1' = s1 /\ s4' = s4 /\ s5' = s5 /\ s7' = s7
    BY <1>3, Zenon DEF Status!Exit, Status!Launch
  <2> QED BY <2>1 DEF StatusInv, ReportFits, ShotsFit, BeatFits, Shot, Status!None
<1> QED
  BY <1>1, <1>2, <1>3, StatusTick, ReportWritten, Zenon DEF Status!Next, Status!Sent

-----------------------------------------------------------------------------
(* EntryGates                                                              *)

Measured == [fee : Nat, auth : Nat, yield : Nat, drop : Nat, deep : BOOLEAN,
             sinks : BOOLEAN]

GateTypes ==
    /\ s2 \in Measured /\ s3 \in [fee : Nat, auth : Nat]
    /\ s4 \in Nat /\ s5 \in Nat /\ s6 \in BOOLEAN /\ s10 \in BOOLEAN
    /\ s8 \in {"none", "harvest", "fallen"} /\ s9 \in {"none", "vetted", "capped"}

\* What the gates passed so far say of the reading, as long as none has refused.
PassedInv ==
    s6 = FALSE =>
       /\ s1 \in {"fallen", "fees", "proofs", "funding", "candidate"} => Gates!PreFilter(s2, s3)
       /\ s1 \in {"proofs", "funding", "candidate"} => s2.fee = 0 \/ s2.fee >= LeastFee

\* The exit chain takes it out only for what no gate looks at.
Outlives(x, t) == Gates!ChainExits(x, t) => x.sinks \/ Gates!LooseSetting(x)

\* What is decided, or captured with all the gates, outlives the reading; what is captured
\* at the cap has no room in this cycle, or its pool has exited.
CapturedInv ==
    /\ s1 \in {"exit", "slot", "fallen", "fees", "proofs", "funding", "candidate", "capture"} =>
          s8 # "harvest" /\ s9 = "none"
    /\ s1 \in {"exit", "capture"} => s8 = "none"
    /\ s1 = "capture" => s4 + s5 >= PoolCap
    /\ s1 \in {"tail", "redeploy"} =>
          /\ s8 = "harvest" \/ s9 = "vetted" => Outlives(s2, s3)
          /\ s9 = "capped" => s10 \/ s4 + s5 >= PoolCap
    /\ s9 = "capped" => s8 = "none"
    /\ s1 = "redeploy" => s9 # "none"

GatesInv == GateTypes /\ PassedInv /\ CapturedInv /\ Gates!EntryOutlives /\ Gates!RedeployVetted

LEMMA GateValues ==
    /\ Gates!Reading \subseteq Measured /\ Gates!Thresholds \subseteq [fee : Nat, auth : Nat]
    /\ LeastFee \in Nat /\ PoolCap \in Nat /\ AdoptedMost \in Nat
<1>1. GatesAssumption
  BY RecordsAssumption
<1>2. LeastFee \in Nat /\ PoolCap \in Nat /\ AdoptedMost \in Nat
  BY <1>1 DEF GatesAssumption
<1>3. ASSUME NEW x \in Gates!Reading PROVE x \in Measured
  <2>1. GateFee \cup {0} \subseteq Nat /\ GateAuth \cup {0} \subseteq Nat
        /\ GateYield \subseteq Nat /\ GateDrop \subseteq Nat
    BY <1>1 DEF GatesAssumption
  <2> QED BY <2>1 DEF Gates!Reading, Gates!Unknown, Measured
<1>4. ASSUME NEW x \in Gates!Thresholds PROVE x \in [fee : Nat, auth : Nat]
  <2>1. FeeLimit \subseteq Nat /\ AuthLimit \subseteq Nat
    BY <1>1 DEF GatesAssumption
  <2> QED BY <2>1 DEF Gates!Thresholds
<1> QED BY <1>2, <1>3, <1>4

LEMMA GatesInit == ASSUME Gates!Init PROVE GatesInv
<1> USE DEF Gates!Init
<1>1. GateTypes
  <2>1. s2 \in Measured /\ s3 \in [fee : Nat, auth : Nat]
    BY GateValues
  <2>2. s4 \in Nat /\ s5 \in Nat
    BY GateValues
  <2> QED BY <2>1, <2>2 DEF GateTypes
<1>2. PassedInv /\ CapturedInv /\ Gates!EntryOutlives /\ Gates!RedeployVetted
  BY DEF PassedInv, CapturedInv, Gates!EntryOutlives, Gates!RedeployVetted
<1> QED BY <1>1, <1>2 DEF GatesInv

LEMMA GatesClaims == GatesInv => Gates!EntryOutlives /\ Gates!RedeployVetted
BY DEF GatesInv

\* The last gate leaves the exit chain nothing but what no gate looks at.
LEMMA GatesAgree ==
    ASSUME GatesInv, s1 = "candidate", s6 = FALSE,
           Gates!BaseEligible(s2, s3), Gates!YieldEligible(s2, s7)
    PROVE  Outlives(s2, s3)
<1>1. s2.fee \in Nat /\ s2.auth \in Nat /\ s2.yield \in Nat /\ s2.drop \in Nat /\ s3.auth \in Nat
  BY DEF GatesInv, GateTypes, Measured
<1>0. DropLimit \in Nat /\ LeastFee \in Nat
  BY RecordsAssumption DEF GatesAssumption
<1>2. Gates!Rotated(s2) => Gates!LooseSetting(s2)
  BY <1>0, <1>1 DEF Gates!YieldEligible, Gates!Rotated, Gates!LooseSetting
<1>3. s2.auth # 0 => s2.auth >= s3.auth
  BY DEF GatesInv, PassedInv, Gates!PreFilter, Gates!Unknown
<1>4. s2.fee # 0 /\ s2.fee < 2 => LeastFee < 2
  BY <1>0, <1>1 DEF GatesInv, PassedInv
<1>5. Gates!Weak(s2, s3) => Gates!LooseSetting(s2)
  BY <1>0, <1>1, <1>3, <1>4 DEF Gates!Weak, Gates!LooseSetting, Gates!Unknown
<1> QED BY <1>2, <1>5, Zenon DEF Outlives, Gates!ChainExits

LEMMA GatesNext ==
    ASSUME GatesInv,
           [Gates!Next]_<<s1, s2, s3, s4, s5, s6, s7, s8, s9, s10, s11, s12, s13>>
    PROVE  GatesInv'
<1>1. GateTypes /\ PassedInv /\ CapturedInv /\ Gates!EntryOutlives /\ Gates!RedeployVetted
  BY DEF GatesInv
<1>0. s2.fee \in Nat /\ LeastFee \in Nat
  BY <1>1, GateValues DEF GateTypes, Measured
<1> USE DEF GatesInv
<1>e. CASE Gates!Evolve
  <2> USE <1>e DEF Gates!Evolve
  <2>1. GateTypes'
    BY <1>1, GateValues DEF GateTypes
  <2>2. PassedInv' /\ CapturedInv' /\ Gates!RedeployVetted'
    BY <1>1 DEF PassedInv, CapturedInv, Gates!RedeployVetted
  <2>3. Gates!EntryOutlives'
    BY <1>1 DEF Gates!EntryOutlives
  <2> QED BY <2>1, <2>2, <2>3
<1>r. CASE Gates!Read
  <2> USE <1>r DEF Gates!Read
  <2>1. GateTypes'
    BY <1>1, GateValues DEF GateTypes
  <2>2. PassedInv' /\ CapturedInv' /\ Gates!RedeployVetted'
    BY <1>1 DEF PassedInv, CapturedInv, Gates!RedeployVetted
  <2>3. Gates!EntryOutlives'
    BY <1>1 DEF Gates!EntryOutlives
  <2> QED BY <2>1, <2>2, <2>3
<1>x. CASE Gates!ExitPhase
  <2> USE <1>x DEF Gates!ExitPhase
  <2>1. GateTypes'
    BY <1>1 DEF GateTypes
  <2>2. PassedInv' /\ Gates!RedeployVetted'
    BY <1>1 DEF PassedInv, Gates!RedeployVetted
  <2>3. Gates!EntryOutlives'
    BY <1>1 DEF Gates!EntryOutlives
  <2>4. CapturedInv'
    BY <1>1, GateValues DEF CapturedInv, GateTypes
  <2> QED BY <2>1, <2>2, <2>3, <2>4
<1>g. CASE Gates!FirstGates
  <2> USE <1>g DEF Gates!FirstGates, Gates!Gate
  <2>1. /\ UNCHANGED <<s2, s3, s4, s5, s9, s10, s11, s12, s13>>
        /\ s6' \in BOOLEAN /\ (s6' = FALSE => s6 = FALSE) /\ s8' \in {"none", s8, "fallen"}
    BY <1>1 DEF GateTypes
  <2>2. GateTypes'
    BY <1>1, <2>1 DEF GateTypes
  <2>3. Gates!EntryOutlives' /\ Gates!RedeployVetted'
    BY <1>1, <2>1 DEF Gates!EntryOutlives, Gates!RedeployVetted
  <2>4. PassedInv'
    BY <1>1, <2>1 DEF PassedInv, Gates!PreFilter, Gates!Unknown
  <2>5. CapturedInv'
    BY <1>1, <2>1 DEF CapturedInv
  <2> QED BY <2>2, <2>3, <2>4, <2>5
<1>a. CASE Gates!FallenAngelEnter
  <2> USE <1>a DEF Gates!FallenAngelEnter
  <2>1. /\ UNCHANGED <<s2, s3, s4, s5, s9, s10, s11, s12, s13>>
        /\ s6' \in BOOLEAN /\ (s6' = FALSE => s6 = FALSE) /\ s8' \in {"none", s8, "fallen"}
    BY <1>1 DEF GateTypes
  <2>2. GateTypes'
    BY <1>1, <2>1 DEF GateTypes
  <2>3. Gates!EntryOutlives' /\ Gates!RedeployVetted'
    BY <1>1, <2>1 DEF Gates!EntryOutlives, Gates!RedeployVetted
  <2>4. PassedInv'
    BY <1>1, <2>1 DEF PassedInv, Gates!PreFilter, Gates!Unknown
  <2>5. CapturedInv'
    BY <1>1, <2>1 DEF CapturedInv
  <2> QED BY <2>2, <2>3, <2>4, <2>5
<1>f. CASE Gates!FeeGates
  <2> USE <1>f DEF Gates!FeeGates, Gates!Gate
  <2>1. /\ UNCHANGED <<s2, s3, s4, s5, s9, s10, s11, s12, s13>>
        /\ s6' \in BOOLEAN /\ (s6' = FALSE => s6 = FALSE) /\ s8' \in {"none", s8, "fallen"}
    BY <1>1 DEF GateTypes
  <2>2. GateTypes'
    BY <1>1, <2>1 DEF GateTypes
  <2>3. Gates!EntryOutlives' /\ Gates!RedeployVetted'
    BY <1>1, <2>1 DEF Gates!EntryOutlives, Gates!RedeployVetted
  <2>4. PassedInv'
    BY <1>0, <1>1, <2>1 DEF PassedInv, Gates!PreFilter, Gates!Unknown
  <2>5. CapturedInv'
    BY <1>1, <2>1 DEF CapturedInv
  <2> QED BY <2>2, <2>3, <2>4, <2>5
<1>h. CASE Gates!FetchProofs
  <2> USE <1>h DEF Gates!FetchProofs
  <2>1. /\ UNCHANGED <<s2, s3, s4, s5, s9, s10, s11, s12, s13>>
        /\ s6' \in BOOLEAN /\ (s6' = FALSE => s6 = FALSE) /\ s8' \in {"none", s8, "fallen"}
    BY <1>1 DEF GateTypes
  <2>2. GateTypes'
    BY <1>1, <2>1 DEF GateTypes
  <2>3. Gates!EntryOutlives' /\ Gates!RedeployVetted'
    BY <1>1, <2>1 DEF Gates!EntryOutlives, Gates!RedeployVetted
  <2>4. PassedInv'
    BY <1>1, <2>1 DEF PassedInv, Gates!PreFilter, Gates!Unknown
  <2>5. CapturedInv'
    BY <1>1, <2>1 DEF CapturedInv
  <2> QED BY <2>2, <2>3, <2>4, <2>5
<1>n. CASE Gates!FundingGates
  <2> USE <1>n DEF Gates!FundingGates, Gates!Gate
  <2>1. /\ UNCHANGED <<s2, s3, s4, s5, s9, s10, s11, s12, s13>>
        /\ s6' \in BOOLEAN /\ (s6' = FALSE => s6 = FALSE) /\ s8' \in {"none", s8, "fallen"}
    BY <1>1 DEF GateTypes
  <2>2. GateTypes'
    BY <1>1, <2>1 DEF GateTypes
  <2>3. Gates!EntryOutlives' /\ Gates!RedeployVetted'
    BY <1>1, <2>1 DEF Gates!EntryOutlives, Gates!RedeployVetted
  <2>4. PassedInv'
    BY <1>1, <2>1 DEF PassedInv, Gates!PreFilter, Gates!Unknown
  <2>5. CapturedInv'
    BY <1>1, <2>1 DEF CapturedInv
  <2> QED BY <2>2, <2>3, <2>4, <2>5
<1>c. CASE Gates!Candidate
  <2> USE <1>c DEF Gates!Candidate
  <2>1. GateTypes' /\ PassedInv'
    BY <1>1 DEF GateTypes, PassedInv
  <2>2. Gates!EntryOutlives' /\ Gates!RedeployVetted'
    BY <1>1 DEF Gates!EntryOutlives, Gates!RedeployVetted
  <2>3. s8' = "harvest" \/ s9' = "vetted" => Outlives(s2, s3)
    BY <1>1, GatesAgree DEF CapturedInv, GateTypes
  <2>4. CapturedInv'
    BY <1>1, <2>3 DEF CapturedInv
  <2> QED BY <2>1, <2>2, <2>4
<1>p. CASE Gates!Capture
  <2> USE <1>p DEF Gates!Capture
  <2>1. GateTypes' /\ PassedInv'
    BY <1>1 DEF GateTypes, PassedInv
  <2>2. Gates!EntryOutlives' /\ Gates!RedeployVetted'
    BY <1>1 DEF Gates!EntryOutlives, Gates!RedeployVetted
  <2>3. CapturedInv'
    BY <1>1 DEF CapturedInv
  <2> QED BY <2>1, <2>2, <2>3
<1>t. CASE Gates!Tail
  <2> USE <1>t DEF Gates!Tail, Gates!Opened
  <2>1. GateTypes'
    <3>1. s4' \in Nat
      BY <1>1 DEF GateTypes
    <3>2. s10' \in BOOLEAN
      BY <1>1 DEF GateTypes
    <3> QED BY <1>1, <3>1, <3>2 DEF GateTypes
  <2>4. PassedInv'
    BY <1>1 DEF PassedInv
  <2>2. Gates!EntryOutlives' /\ Gates!RedeployVetted'
    BY <1>1 DEF Gates!EntryOutlives, Gates!RedeployVetted, CapturedInv, GateTypes, Outlives
  <2>3. CapturedInv'
    BY <1>1 DEF CapturedInv, GateTypes
  <2> QED BY <2>1, <2>2, <2>3, <2>4
<1>d. CASE Gates!Redeploy
  <2> USE <1>d DEF Gates!Redeploy, Gates!Opened, Gates!RiskCap
  <2>1. GateTypes' /\ PassedInv' /\ CapturedInv'
    BY <1>1 DEF GateTypes, PassedInv, CapturedInv
  <2>2. CASE UNCHANGED <<s4, s11, s12, s13>>
    BY <1>1, <2>1, <2>2 DEF Gates!EntryOutlives, Gates!RedeployVetted
  <2>3. CASE s10 = FALSE /\ s4 + s5 < PoolCap /\ s13' = s9
    <3>1. s9 = "vetted"
      BY <1>1, <2>3, GateValues DEF CapturedInv, GateTypes
    <3>2. Outlives(s2, s3)
      BY <1>1, <3>1 DEF CapturedInv
    <3> QED BY <2>1, <2>3, <3>1, <3>2 DEF Gates!EntryOutlives, Gates!RedeployVetted, Outlives
  <2> QED BY <1>1, <2>2, <2>3 DEF GateTypes
<1>u. CASE UNCHANGED <<s1, s2, s3, s4, s5, s6, s7, s8, s9, s10, s11, s12, s13>>
  BY <1>1, <1>u DEF GateTypes, PassedInv, CapturedInv, Gates!EntryOutlives, Gates!RedeployVetted
<1> QED BY <1>e, <1>r, <1>x, <1>g, <1>a, <1>f, <1>h, <1>n, <1>c, <1>p, <1>t, <1>d, <1>u DEF Gates!Next

-----------------------------------------------------------------------------
(* CandidateBook                                                           *)

Pools == Candidates!Pool
Sourced == {"auto", "market", "angels", "harvest", "ever"}
Lifecycle == [state : Candidates!States, scans : Nat, aged : BOOLEAN]

BookTypes ==
    /\ s1 \in [DOMAIN s1 -> Lifecycle] /\ DOMAIN s1 \subseteq Pools
    /\ s2 \in [DOMAIN s2 -> Lifecycle] /\ DOMAIN s2 \subseteq Pools
    /\ s3 \in [Sourced -> SUBSET Pools] /\ s12 \in [Pools -> Nat]
    /\ s6 \subseteq Pools /\ s8 \subseteq Pools

\* At most one record is not written yet, of a pool in memory; the others are as written.
SavingInv ==
    /\ s13 \subseteq DOMAIN s1 /\ \A p, q \in s13 : p = q
    /\ s7 = "boot" => s13 = {}
    /\ s7 # "boot" => \A p \in DOMAIN s1 \ s13 : p \in DOMAIN s2 /\ s2[p] = s1[p]

\* A record, in memory or written, counts no scan that was not made in a row.
ScansInv ==
    /\ \A p \in DOMAIN s1 : Candidates!Watched(s1[p]) => s1[p].scans <= s12[p]
    /\ \A p \in DOMAIN s2 : Candidates!Watched(s2[p]) => s2[p].scans <= s12[p]

\* Once the scans of a cycle have been through a pool, it is a candidate only if it is
\* proven; it is eligible until its slot.
DecidedInv ==
    s7 \in {"candidates", "books", "loop"} =>
       \A p \in s3["auto"] :
          \/ s7 = "candidates" /\ p \in s8
          \/ /\ s12[p] >= HealthyScans
             /\ (s7 = "loop" => p \in s8) => p \in DOMAIN s1 /\ s1[p].state = "eligible"

\* The pools of P are in this state, in memory and, unless it is being written, in the
\* table; but for those whose record was lost.
StateOf(P, state) ==
    \A p \in P \ s14 :
       /\ s7 # "boot" => p \in DOMAIN s1 /\ s1[p].state = state
       /\ p \notin s13 => p \in DOMAIN s2 /\ s2[p].state = state

ScannedInv == s7 = "loop" => s8 \subseteq s4 /\ s6 \subseteq s4

BookInv ==
    /\ BookTypes /\ SavingInv /\ ScansInv /\ DecidedInv /\ ScannedInv
    /\ StateOf(s11, "entered") /\ StateOf(s10, "cooling_down")

\* The page of the cycle is of what the source lists.
FoundInv == s9 \subseteq Shown

CandidatesInv == BookInv /\ FoundInv

LEMMA CandidatesInit == ASSUME Candidates!Init PROVE CandidatesInv
<1> USE DEF Candidates!Init
<1>1. BookTypes
  BY DEF BookTypes, Candidates!NoBook, Sourced, Pools
<1>2. SavingInv /\ ScansInv /\ DecidedInv /\ ScannedInv
  BY DEF SavingInv, ScansInv, DecidedInv, ScannedInv
<1>3. StateOf(s11, "entered") /\ StateOf(s10, "cooling_down")
  BY DEF StateOf
<1>4. FoundInv
  BY DEF FoundInv
<1> QED BY <1>1, <1>2, <1>3, <1>4 DEF BookInv, CandidatesInv

LEMMA CandidatesClaims ==
    CandidatesInv => Candidates!HeldScanned /\ Candidates!StreakProven /\ Candidates!CooldownServed
<1> SUFFICES ASSUME BookInv
             PROVE  Candidates!HeldScanned /\ Candidates!StreakProven /\ Candidates!CooldownServed
  BY DEF CandidatesInv
<1>1. Candidates!HeldScanned
  BY DEF BookInv, ScannedInv, Candidates!HeldScanned
<1>2. Candidates!StreakProven
  BY DEF BookInv, DecidedInv, Candidates!StreakProven
<1>3. Candidates!CooldownServed
  <2> SUFFICES ASSUME NEW p \in s11 \cap s10, p \notin s14 PROVE FALSE
    BY DEF Candidates!CooldownServed
  <2>1. CASE s7 # "boot"
    BY <2>1 DEF BookInv, StateOf
  <2>2. CASE s7 = "boot"
    <3>1. p \notin s13
      BY <2>2 DEF BookInv, SavingInv
    <3> QED BY <3>1 DEF BookInv, StateOf
  <2> QED BY <2>1, <2>2
<1> QED BY <1>1, <1>2, <1>3

LEMMA CappedIs ==
    ASSUME NEW n \in Nat, NEW m \in Nat, n <= m
    PROVE  /\ Candidates!Capped(n) \in Nat /\ Candidates!Capped(n) <= Candidates!Capped(m)
           /\ Candidates!Capped(n) >= HealthyScans => Candidates!Capped(m) >= HealthyScans
<1>1. HealthyScans \in Nat
  BY RecordsAssumption DEF CandidatesAssumption
<1> QED BY <1>1 DEF Candidates!Capped

\* What a scan makes of a record.
LEMMA ScannedIs ==
    ASSUME NEW c \in Lifecycle, NEW h, NEW aged \in BOOLEAN
    PROVE  LET n == Candidates!Scanned(c, h, aged) IN
           /\ n \in Lifecycle
           /\ ~Candidates!Watched(c) => n.state = c.state
           /\ Candidates!Watched(c) /\ ~Candidates!Healthy(h) => n.scans = 0 /\ n.state = "observing"
           /\ Candidates!Watched(c) /\ Candidates!Healthy(h) =>
                 /\ n.scans = Candidates!Capped(c.scans + 1)
                 /\ n.state = "eligible" => n.scans >= HealthyScans
<1> DEFINE n == Candidates!Scanned(c, h, aged)
<1> USE DEF Lifecycle, Candidates!States
<1>1. CASE ~Candidates!Watched(c)
  BY <1>1 DEF Candidates!Scanned
<1>2. CASE Candidates!Watched(c) /\ ~Candidates!Healthy(h)
  BY <1>2 DEF Candidates!Scanned, Candidates!TransientFailure
<1>3. CASE Candidates!Watched(c) /\ Candidates!Healthy(h)
  <2> DEFINE k == [c EXCEPT !.scans = Candidates!Capped(@ + 1), !.aged = @ \/ aged]
  <2>1. n = [k EXCEPT !.state = IF Candidates!Eligible(k) THEN "eligible" ELSE "observing"]
    BY <1>3 DEF Candidates!Scanned, Candidates!HealthyScan
  <2>2. Candidates!Capped(c.scans + 1) \in Nat
    BY CappedIs
  <2>3. k \in Lifecycle /\ k.scans = Candidates!Capped(c.scans + 1)
    BY <2>2
  <2>4. n \in Lifecycle /\ n.scans = k.scans /\ (n.state = "eligible" => Candidates!Eligible(k))
    BY <2>1, <2>3
  <2> QED BY <1>3, <2>3, <2>4 DEF Candidates!Eligible
<1> QED BY <1>1, <1>2, <1>3

\* Steps that write no record and make no new candidate.
LEMMA RecordsStay ==
    ASSUME BookInv, UNCHANGED <<s1, s2, s12, s13, s14>>, s8' \subseteq Pools,
           s6' \subseteq Pools, s3' \in [Sourced -> SUBSET Pools], s7 # "boot", s7' # "boot",
           s11' \ s14 \subseteq s11, s10' \ s14 \subseteq s10
    PROVE  /\ BookTypes' /\ SavingInv' /\ ScansInv'
           /\ StateOf(s11, "entered")' /\ StateOf(s10, "cooling_down")'
<1>1. BookTypes'
  BY DEF BookInv, BookTypes
<1>2. SavingInv' /\ ScansInv'
  BY DEF BookInv, SavingInv, ScansInv
<1>3. StateOf(s11, "entered")' /\ StateOf(s10, "cooling_down")'
  BY DEF BookInv, StateOf
<1> QED BY <1>1, <1>2, <1>3

LEMMA BookReconciled ==
    ASSUME BookInv, Candidates!ReconcileFails \/ Candidates!Reconcile PROVE BookInv'
<1>1. /\ s7 = "reconcile" /\ s7' = "candidates" /\ s8' = Pools
      /\ UNCHANGED <<s1, s2, s3, s10, s12, s13, s14>> /\ s11' \subseteq s11
  BY DEF Candidates!ReconcileFails, Candidates!Reconcile, Candidates!ghosts, Pools
<1>2. s3 \in [Sourced -> SUBSET Pools] /\ s6' \subseteq Pools
  BY DEF BookInv, BookTypes, Candidates!ReconcileFails, Candidates!Reconcile, Pools
<1>3. /\ BookTypes' /\ SavingInv' /\ ScansInv'
      /\ StateOf(s11, "entered")' /\ StateOf(s10, "cooling_down")'
  BY <1>1, <1>2, RecordsStay
<1>4. DecidedInv' /\ ScannedInv'
  BY <1>1, <1>2 DEF DecidedInv, ScannedInv, Sourced
<1> QED BY <1>3, <1>4 DEF BookInv

\* A record that only memory has yet.
LEMMA RecordHeld ==
    ASSUME BookInv, s7 # "boot", s7' # "boot", s13 = {}, NEW p \in Pools, NEW c \in Lifecycle,
           s1' = Candidates!Put(s1, p, c), s13' = {p}, UNCHANGED <<s2, s14>>,
           p \in DOMAIN s1, s3' \in [Sourced -> SUBSET Pools],
           s6' \subseteq Pools, s8' \subseteq Pools,
           s12' = s12 \/ (s12' = [s12 EXCEPT ![p] = 0] /\ (p \in DOMAIN s2 => ~Candidates!Watched(s2[p]))),
           Candidates!Watched(c) => c.scans = 0,
           s11' \subseteq s11 \cup {p}, s10' \subseteq s10 \cup {p},
           p \in s11' \ s14 => c.state = "entered",
           p \in s10' \ s14 => c.state = "cooling_down"
    PROVE  /\ BookTypes' /\ SavingInv' /\ ScansInv'
           /\ StateOf(s11, "entered")' /\ StateOf(s10, "cooling_down")'
<1>1. /\ s1 \in [DOMAIN s1 -> Lifecycle] /\ DOMAIN s1 \subseteq Pools
      /\ s2 \in [DOMAIN s2 -> Lifecycle] /\ DOMAIN s2 \subseteq Pools /\ s12 \in [Pools -> Nat]
  BY DEF BookInv, BookTypes
<1>2. /\ DOMAIN s1' = DOMAIN s1 /\ s1' \in [DOMAIN s1' -> Lifecycle] /\ s1'[p] = c
      /\ \A q \in DOMAIN s1 \ {p} : s1'[q] = s1[q]
  <2>1. s1' = [q \in DOMAIN s1 |-> IF q = p THEN c ELSE s1[q]]
    <3>1. DOMAIN s1 \cup {p} = DOMAIN s1
      OBVIOUS
    <3> QED BY <3>1 DEF Candidates!Put
  <2> QED BY <1>1, <2>1
<1>3. s12' \in [Pools -> Nat] /\ \A q \in Pools \ {p} : s12'[q] = s12[q]
  BY <1>1
<1>4. BookTypes'
  BY <1>1, <1>2, <1>3 DEF BookTypes
<1>5. SavingInv'
  BY <1>2 DEF BookInv, SavingInv
<1>6. ScansInv'
  <2>1. ASSUME NEW q \in DOMAIN s1', Candidates!Watched(s1'[q])
        PROVE  s1'[q].scans <= s12'[q]
    <3>1. CASE q = p
      BY <1>2, <1>3, <2>1, <3>1
    <3>2. CASE q # p
      BY <1>1, <1>2, <1>3, <2>1, <3>2 DEF BookInv, ScansInv
    <3> QED BY <3>1, <3>2
  <2>2. ASSUME NEW q \in DOMAIN s2, Candidates!Watched(s2[q]) PROVE s2[q].scans <= s12'[q]
    <3>1. s12'[q] = s12[q]
      BY <1>1, <1>3, <2>2
    <3> QED BY <2>2, <3>1 DEF BookInv, ScansInv
  <2> QED BY <2>1, <2>2 DEF ScansInv, Candidates!Watched
<1>7. StateOf(s11, "entered")'
  <2> SUFFICES ASSUME NEW q \in s11' \ s14
               PROVE  /\ q \in DOMAIN s1' /\ s1'[q].state = "entered"
                      /\ q # p => q \in DOMAIN s2 /\ s2[q].state = "entered"
    BY DEF StateOf
  <2>1. CASE q = p
    BY <1>2, <2>1
  <2>2. CASE q # p
    BY <1>2, <2>2 DEF BookInv, StateOf
  <2> QED BY <2>1, <2>2
<1>8. StateOf(s10, "cooling_down")'
  <2> SUFFICES ASSUME NEW q \in s10' \ s14
               PROVE  /\ q \in DOMAIN s1' /\ s1'[q].state = "cooling_down"
                      /\ q # p => q \in DOMAIN s2 /\ s2[q].state = "cooling_down"
    BY DEF StateOf
  <2>1. CASE q = p
    BY <1>2, <2>1
  <2>2. CASE q # p
    BY <1>2, <2>2 DEF BookInv, StateOf
  <2> QED BY <2>1, <2>2
<1> QED BY <1>4, <1>5, <1>6, <1>7, <1>8

\* A cooldown that has elapsed starts the record anew; nothing else changes one.
LEMMA ElapsedIs ==
    ASSUME BookInv, s7 # "boot", NEW p \in DOMAIN s1
    PROVE  LET c == Candidates!Elapsed(p) IN
           /\ c \in Lifecycle
           /\ \/ c = s1[p]
              \/ /\ s1[p].state = "cooling_down" /\ p \notin s10
                 /\ Candidates!Watched(c) /\ c.scans = 0 /\ c.state = "discovered"
           /\ p \in s11 \ s14 => c = s1[p] /\ c.state = "entered"
           /\ p \in s10 \ s14 => c = s1[p] /\ c.state = "cooling_down"
<1>1. s1[p] \in Lifecycle
  BY DEF BookInv, BookTypes
<1>2. /\ p \in s11 \ s14 => s1[p].state = "entered"
      /\ p \in s10 \ s14 => s1[p].state = "cooling_down"
  BY DEF BookInv, StateOf
<1> QED BY <1>1, <1>2 DEF Candidates!Elapsed, Candidates!CooldownElapsed, Lifecycle,
           Candidates!States, Candidates!Watched

LEMMA BookUnseen == ASSUME BookInv, Candidates!Unseen PROVE BookInv'
<1>1. PICK p \in s8 :
         /\ s8' = s8 \ {p}
         /\ IF p \in DOMAIN s1 /\ Candidates!Elapsed(p) # s1[p]
            THEN s1' = Candidates!Put(s1, p, Candidates!Elapsed(p)) /\ s13' = {p}
                 /\ s12' = [s12 EXCEPT ![p] = 0]
            ELSE UNCHANGED <<s1, s13, s12>>
         /\ s3' = [s3 EXCEPT !["auto"] = @ \ {p}]
  BY DEF Candidates!Unseen
<1>2. s7 = "candidates" /\ s13 = {} /\ UNCHANGED <<s2, s4, s6, s7, s10, s11, s14>>
  BY DEF Candidates!Unseen
<1>3. s3 \in [Sourced -> SUBSET Pools] /\ s8 \subseteq Pools /\ s6 \subseteq Pools
  BY DEF BookInv, BookTypes
<1>4. s3' \in [Sourced -> SUBSET Pools] /\ s3'["auto"] = s3["auto"] \ {p}
  BY <1>1, <1>3 DEF Sourced
<1>5. /\ BookTypes' /\ SavingInv' /\ ScansInv'
      /\ StateOf(s11, "entered")' /\ StateOf(s10, "cooling_down")'
  <2>1. CASE UNCHANGED <<s1, s13, s12>>
    BY <1>1, <1>2, <1>3, <1>4, <2>1, RecordsStay
  <2>2. CASE p \in DOMAIN s1 /\ Candidates!Elapsed(p) # s1[p]
    <3> DEFINE c == Candidates!Elapsed(p)
    <3>1. /\ c \in Lifecycle /\ s1[p].state = "cooling_down" /\ c.scans = 0
          /\ p \notin s11 \ s14 /\ p \notin s10
      BY <1>2, <2>2, ElapsedIs
    <3>2. p \in DOMAIN s2 => ~Candidates!Watched(s2[p])
      BY <1>2, <2>2, <3>1 DEF BookInv, SavingInv, Candidates!Watched
    <3>3. /\ s1' = Candidates!Put(s1, p, c) /\ s13' = {p} /\ s12' = [s12 EXCEPT ![p] = 0]
          /\ s8' \subseteq Pools /\ p \in Pools
      BY <1>1, <1>3, <2>2
    <3> HIDE DEF c
    <3> QED BY <1>2, <1>3, <1>4, <2>2, <3>1, <3>2, <3>3, RecordHeld
  <2> QED BY <1>1, <2>1, <2>2
<1>6. DecidedInv'
  <2> SUFFICES ASSUME NEW q \in s3["auto"], q # p, q \notin s8
               PROVE  /\ s12'[q] >= HealthyScans
                      /\ q \in DOMAIN s1' /\ s1'[q].state = "eligible"
    BY <1>1, <1>2, <1>4 DEF DecidedInv
  <2>1. s12[q] >= HealthyScans /\ q \in DOMAIN s1 /\ s1[q].state = "eligible"
    BY <1>2 DEF BookInv, DecidedInv
  <2>2. s12'[q] = s12[q] /\ q \in DOMAIN s1' /\ s1'[q] = s1[q]
    BY <1>1, <2>1 DEF BookInv, BookTypes, Candidates!Put
  <2> QED BY <2>1, <2>2
<1>7. ScannedInv'
  BY <1>2 DEF ScannedInv
<1> QED BY <1>5, <1>6, <1>7 DEF BookInv

LEMMA BookScanned == ASSUME BookInv, Candidates!ScanCandidate PROVE BookInv'
<1>1. PICK p \in s8, h \in Candidates!Facts, aged \in BOOLEAN :
         LET c == IF p \in DOMAIN s1 THEN Candidates!Elapsed(p) ELSE Candidates!New
             n == Candidates!Scanned(c, h, aged) IN
         /\ Candidates!Page(p) /\ s8' = s8 \ {p}
         /\ s2' = Candidates!Put(s2, p, n) /\ s1' = Candidates!Put(s1, p, n)
         /\ s3' = [s3 EXCEPT !["ever"] = @ \cup {p},
                     !["auto"] = IF n.state = "eligible" THEN @ \cup {p} ELSE @ \ {p}]
         /\ s4' = IF n.state = "eligible" THEN s4 \cup {p} ELSE s4
         /\ s12' = [s12 EXCEPT ![p] = IF ~Candidates!Watched(c) THEN @
                       ELSE IF ~Candidates!Healthy(h) THEN 0
                       ELSE Candidates!Capped((IF c.scans = 0 THEN 0 ELSE @) + 1)]
  BY Zenon DEF Candidates!ScanCandidate
<1> DEFINE c == IF p \in DOMAIN s1 THEN Candidates!Elapsed(p) ELSE Candidates!New
           n == Candidates!Scanned(c, h, aged)
<1>2. s7 = "candidates" /\ s13 = {} /\ UNCHANGED <<s6, s7, s10, s11, s13, s14>>
  BY DEF Candidates!ScanCandidate
<1>3. /\ s3 \in [Sourced -> SUBSET Pools] /\ s8 \subseteq Pools /\ s6 \subseteq Pools /\ p \in Pools
      /\ s1 \in [DOMAIN s1 -> Lifecycle] /\ DOMAIN s1 \subseteq Pools
      /\ s2 \in [DOMAIN s2 -> Lifecycle] /\ DOMAIN s2 \subseteq Pools /\ s12 \in [Pools -> Nat]
  BY <1>1 DEF BookInv, BookTypes
<1>4. /\ c \in Lifecycle
      /\ Candidates!Watched(c) => c.scans = 0 \/ c.scans <= s12[p]
      /\ p \in s11 \ s14 => c.state = "entered"
      /\ p \in s10 \ s14 => c.state = "cooling_down"
  <2>1. CASE p \in DOMAIN s1
    <3>1. s1[p] \in Lifecycle /\ (Candidates!Watched(s1[p]) => s1[p].scans <= s12[p])
      BY <1>3, <2>1 DEF BookInv, ScansInv
    <3> QED BY <1>2, <2>1, <3>1, ElapsedIs
  <2>2. CASE p \notin DOMAIN s1
    <3>1. p \notin s11 \ s14 /\ p \notin s10 \ s14
      BY <1>2, <2>2 DEF BookInv, StateOf
    <3> QED BY <2>2, <3>1 DEF Candidates!New, Lifecycle, Candidates!States
  <2> QED BY <2>1, <2>2
<1> HIDE DEF c
<1>5. /\ n \in Lifecycle
      /\ ~Candidates!Watched(c) => n.state = c.state
      /\ Candidates!Watched(c) /\ ~Candidates!Healthy(h) => n.scans = 0 /\ n.state = "observing"
      /\ Candidates!Watched(c) /\ Candidates!Healthy(h) =>
            /\ n.scans = Candidates!Capped(c.scans + 1)
            /\ n.state = "eligible" => n.scans >= HealthyScans
  BY <1>4, ScannedIs
<1> HIDE DEF n
<1> DEFINE run == IF ~Candidates!Watched(c) THEN s12[p]
                  ELSE IF ~Candidates!Healthy(h) THEN 0
                  ELSE Candidates!Capped((IF c.scans = 0 THEN 0 ELSE s12[p]) + 1)
<1>6. /\ run \in Nat /\ (Candidates!Watched(n) => n.scans <= run)
      /\ n.state = "eligible" => run >= HealthyScans
  <2>1. c.scans \in Nat /\ s12[p] \in Nat /\ HealthyScans \in Nat
    BY <1>3, <1>4, RecordsAssumption DEF Lifecycle, CandidatesAssumption
  <2>2. CASE ~Candidates!Watched(c)
    <3>1. ~Candidates!Watched(n) /\ n.state # "eligible"
      BY <1>4, <1>5, <2>2 DEF Candidates!Watched
    <3> QED BY <2>1, <2>2, <3>1
  <2>3. CASE Candidates!Watched(c) /\ ~Candidates!Healthy(h)
    BY <1>5, <2>1, <2>3
  <2>4. CASE Candidates!Watched(c) /\ Candidates!Healthy(h)
    <3> DEFINE m == IF c.scans = 0 THEN 0 ELSE s12[p]
    <3>1. m \in Nat /\ c.scans <= m
      BY <1>4, <2>1, <2>4
    <3>2. run = Candidates!Capped(m + 1)
      BY <2>4
    <3>3. /\ Candidates!Capped(m + 1) \in Nat
          /\ Candidates!Capped(c.scans + 1) <= Candidates!Capped(m + 1)
          /\ Candidates!Capped(c.scans + 1) >= HealthyScans => Candidates!Capped(m + 1) >= HealthyScans
      BY <2>1, <3>1 DEF Candidates!Capped
    <3> HIDE DEF m, run
    <3> QED BY <1>5, <2>4, <3>2, <3>3
  <2> QED BY <2>2, <2>3, <2>4
<1>7. s12' = [s12 EXCEPT ![p] = run]
  BY <1>1, <1>3 DEF c, n
<1> HIDE DEF run
<1>8. /\ s1' = Candidates!Put(s1, p, n) /\ s2' = Candidates!Put(s2, p, n) /\ s8' = s8 \ {p}
      /\ s3' = [s3 EXCEPT !["ever"] = @ \cup {p},
                  !["auto"] = IF n.state = "eligible" THEN @ \cup {p} ELSE @ \ {p}]
  BY <1>1 DEF c, n
<1>9. /\ DOMAIN s1' = DOMAIN s1 \cup {p} /\ s1' \in [DOMAIN s1' -> Lifecycle] /\ s1'[p] = n
      /\ \A q \in DOMAIN s1 : q # p => s1'[q] = s1[q]
  BY <1>3, <1>5, <1>8 DEF Candidates!Put
<1>10. /\ DOMAIN s2' = DOMAIN s2 \cup {p} /\ s2' \in [DOMAIN s2' -> Lifecycle] /\ s2'[p] = n
       /\ \A q \in DOMAIN s2 : q # p => s2'[q] = s2[q]
  BY <1>3, <1>5, <1>8 DEF Candidates!Put
<1>11. /\ s12' \in [Pools -> Nat] /\ s12'[p] = run
       /\ \A q \in Pools \ {p} : s12'[q] = s12[q]
  BY <1>3, <1>6, <1>7
<1>12. /\ s3' \in [Sourced -> SUBSET Pools]
       /\ s3'["auto"] = IF n.state = "eligible" THEN s3["auto"] \cup {p} ELSE s3["auto"] \ {p}
  BY <1>3, <1>8 DEF Sourced
<1>13. BookTypes'
  BY <1>2, <1>3, <1>8, <1>9, <1>10, <1>11, <1>12 DEF BookTypes
<1>14. SavingInv'
  <2> SUFFICES ASSUME NEW q \in DOMAIN s1' PROVE q \in DOMAIN s2' /\ s2'[q] = s1'[q]
    BY <1>2 DEF SavingInv
  <2>1. CASE q = p
    BY <1>9, <1>10, <2>1
  <2>2. CASE q # p
    <3>1. q \in DOMAIN s1 /\ q \in DOMAIN s2 /\ s2[q] = s1[q]
      BY <1>2, <1>9, <2>2 DEF BookInv, SavingInv
    <3> QED BY <1>9, <1>10, <2>2, <3>1
  <2> QED BY <2>1, <2>2
<1>15. ScansInv'
  <2>1. ASSUME NEW q \in DOMAIN s1', Candidates!Watched(s1'[q]) PROVE s1'[q].scans <= s12'[q]
    <3>1. CASE q = p
      BY <1>6, <1>9, <1>11, <2>1, <3>1
    <3>2. CASE q # p
      <4>1. q \in DOMAIN s1 /\ q \in Pools /\ s1'[q] = s1[q] /\ s12'[q] = s12[q]
        BY <1>3, <1>9, <1>11, <3>2
      <4> QED BY <2>1, <4>1 DEF BookInv, ScansInv
    <3> QED BY <3>1, <3>2
  <2>2. ASSUME NEW q \in DOMAIN s2', Candidates!Watched(s2'[q]) PROVE s2'[q].scans <= s12'[q]
    <3>1. CASE q = p
      BY <1>6, <1>10, <1>11, <2>2, <3>1
    <3>2. CASE q # p
      <4>1. q \in DOMAIN s2 /\ q \in Pools /\ s2'[q] = s2[q] /\ s12'[q] = s12[q]
        BY <1>3, <1>10, <1>11, <3>2
      <4> QED BY <2>2, <4>1 DEF BookInv, ScansInv
    <3> QED BY <3>1, <3>2
  <2> QED BY <2>1, <2>2 DEF ScansInv, Candidates!Watched
<1>16. DecidedInv'
  <2> SUFFICES ASSUME NEW q \in s3'["auto"], q \notin s8'
               PROVE  /\ s12'[q] >= HealthyScans
                      /\ q \in DOMAIN s1' /\ s1'[q].state = "eligible"
    BY <1>2 DEF DecidedInv
  <2>1. CASE q = p
    <3>1. n.state = "eligible"
      BY <1>12, <2>1
    <3> QED BY <1>6, <1>9, <1>11, <2>1, <3>1
  <2>2. CASE q # p
    <3>1. q \in s3["auto"] /\ q \notin s8 /\ q \in Pools
      BY <1>3, <1>8, <1>12, <2>2 DEF Sourced
    <3>2. s12[q] >= HealthyScans /\ q \in DOMAIN s1 /\ s1[q].state = "eligible"
      BY <1>2, <3>1 DEF BookInv, DecidedInv
    <3> QED BY <1>9, <1>11, <2>2, <3>1, <3>2
  <2> QED BY <2>1, <2>2
<1>17. ASSUME NEW P, NEW state, StateOf(P, state), p \in P \ s14 => n.state = state
       PROVE  \A q \in P \ s14 : /\ q \in DOMAIN s1' /\ s1'[q].state = state
                                  /\ q \in DOMAIN s2' /\ s2'[q].state = state
  <2> SUFFICES ASSUME NEW q \in P \ s14
               PROVE  /\ q \in DOMAIN s1' /\ s1'[q].state = state
                      /\ q \in DOMAIN s2' /\ s2'[q].state = state
    OBVIOUS
  <2>1. CASE q = p
    BY <1>9, <1>10, <1>17, <2>1
  <2>2. CASE q # p
    <3>1. /\ q \in DOMAIN s1 /\ s1[q].state = state /\ q \in DOMAIN s2 /\ s2[q].state = state
      BY <1>2, <1>17 DEF StateOf
    <3> QED BY <1>9, <1>10, <2>2, <3>1
  <2> QED BY <2>1, <2>2
<1>18. /\ p \in s11 \ s14 => n.state = "entered"
       /\ p \in s10 \ s14 => n.state = "cooling_down"
  BY <1>4, <1>5 DEF Candidates!Watched
<1>19. StateOf(s11, "entered") /\ StateOf(s10, "cooling_down")
  BY DEF BookInv
<1>20. StateOf(s11, "entered")' /\ StateOf(s10, "cooling_down")'
  <2>1. \A q \in s11 \ s14 : /\ q \in DOMAIN s1' /\ s1'[q].state = "entered"
                              /\ q \in DOMAIN s2' /\ s2'[q].state = "entered"
    BY <1>17, <1>18, <1>19
  <2>2. \A q \in s10 \ s14 : /\ q \in DOMAIN s1' /\ s1'[q].state = "cooling_down"
                              /\ q \in DOMAIN s2' /\ s2'[q].state = "cooling_down"
    BY <1>17, <1>18, <1>19
  <2> QED BY <1>2, <2>1, <2>2 DEF StateOf
<1>21. ScannedInv'
  BY <1>2 DEF ScannedInv
<1> QED BY <1>13, <1>14, <1>15, <1>16, <1>20, <1>21 DEF BookInv

\* What the sources name is a pool.
LEMMA SourcesArePools ==
    ASSUME NEW b \in [Sourced -> SUBSET Pools], NEW held \in SUBSET Pools
    PROVE  Candidates!Rebuilt(b, held) \subseteq Pools
BY DEF Candidates!Rebuilt, Candidates!Sources, Sourced, Pools, Candidates!Pool

LEMMA BooksRefreshed == ASSUME BookInv, FoundInv, Candidates!RefreshBooks PROVE BookInv'
<1>1. PICK D \in SUBSET Shown, harvest \in SUBSET Pools, again \in BOOLEAN :
         /\ harvest \in {s3["harvest"], {}, {d.pool : d \in D}}
         /\ s3' = [s3 EXCEPT
               !["market"] = IF again /\ D # {} THEN {d.pool : d \in Candidates!Ranked(D)} ELSE s3["market"],
               !["angels"] = IF s9 = {} THEN s3["angels"]
                             ELSE {d.pool : d \in {e \in s9 : Candidates!Qualifies(e)}},
               !["harvest"] = harvest]
  BY DEF Candidates!RefreshBooks, Pools
<1>2. /\ s7 = "books" /\ s7' = "loop" /\ s4' = Candidates!Rebuilt(s3', s6) /\ s8' = s4'
      /\ UNCHANGED <<s1, s2, s6, s10, s11, s12, s13, s14>>
  BY DEF Candidates!RefreshBooks, Candidates!ghosts
<1>3. s3 \in [Sourced -> SUBSET Pools] /\ s6 \subseteq Pools /\ s9 \subseteq Shown
  BY DEF BookInv, BookTypes, FoundInv
<1>4. \A S \in SUBSET Shown : {d.pool : d \in S} \subseteq Pools
  BY DEF Pools, Candidates!Pool
<1>5. s3' \in [Sourced -> SUBSET Pools] /\ s3'["auto"] = s3["auto"]
  <2>1. Candidates!Ranked(D) \subseteq Shown /\ {e \in s9 : Candidates!Qualifies(e)} \subseteq Shown
    BY <1>3 DEF Candidates!Ranked
  <2> DEFINE market == IF again /\ D # {} THEN {d.pool : d \in Candidates!Ranked(D)} ELSE s3["market"]
             angels == IF s9 = {} THEN s3["angels"]
                       ELSE {d.pool : d \in {e \in s9 : Candidates!Qualifies(e)}}
  <2>2. market \in SUBSET Pools /\ angels \in SUBSET Pools
    <3>1. s3["market"] \in SUBSET Pools /\ s3["angels"] \in SUBSET Pools
      BY <1>3 DEF Sourced
    <3>2. {d.pool : d \in Candidates!Ranked(D)} \subseteq Pools
      BY <1>4, <2>1
    <3>3. {d.pool : d \in {e \in s9 : Candidates!Qualifies(e)}} \subseteq Pools
      BY <1>4, <2>1
    <3> QED BY <3>1, <3>2, <3>3
  <2>3. s3' = [s3 EXCEPT !["market"] = market, !["angels"] = angels, !["harvest"] = harvest]
    BY <1>1
  <2> HIDE DEF market, angels
  <2> QED BY <1>3, <2>2, <2>3 DEF Sourced
<1>6. s8' \subseteq Pools /\ s6 \subseteq s4'
  BY <1>2, <1>3, <1>5, SourcesArePools DEF Candidates!Rebuilt
<1>7. /\ BookTypes' /\ SavingInv' /\ ScansInv'
      /\ StateOf(s11, "entered")' /\ StateOf(s10, "cooling_down")'
  BY <1>2, <1>3, <1>5, <1>6, RecordsStay
<1>8. DecidedInv'
  BY <1>2, <1>5 DEF BookInv, DecidedInv
<1>9. ScannedInv'
  BY <1>2, <1>6 DEF ScannedInv
<1> QED BY <1>7, <1>8, <1>9 DEF BookInv

LEMMA BookEntered == ASSUME BookInv, Candidates!Enter PROVE BookInv'
<1>1. PICK p \in s8 :
         /\ s8' = s8 \ {p} /\ s6' = s6 \cup {p}
         /\ s11' = IF Candidates!Solely(p) THEN s11 \cup {p} ELSE s11
         /\ IF p \in DOMAIN s1 /\ s1[p].state = "eligible"
            THEN s1' = Candidates!Put(s1, p, Candidates!EntryConfirmed(s1[p])) /\ s13' = {p}
            ELSE UNCHANGED <<s1, s13>>
  BY DEF Candidates!Enter
<1>2. s7 = "loop" /\ s13 = {} /\ UNCHANGED <<s2, s3, s4, s7, s10, s12, s14>>
  BY DEF Candidates!Enter
<1>3. /\ s3 \in [Sourced -> SUBSET Pools] /\ s8 \subseteq Pools /\ s6 \subseteq Pools
      /\ s1 \in [DOMAIN s1 -> Lifecycle]
  BY DEF BookInv, BookTypes
<1>4. s6' \subseteq Pools /\ s8' \subseteq Pools /\ p \in Pools
  BY <1>1, <1>3
<1>5. /\ BookTypes' /\ SavingInv' /\ ScansInv'
      /\ StateOf(s11, "entered")' /\ StateOf(s10, "cooling_down")'
  <2>1. CASE p \in DOMAIN s1 /\ s1[p].state = "eligible"
    <3> DEFINE c == Candidates!EntryConfirmed(s1[p])
    <3>1. c \in Lifecycle /\ c.state = "entered" /\ ~Candidates!Watched(c)
      BY <1>3, <2>1 DEF Candidates!EntryConfirmed, Lifecycle, Candidates!States, Candidates!Watched
    <3>2. p \notin s10 \ s14
      BY <1>2, <2>1 DEF BookInv, StateOf
    <3>3. s1' = Candidates!Put(s1, p, c) /\ s13' = {p} /\ s11' \subseteq s11 \cup {p}
      BY <1>1, <2>1
    <3> HIDE DEF c
    <3> QED BY <1>2, <1>3, <1>4, <2>1, <3>1, <3>2, <3>3, RecordHeld
  <2>2. CASE ~(p \in DOMAIN s1 /\ s1[p].state = "eligible")
    <3>1. ~Candidates!Solely(p)
      BY <1>2, <2>2 DEF BookInv, DecidedInv, Candidates!Solely
    <3> QED BY <1>1, <1>2, <1>3, <1>4, <2>2, <3>1, RecordsStay
  <2> QED BY <2>1, <2>2
<1>6. DecidedInv'
  <2> SUFFICES ASSUME NEW q \in s3["auto"]
               PROVE  /\ s12[q] >= HealthyScans
                      /\ q \in s8' => q \in DOMAIN s1' /\ s1'[q].state = "eligible"
    BY <1>2 DEF DecidedInv
  <2>1. s12[q] >= HealthyScans /\ (q \in s8 => q \in DOMAIN s1 /\ s1[q].state = "eligible")
    BY <1>2 DEF BookInv, DecidedInv
  <2>2. q \in DOMAIN s1 /\ q # p => q \in DOMAIN s1' /\ s1'[q] = s1[q]
    BY <1>1 DEF Candidates!Put
  <2> QED BY <1>1, <2>1, <2>2
<1>7. ScannedInv'
  BY <1>1, <1>2 DEF BookInv, ScannedInv
<1> QED BY <1>5, <1>6, <1>7 DEF BookInv

LEMMA BookLeft == ASSUME BookInv, Candidates!Exit PROVE BookInv'
<1>1. PICK p \in s8 \cap s6 :
         /\ s8' = s8 \ {p} /\ s6' = s6 \ {p} /\ s11' = s11 \ {p}
         /\ s10' = IF p \in s11 THEN s10 \cup {p} ELSE s10
         /\ IF p \in DOMAIN s1 /\ s1[p].state = "entered"
            THEN s1' = Candidates!Put(s1, p, Candidates!CooldownStarted(s1[p])) /\ s13' = {p}
            ELSE UNCHANGED <<s1, s13>>
  BY DEF Candidates!Exit
<1>2. s7 = "loop" /\ s13 = {} /\ UNCHANGED <<s2, s3, s4, s7, s12, s14>>
  BY DEF Candidates!Exit
<1>3. /\ s3 \in [Sourced -> SUBSET Pools] /\ s8 \subseteq Pools /\ s6 \subseteq Pools
      /\ s1 \in [DOMAIN s1 -> Lifecycle]
  BY DEF BookInv, BookTypes
<1>4. s6' \subseteq Pools /\ s8' \subseteq Pools /\ p \in Pools
  BY <1>1, <1>3
<1>5. /\ BookTypes' /\ SavingInv' /\ ScansInv'
      /\ StateOf(s11, "entered")' /\ StateOf(s10, "cooling_down")'
  <2>1. CASE p \in DOMAIN s1 /\ s1[p].state = "entered"
    <3> DEFINE c == Candidates!CooldownStarted(s1[p])
    <3>1. c \in Lifecycle /\ c.state = "cooling_down" /\ ~Candidates!Watched(c)
      BY <1>3, <2>1 DEF Candidates!CooldownStarted, Lifecycle, Candidates!States, Candidates!Watched
    <3>2. s1' = Candidates!Put(s1, p, c) /\ s13' = {p} /\ s10' \subseteq s10 \cup {p}
          /\ s11' \subseteq s11 \cup {p} /\ p \notin s11' \ s14
      BY <1>1, <2>1
    <3> HIDE DEF c
    <3> QED BY <1>2, <1>3, <1>4, <2>1, <3>1, <3>2, RecordHeld
  <2>2. CASE ~(p \in DOMAIN s1 /\ s1[p].state = "entered")
    <3>1. p \notin s11 \ s14
      BY <1>2, <2>2 DEF BookInv, StateOf
    <3>2. s11' \ s14 \subseteq s11 /\ s10' \ s14 \subseteq s10 /\ UNCHANGED <<s1, s13>>
      BY <1>1, <2>2, <3>1
    <3> QED BY <1>2, <1>3, <1>4, <3>2, RecordsStay
  <2> QED BY <2>1, <2>2
<1>6. DecidedInv'
  <2> SUFFICES ASSUME NEW q \in s3["auto"]
               PROVE  /\ s12[q] >= HealthyScans
                      /\ q \in s8' => q \in DOMAIN s1' /\ s1'[q].state = "eligible"
    BY <1>2 DEF DecidedInv
  <2>1. s12[q] >= HealthyScans /\ (q \in s8 => q \in DOMAIN s1 /\ s1[q].state = "eligible")
    BY <1>2 DEF BookInv, DecidedInv
  <2>2. q \in DOMAIN s1 /\ q # p => q \in DOMAIN s1' /\ s1'[q] = s1[q]
    BY <1>1 DEF Candidates!Put
  <2> QED BY <1>1, <2>1, <2>2
<1>7. ScannedInv'
  BY <1>1, <1>2 DEF BookInv, ScannedInv
<1> QED BY <1>5, <1>6, <1>7 DEF BookInv

LEMMA BookSaved == ASSUME BookInv, Candidates!Saved PROVE BookInv'
<1>1. PICK p \in s13 : s2' = Candidates!Put(s2, p, s1[p])
  BY DEF Candidates!Saved
<1>2. s13' = {} /\ UNCHANGED <<s1, s3, s4, s6, s7, s8, s10, s11, s12, s14>>
  BY DEF Candidates!Saved, Candidates!ghosts
<1>3. /\ s7 # "boot" /\ p \in DOMAIN s1 /\ s13 = {p}
      /\ s1 \in [DOMAIN s1 -> Lifecycle] /\ DOMAIN s1 \subseteq Pools
      /\ s2 \in [DOMAIN s2 -> Lifecycle] /\ DOMAIN s2 \subseteq Pools
  BY DEF BookInv, SavingInv, BookTypes
<1>4. /\ DOMAIN s2' = DOMAIN s2 \cup {p} /\ s2' \in [DOMAIN s2' -> Lifecycle] /\ s2'[p] = s1[p]
      /\ \A q \in DOMAIN s2 : q # p => s2'[q] = s2[q]
  BY <1>1, <1>3 DEF Candidates!Put
<1>5. BookTypes'
  BY <1>2, <1>3, <1>4 DEF BookInv, BookTypes
<1>6. SavingInv'
  BY <1>2, <1>3, <1>4 DEF BookInv, SavingInv
<1>7. ScansInv'
  BY <1>2, <1>3, <1>4 DEF BookInv, ScansInv, Candidates!Watched
<1>8. StateOf(s11, "entered")'
  BY <1>2, <1>3, <1>4 DEF BookInv, StateOf
<1>9. StateOf(s10, "cooling_down")'
  BY <1>2, <1>3, <1>4 DEF BookInv, StateOf
<1>10. DecidedInv' /\ ScannedInv'
  BY <1>2 DEF BookInv, DecidedInv, ScannedInv
<1> QED BY <1>5, <1>6, <1>7, <1>8, <1>9, <1>10 DEF BookInv

LEMMA BookRestarted == ASSUME BookInv, Candidates!Restart \/ Candidates!Boot PROVE BookInv'
<1>1. CASE Candidates!Restart
  <2>1. /\ s7' = "boot" /\ s1' = <<>> /\ s3' = Candidates!NoBook /\ s8' = {} /\ s13' = {}
        /\ s14' = s14 \cup s13 /\ UNCHANGED <<s2, s6, s10, s11, s12>>
    BY <1>1 DEF Candidates!Restart
  <2>2. BookTypes'
    BY <2>1 DEF BookInv, BookTypes, Candidates!NoBook, Sourced
  <2>3. SavingInv' /\ ScansInv' /\ DecidedInv' /\ ScannedInv'
    BY <2>1 DEF BookInv, SavingInv, ScansInv, DecidedInv, ScannedInv
  <2>4. StateOf(s11, "entered")' /\ StateOf(s10, "cooling_down")'
    BY <2>1 DEF BookInv, StateOf
  <2> QED BY <2>2, <2>3, <2>4 DEF BookInv
<1>2. CASE Candidates!Boot
  <2>1. /\ s7 = "boot" /\ s7' = "reconcile" /\ s13 = {} /\ s1' = s2
        /\ s3' = [Candidates!NoBook EXCEPT !["auto"] = DOMAIN s2, !["ever"] = DOMAIN s2]
        /\ UNCHANGED <<s2, s4, s6, s8, s10, s11, s12, s13, s14>>
    BY <1>2 DEF Candidates!Boot, Candidates!ghosts
  <2>2. BookTypes'
    BY <2>1 DEF BookInv, BookTypes, Candidates!NoBook, Sourced
  <2>3. SavingInv' /\ ScansInv' /\ DecidedInv' /\ ScannedInv'
    BY <2>1 DEF BookInv, SavingInv, ScansInv, DecidedInv, ScannedInv
  <2>4. StateOf(s11, "entered")' /\ StateOf(s10, "cooling_down")'
    BY <2>1 DEF BookInv, StateOf
  <2> QED BY <2>2, <2>3, <2>4 DEF BookInv
<1> QED BY <1>1, <1>2

\* The steps that write no record.
LEMMA BookGoesOn ==
    ASSUME BookInv, Candidates!CandidatesDone \/ Candidates!Hold \/ Candidates!EndCycle
                       \/ Candidates!CooldownPasses
    PROVE  BookInv'
<1> USE DEF Candidates!CandidatesDone, Candidates!Hold, Candidates!EndCycle,
            Candidates!CooldownPasses, Candidates!ghosts
<1>1. /\ UNCHANGED <<s1, s2, s3, s4, s6, s11, s12, s13, s14>> /\ s8' \subseteq s8
      /\ s10' \subseteq s10 /\ s7 # "boot" /\ s7' # "boot"
      /\ s7' \in {s7, "reconcile"} \/ (s7 = "candidates" /\ s7' = "books" /\ s8 = {})
      /\ s7 = "candidates" /\ s7' = s7 => s8' = s8
  OBVIOUS
<1>2. /\ BookTypes' /\ SavingInv' /\ ScansInv'
      /\ StateOf(s11, "entered")' /\ StateOf(s10, "cooling_down")'
  BY <1>1, RecordsStay DEF BookInv, BookTypes
<1>3. DecidedInv'
  BY <1>1 DEF BookInv, DecidedInv
<1>4. ScannedInv'
  BY <1>1 DEF BookInv, ScannedInv
<1> QED BY <1>2, <1>3, <1>4 DEF BookInv

LEMMA BookListed == ASSUME FoundInv, Candidates!Next PROVE FoundInv'
BY DEF FoundInv, Candidates!Next, Candidates!Boot, Candidates!ReconcileFails, Candidates!Reconcile,
   Candidates!Unseen, Candidates!ScanCandidate, Candidates!CandidatesDone, Candidates!RefreshBooks,
   Candidates!Enter, Candidates!Exit, Candidates!Hold, Candidates!EndCycle, Candidates!Saved,
   Candidates!CooldownPasses, Candidates!Restart

LEMMA CandidatesNext ==
    ASSUME CandidatesInv,
           [Candidates!Next]_<<s1, s2, s3, s4, s5, s6, s7, s8, s9, s10, s11, s12, s13, s14, s15>>
    PROVE  CandidatesInv'
<1>1. CASE Candidates!Next
  <2>1. BookInv'
    BY <1>1, BookReconciled, BookUnseen, BookScanned, BooksRefreshed, BookEntered, BookLeft,
       BookSaved, BookRestarted, BookGoesOn DEF Candidates!Next, CandidatesInv
  <2> QED BY <1>1, <2>1, BookListed DEF CandidatesInv
<1>2. CASE UNCHANGED <<s1, s2, s3, s4, s5, s6, s7, s8, s9, s10, s11, s12, s13, s14, s15>>
  BY <1>2 DEF CandidatesInv, FoundInv, BookInv, BookTypes, SavingInv, ScansInv, DecidedInv,
              ScannedInv, StateOf
<1> QED BY <1>1, <1>2

-----------------------------------------------------------------------------
(* Sums                                                                    *)

\* A set of naturals has a least element, a set of subsets of a finite set a smallest one.
LEMMA LeastNatural ==
    ASSUME NEW T \in SUBSET Nat, T # {} PROVE \E x \in T : \A y \in T : x <= y
<1>1. PICK x \in T : \A y \in T : ~(<<y, x>> \in OpToRel(<, Nat))
  BY NatLessThanWellFounded, WFMin
<1>2. ASSUME NEW y \in T PROVE ~(y < x)
  BY <1>1 DEF OpToRel
<1> QED BY <1>2

LEMMA SmallestSubset ==
    ASSUME NEW S, IsFiniteSet(S), NEW T \in SUBSET SUBSET S, T # {}
    PROVE  \E x \in T : \A y \in T : y \subseteq x => y = x
<1>1. IsWellFoundedOn(StrictSubsetOrdering(S), SUBSET S)
  BY FS_StrictSubsetOrderingWellFounded, FS_FiniteSubsetsOfFinite
<1>2. PICK x \in T : \A y \in T : ~(<<y, x>> \in StrictSubsetOrdering(S))
  BY <1>1, WFMin
<1>3. ASSUME NEW y \in T, y \subseteq x PROVE y = x
  BY <1>2, <1>3 DEF StrictSubsetOrdering
<1> QED BY <1>3

Any(s) == CHOOSE x \in s : TRUE

\* The sums over the subsets of a function's domain: how the fold defines them.
Sums(f, D, g) == g = [s \in D |-> IF s = {} THEN 0 ELSE f[Any(s)] + g[s \ {Any(s)}]]
SumsOf(f) == CHOOSE g : Sums(f, SUBSET DOMAIN f, g)

LEMMA TotalIs ==
    ASSUME NEW paper, NEW cycles, NEW f
    PROVE  Sizes(paper, cycles)!Total(f) = SumsOf(f)[DOMAIN f]
BY DEF Sizes!Total, Sizes!FoldFunction, Sizes!FoldFunctionOnSet, Sizes!MapThenFoldSet,
       Sums, SumsOf, Any

\* They exist: for the subsets of at most n elements, for every n.
UpTo(S, n) == {s \in SUBSET S : Cardinality(s) <= n}

LEMMA SumsUpTo ==
    ASSUME NEW f, IsFiniteSet(DOMAIN f), NEW n \in Nat
    PROVE  \E g : Sums(f, UpTo(DOMAIN f, n), g)
<1> DEFINE S == DOMAIN f
           Bad == {k \in Nat : ~\E g : Sums(f, UpTo(S, k), g)}
<1>1. \A s \in SUBSET S : IsFiniteSet(s) /\ Cardinality(s) \in Nat
  BY FS_Subset, FS_CardinalityType
<1>2. 0 \notin Bad
  <2>1. UpTo(S, 0) = {{}}
    BY <1>1, FS_EmptySet DEF UpTo
  <2> DEFINE g == [s \in {{}} |-> 0]
  <2>2. Sums(f, UpTo(S, 0), g)
    BY <2>1 DEF Sums
  <2> QED BY <2>2
<1>3. ASSUME NEW k \in Nat, k + 1 \in Bad PROVE k \in Bad
  <2> SUFFICES ASSUME NEW g, Sums(f, UpTo(S, k), g) PROVE FALSE
    BY DEF Bad
  <2> DEFINE h == [s \in UpTo(S, k + 1) |-> IF s = {} THEN 0 ELSE f[Any(s)] + g[s \ {Any(s)}]]
  <2>1. \A s \in UpTo(S, k) : s \in UpTo(S, k + 1) /\ g[s] = h[s]
    <3>1. ASSUME NEW s \in UpTo(S, k) PROVE s \in UpTo(S, k + 1)
      BY <1>1 DEF UpTo
    <3> QED BY <3>1 DEF Sums
  <2>2. ASSUME NEW s \in UpTo(S, k + 1), s # {} PROVE s \ {Any(s)} \in UpTo(S, k)
    <3>1. Any(s) \in s
      BY <2>2 DEF Any
    <3>2. Cardinality(s \ {Any(s)}) = Cardinality(s) - 1
      BY <1>1, <3>1, FS_RemoveElement DEF UpTo
    <3> QED BY <1>1, <3>2 DEF UpTo
  <2>3. Sums(f, UpTo(S, k + 1), h)
    BY <2>1, <2>2 DEF Sums
  <2> QED BY <1>3, <2>3
<1>4. Bad = {}
  <2> SUFFICES ASSUME Bad # {} PROVE FALSE
    OBVIOUS
  <2>1. PICK k \in Bad : \A j \in Bad : k <= j
    BY LeastNatural
  <2>2. k \in Nat /\ k # 0
    BY <1>2
  <2>3. k - 1 \in Nat /\ k - 1 \in Bad
    BY <1>3, <2>2
  <2> QED BY <2>1, <2>2, <2>3
<1> QED BY <1>4

LEMMA SumsAre ==
    ASSUME NEW f, IsFiniteSet(DOMAIN f)
    PROVE  /\ SumsOf(f)[{}] = 0
           /\ \A s \in SUBSET DOMAIN f :
                 s # {} => /\ Any(s) \in s
                           /\ SumsOf(f)[s] = f[Any(s)] + SumsOf(f)[s \ {Any(s)}]
<1> DEFINE S == DOMAIN f
<1>1. Cardinality(S) \in Nat /\ UpTo(S, Cardinality(S)) = SUBSET S
  BY FS_Subset, FS_CardinalityType DEF UpTo
<1>2. \E g : Sums(f, SUBSET S, g)
  <2>1. \E g : Sums(f, UpTo(S, Cardinality(S)), g)
    BY <1>1, SumsUpTo
  <2> QED BY <1>1, <2>1
<1>3. Sums(f, SUBSET S, SumsOf(f))
  BY <1>2 DEF SumsOf
<1> QED BY <1>3 DEF Sums, Any

\* A sum of naturals is one; of zeros, zero; and one number changed in it changes it so.
LEMMA TotalOfNaturals ==
    ASSUME NEW paper, NEW cycles, NEW S, IsFiniteSet(S), NEW f \in [S -> Nat]
    PROVE  /\ Sizes(paper, cycles)!Total(f) \in Nat
           /\ (\A p \in S : f[p] = 0) => Sizes(paper, cycles)!Total(f) = 0
<1> DEFINE G == SumsOf(f)
           Agree(s) == G[s] \in Nat /\ ((\A p \in S : f[p] = 0) => G[s] = 0)
           Bad == {s \in SUBSET S : ~Agree(s)}
<1>1. /\ G[{}] = 0
      /\ \A s \in SUBSET S : s # {} => Any(s) \in s /\ G[s] = f[Any(s)] + G[s \ {Any(s)}]
  BY SumsAre
<1> HIDE DEF G
<1> HIDE DEF Bad
<1>2. Bad = {}
  <2> SUFFICES ASSUME Bad # {} PROVE FALSE
    OBVIOUS
  <2>0. Bad \in SUBSET SUBSET S
    BY DEF Bad
  <2>s. PICK s \in Bad : \A t \in Bad : t \subseteq s => t = s
    BY <2>0, SmallestSubset
  <2>a. s \in SUBSET S /\ ~Agree(s) /\ \A t \in SUBSET s : t # s => Agree(t)
    BY <2>0, <2>s DEF Bad
  <2>e. G[{}] = 0
    BY <1>1
  <2>z. Agree({})
    BY <2>e
  <2>1. s # {}
    BY <2>a, <2>z, Zenon
  <2> DEFINE a == Any(s)
  <2>2. a \in s /\ a \in S /\ G[s] = f[a] + G[s \ {a}]
    BY <1>1, <2>1, <2>a
  <2> HIDE DEF a
  <2>3. Agree(s \ {a})
    BY <2>2, <2>a
  <2> QED BY <2>2, <2>3, <2>a
<1>3. Agree(S)
  BY <1>2 DEF Bad
<1>4. Sizes(paper, cycles)!Total(f) = G[S]
  BY TotalIs DEF G
<1> QED BY <1>3, <1>4

LEMMA TotalChanged ==
    ASSUME NEW paper, NEW cycles, NEW S, IsFiniteSet(S), NEW f \in [S -> Nat],
           NEW h \in [S -> Nat], NEW p \in S, \A q \in S \ {p} : h[q] = f[q]
    PROVE  Sizes(paper, cycles)!Total(h) = Sizes(paper, cycles)!Total(f) - f[p] + h[p]
<1> DEFINE F == SumsOf(f)
           H == SumsOf(h)
           Agree(s) == /\ F[s] \in Nat
                       /\ H[s] = IF p \in s THEN F[s] - f[p] + h[p] ELSE F[s]
           Bad == {s \in SUBSET S : ~Agree(s)}
<1>1. /\ F[{}] = 0
      /\ \A s \in SUBSET S : s # {} => Any(s) \in s /\ F[s] = f[Any(s)] + F[s \ {Any(s)}]
  BY SumsAre
<1>2. h \in [S -> Nat] /\ DOMAIN h = S /\ h[p] \in Nat /\ \A q \in S \ {p} : h[q] = f[q]
  OBVIOUS
<1>3. /\ H[{}] = 0
      /\ \A s \in SUBSET S : s # {} => Any(s) \in s /\ H[s] = h[Any(s)] + H[s \ {Any(s)}]
  BY <1>2, SumsAre
<1> HIDE DEF F, H
<1> HIDE DEF Bad
<1>4. Bad = {}
  <2> SUFFICES ASSUME Bad # {} PROVE FALSE
    OBVIOUS
  <2>0. Bad \in SUBSET SUBSET S
    BY DEF Bad
  <2>s. PICK s \in Bad : \A t \in Bad : t \subseteq s => t = s
    BY <2>0, SmallestSubset
  <2>a. s \in SUBSET S /\ ~Agree(s) /\ \A t \in SUBSET s : t # s => Agree(t)
    BY <2>0, <2>s DEF Bad
  <2>e. F[{}] = 0 /\ H[{}] = 0
    BY <1>1, <1>3
  <2>z. Agree({})
    BY <2>e
  <2>1. s # {}
    BY <2>a, <2>z, Zenon
  <2> DEFINE a == Any(s)
  <2>2. a \in s /\ a \in S /\ Agree(s \ {a})
    BY <1>1, <2>1, <2>a
  <2>3. F[s] = f[a] + F[s \ {a}] /\ H[s] = h[a] + H[s \ {a}]
    BY <1>1, <1>3, <2>1, <2>a
  <2> HIDE DEF a
  <2>4. CASE a = p
    BY <1>2, <2>2, <2>3, <2>4, <2>a
  <2>5. CASE a # p
    BY <1>2, <2>2, <2>3, <2>5, <2>a
  <2> QED BY <2>4, <2>5
<1>5. Sizes(paper, cycles)!Total(f) = F[S] /\ Sizes(paper, cycles)!Total(h) = H[S]
  BY <1>2, TotalIs DEF F, H
<1>6. Agree(S)
  BY <1>4 DEF Bad
<1> QED BY <1>5, <1>6

-----------------------------------------------------------------------------
(* Sizing                                                                  *)

LEMMA ShareGrows ==
    ASSUME NEW paper, NEW cycles, NEW pct \in Nat, NEW a \in Nat, NEW b \in Nat, a <= b
    PROVE  /\ Sizes(paper, cycles)!Share(pct, a) \in Nat
           /\ Sizes(paper, cycles)!Share(pct, b) \in Nat
           /\ Sizes(paper, cycles)!Share(pct, a) <= Sizes(paper, cycles)!Share(pct, b)
<1>1. PICK k \in Nat : b = a + k
  BY SMT
<1>2. a * pct \in Nat /\ b * pct \in Nat /\ a * pct <= b * pct
  <2>1. k * pct \in Nat /\ b * pct = a * pct + k * pct
    BY <1>1, SMT
  <2> QED BY <2>1, SMT
<1> QED BY <1>2 DEF Sizes!Share

LEMMA PartIsWithin ==
    ASSUME NEW w \in Nat, NEW h \in Nat, NEW n \in 1 .. h
    PROVE  (w * n) \div h \in Nat /\ (w * n) \div h <= w
<1>1. PICK k \in Nat : h = n + k
  BY SMT
<1>2. w * n \in Nat /\ w * n <= w * h
  <2>1. w * k \in Nat /\ w * h = w * n + w * k
    BY <1>1, SMT
  <2> QED BY <2>1, SMT
<1> DEFINE q == (w * n) \div h
<1>3. q \in Nat /\ h * q <= w * n
  BY <1>2, SMT
<1>4. h * q <= h * w
  BY <1>2, <1>3, SMT
<1>5. q <= w
  <2> SUFFICES ASSUME q > w PROVE FALSE
    BY <1>3
  <2>1. PICK j \in Nat : q = w + 1 + j
    BY <1>3
  <2>2. h * q = h * w + h + h * j /\ h * j \in Nat
    BY <2>1, SMT
  <2> QED BY <1>4, <2>2, SMT
<1> QED BY <1>3, <1>5

LEMMA LeastIs ==
    ASSUME NEW paper, NEW cycles, NEW T \in SUBSET Nat, T # {}
    PROVE  /\ Sizes(paper, cycles)!Least(T) \in T
           /\ \A x \in T : Sizes(paper, cycles)!Least(T) <= x
BY LeastNatural DEF Sizes!Least

LEMMA LessIs ==
    ASSUME NEW paper, NEW cycles, NEW a \in Nat, NEW b \in Nat
    PROVE  /\ Sizes(paper, cycles)!Less(a, b) \in Nat
           /\ \A n \in Nat : 0 < n /\ n <= Sizes(paper, cycles)!Less(a, b) => b + n <= a
BY DEF Sizes!Less

SizingTypes ==
    /\ s1 \in Nat /\ s2 \in Nat
    /\ s5 \in [SizedPool -> Nat] /\ s6 \in [SizedPool -> 0 .. PoolMost] /\ s9 \in [SizedPool -> Nat]
    /\ s10 \in [pool : SizedPool \cup {"none"}, size : Nat, path : {"none", "slot", "redeploy"},
                agent : BOOLEAN, pc : {"idle", "decided", "judged"}, portfolio : Nat]

\* An entry under way still has the room it was decided in: nothing else moves before it.
UnderWay(paper, cycles) ==
    s10.pc # "idle" =>
       /\ s10.pool \in SizedPool /\ Sizes(paper, cycles)!CountsFit(s10.pool)
       /\ s10.portfolio = IF s10.path = "slot" THEN Sizes(paper, cycles)!Portfolio
                          ELSE Sizes(paper, cycles)!Whole
       /\ s10.agent = FALSE =>
             s10.size <= Sizes(paper, cycles)!Less(
                            Sizes(paper, cycles)!Share(SharePart, PoolTvl[s10.pool]), s5[s10.pool])
       /\ s10.pc = "judged" =>
             /\ 0 < s10.size /\ s10.size >= Sizes(paper, cycles)!MinEntry
             /\ s10.size <= Sizes(paper, cycles)!Headroom(s10.pool, s10.portfolio)

SizingInv(paper, cycles) ==
    SizingTypes /\ UnderWay(paper, cycles) /\ Sizes(paper, cycles)!Sized

LEMMA SizingValues ==
    /\ IsFiniteSet(SizedPool) /\ PoolTvl \in [SizedPool -> Nat] /\ Asked \subseteq Nat
    /\ SeedUsd \in Nat /\ Cash \in Nat /\ CapPart \in Nat /\ SharePart \in Nat
    /\ EquityPart \in Nat /\ TvlPart \in Nat /\ SizeMost \in Nat /\ SizeFloor \in Nat
    /\ UsualFloor \in Nat /\ RedeployMost \in Nat /\ AgentPart \in Nat
    /\ PoolMost \in Nat /\ OpenMost \in Nat
BY RecordsAssumption DEF SizesAssumption

\* What is deployed, and what it makes of the portfolio.
LEMMA SumsOfMoney ==
    ASSUME NEW paper \in BOOLEAN, NEW cycles, SizingTypes
    PROVE  /\ Sizes(paper, cycles)!Deployed \in Nat /\ Sizes(paper, cycles)!Open \in Nat
           /\ Sizes(paper, cycles)!Portfolio \in Nat /\ Sizes(paper, cycles)!Whole \in Nat
           /\ Sizes(paper, cycles)!Idle \in Nat
<1>1. s5 \in [SizedPool -> Nat] /\ s6 \in [SizedPool -> Nat] /\ s1 \in Nat /\ s2 \in Nat
  BY SizingValues DEF SizingTypes
<1>2. Sizes(paper, cycles)!Deployed \in Nat /\ Sizes(paper, cycles)!Open \in Nat
  BY <1>1, SizingValues, TotalOfNaturals DEF Sizes!Deployed, Sizes!Open
<1>3. Sizes(paper, cycles)!Portfolio \in Nat
  BY <1>1, <1>2 DEF Sizes!Portfolio
<1>4. Sizes(paper, cycles)!Less(SeedUsd, Sizes(paper, cycles)!Deployed) \in Nat
  BY <1>2, SizingValues, LessIs
<1> QED BY <1>1, <1>2, <1>3, <1>4, SizingValues DEF Sizes!Whole, Sizes!Idle

LEMMA ShareIs ==
    ASSUME NEW paper, NEW cycles, NEW pct \in Nat, NEW a \in Nat
    PROVE  Sizes(paper, cycles)!Share(pct, a) \in Nat
BY ShareGrows

LEMMA SlotSizes ==
    ASSUME NEW paper \in BOOLEAN, NEW cycles, SizingTypes
    PROVE  /\ Sizes(paper, cycles)!RedeploySize \in Nat
           /\ \A p \in SizedPool : Sizes(paper, cycles)!EntrySize(p) \in Nat
<1>1. Sizes(paper, cycles)!RedeploySize \in Nat
  <2>1. /\ Sizes(paper, cycles)!Share(50, Sizes(paper, cycles)!Idle) \in Nat
        /\ Sizes(paper, cycles)!Share(CapPart, Sizes(paper, cycles)!Whole) \in Nat
    BY SumsOfMoney, ShareIs, SizingValues
  <2> QED BY <2>1, LeastIs, SizingValues DEF Sizes!RedeploySize
<1>2. ASSUME NEW p \in SizedPool PROVE Sizes(paper, cycles)!EntrySize(p) \in Nat
  <2>1. /\ Sizes(paper, cycles)!Share(EquityPart, Sizes(paper, cycles)!Portfolio) \in Nat
        /\ Sizes(paper, cycles)!Share(TvlPart, PoolTvl[p]) \in Nat
        /\ Sizes(paper, cycles)!Share(50, s2) \in Nat
    BY SumsOfMoney, ShareIs, SizingValues DEF SizingTypes
  <2> QED BY <2>1, LeastIs, SizingValues DEF Sizes!EntrySize
<1> QED BY <1>1, <1>2

LEMMA HeadroomIs ==
    ASSUME NEW paper, NEW cycles, SizingTypes, NEW p \in SizedPool, NEW portfolio \in Nat
    PROVE  Sizes(paper, cycles)!Headroom(p, portfolio) \in Nat
<1>1. Sizes(paper, cycles)!Share(CapPart, portfolio) \in Nat /\ s5[p] \in Nat
  BY ShareIs, SizingValues DEF SizingTypes
<1> QED BY <1>1, LessIs DEF Sizes!Headroom

\* What is allocated fits the counts, the cap and, where it counts, the pool's share.
LEMMA AllocatedIs ==
    ASSUME NEW paper, NEW cycles, SizingTypes, NEW p \in SizedPool, NEW size \in Nat,
           NEW portfolio \in Nat, NEW shared \in BOOLEAN
    PROVE  LET a == Sizes(paper, cycles)!Allocated(p, size, portfolio, shared) IN
           /\ a \in Nat
           /\ a > 0 => /\ Sizes(paper, cycles)!CountsFit(p)
                       /\ a <= size /\ a <= Sizes(paper, cycles)!Headroom(p, portfolio)
                       /\ shared => a <= Sizes(paper, cycles)!Less(
                                       Sizes(paper, cycles)!Share(SharePart, PoolTvl[p]), s5[p])
<1> DEFINE room == Sizes(paper, cycles)!Headroom(p, portfolio)
           part == Sizes(paper, cycles)!Less(Sizes(paper, cycles)!Share(SharePart, PoolTvl[p]), s5[p])
           share == IF shared THEN {part} ELSE {}
<1>1. room \in Nat
  BY HeadroomIs
<1>2. part \in Nat
  <2>1. Sizes(paper, cycles)!Share(SharePart, PoolTvl[p]) \in Nat /\ s5[p] \in Nat
    BY ShareIs, SizingValues DEF SizingTypes
  <2> QED BY <2>1, LessIs
<1>3. Sizes(paper, cycles)!Allocated(p, size, portfolio, shared) =
         IF Sizes(paper, cycles)!CountsFit(p)
         THEN Sizes(paper, cycles)!Least({size, room} \cup share) ELSE 0
  BY DEF Sizes!Allocated
<1> HIDE DEF room, part
<1>4. {size, room} \cup share \in SUBSET Nat /\ {size, room} \cup share # {}
  BY <1>1, <1>2
<1>5. /\ Sizes(paper, cycles)!Least({size, room} \cup share) \in Nat
      /\ Sizes(paper, cycles)!Least({size, room} \cup share) <= size
      /\ Sizes(paper, cycles)!Least({size, room} \cup share) <= room
      /\ shared => Sizes(paper, cycles)!Least({size, room} \cup share) <= part
  BY <1>4, LeastIs
<1> QED BY <1>3, <1>5 DEF room, part

LEMMA GatedIs ==
    ASSUME NEW paper, NEW cycles, SizingTypes, s10.pool \in SizedPool, NEW size \in Nat
    PROVE  LET g == Sizes(paper, cycles)!Gated(size) IN
           /\ g \in Nat
           /\ g > 0 => /\ g <= size /\ g >= Sizes(paper, cycles)!MinEntry
                       /\ g <= Sizes(paper, cycles)!Headroom(s10.pool, s10.portfolio)
<1> DEFINE room == Sizes(paper, cycles)!Headroom(s10.pool, s10.portfolio)
           fit == Sizes(paper, cycles)!Least({size, room})
<1>1. room \in Nat
  BY HeadroomIs DEF SizingTypes
<1>2. fit \in Nat /\ fit <= size /\ fit <= room
  BY <1>1, LeastIs
<1>3. Sizes(paper, cycles)!MinEntry \in Nat
  BY SizingValues DEF Sizes!MinEntry
<1>4. Sizes(paper, cycles)!Gated(size) =
         IF size < Sizes(paper, cycles)!MinEntry \/ fit < Sizes(paper, cycles)!MinEntry
            \/ s6[s10.pool] >= PoolMost
         THEN 0 ELSE fit
  BY DEF Sizes!Gated
<1> HIDE DEF fit, room
<1>5. Sizes(paper, cycles)!Gated(size) = 0 \/
      (Sizes(paper, cycles)!Gated(size) = fit /\ ~(fit < Sizes(paper, cycles)!MinEntry))
  BY <1>4
<1> QED BY <1>2, <1>3, <1>5 DEF room

LEMMA NothingBooked ==
    ASSUME NEW paper \in BOOLEAN, NEW cycles, s11' = Sizes(paper, cycles)!NoneYet
    PROVE  /\ Sizes(paper, cycles)!CapHeld' /\ Sizes(paper, cycles)!NoDust'
           /\ Sizes(paper, cycles)!ShareHeld'
<1>1. /\ s11'.path = "none" /\ s11'.size = 0 /\ s11'.least = 0 /\ s11'.exposure = 0
      /\ s11'.equity = 0
  BY DEF Sizes!NoneYet
<1>2. Sizes(paper, cycles)!Share(CapPart, 0) \in Nat
  BY ShareIs, SizingValues
<1>3. Sizes(paper, cycles)!CapHeld'
  BY <1>1, <1>2 DEF Sizes!CapHeld, Sizes!Within
<1> QED BY <1>1, <1>3 DEF Sizes!NoDust, Sizes!ShareHeld

\* As long as the money stays, so does what is made of it.
LEMMA MoneyStays ==
    ASSUME NEW paper, NEW cycles, UNCHANGED <<s1, s2, s5, s6>>
    PROVE  /\ Sizes(paper, cycles)!Portfolio' = Sizes(paper, cycles)!Portfolio
           /\ Sizes(paper, cycles)!Whole' = Sizes(paper, cycles)!Whole
           /\ Sizes(paper, cycles)!SlotsHeld' = Sizes(paper, cycles)!SlotsHeld
           /\ \A p : Sizes(paper, cycles)!CountsFit(p)' = Sizes(paper, cycles)!CountsFit(p)
           /\ \A p, x : Sizes(paper, cycles)!Headroom(p, x)' = Sizes(paper, cycles)!Headroom(p, x)
BY DEF Sizes!Portfolio, Sizes!Whole, Sizes!SlotsHeld, Sizes!CountsFit, Sizes!Headroom,
       Sizes!Deployed, Sizes!Open

\* The claims on the last entry, while it stays or is forgotten.
LEMMA BookedStays ==
    ASSUME NEW paper \in BOOLEAN, NEW cycles, Sizes(paper, cycles)!Sized,
           s11' \in {s11, Sizes(paper, cycles)!NoneYet}
    PROVE  /\ Sizes(paper, cycles)!CapHeld' /\ Sizes(paper, cycles)!NoDust'
           /\ Sizes(paper, cycles)!ShareHeld'
<1>1. CASE s11' = s11
  BY <1>1 DEF Sizes!Sized, Sizes!CapHeld, Sizes!Within, Sizes!NoDust, Sizes!ShareHeld
<1> QED BY <1>1, NothingBooked

LEMMA SizesInit ==
    ASSUME NEW paper \in BOOLEAN, NEW cycles, Sizes(paper, cycles)!Init
    PROVE  SizingInv(paper, cycles)
<1> USE DEF Sizes!Init
<1>1. SizingTypes /\ UnderWay(paper, cycles)
  BY SizingValues DEF SizingTypes, UnderWay, Sizes!NoEntry
<1>2. Sizes(paper, cycles)!SlotsHeld
  <2>1. s6 \in [SizedPool -> Nat] /\ \A p \in SizedPool : s6[p] = 0
    OBVIOUS
  <2>2. Sizes(paper, cycles)!Open = 0
    BY <2>1, SizingValues, TotalOfNaturals DEF Sizes!Open
  <2> QED BY <2>1, <2>2, SizingValues DEF Sizes!SlotsHeld
<1>3. Sizes(paper, cycles)!CapHeld /\ Sizes(paper, cycles)!NoDust /\ Sizes(paper, cycles)!ShareHeld
  <2>1. /\ s11.path = "none" /\ s11.size = 0 /\ s11.least = 0 /\ s11.exposure = 0
        /\ s11.equity = 0
    BY DEF Sizes!NoneYet
  <2>2. Sizes(paper, cycles)!Share(CapPart, 0) \in Nat
    BY ShareIs, SizingValues
  <2>3. Sizes(paper, cycles)!CapHeld
    BY <2>1, <2>2 DEF Sizes!CapHeld, Sizes!Within
  <2> QED BY <2>1, <2>3 DEF Sizes!NoDust, Sizes!ShareHeld
<1> QED BY <1>1, <1>2, <1>3 DEF SizingInv, Sizes!Sized

LEMMA SizesStarted ==
    ASSUME NEW paper \in BOOLEAN, NEW cycles, SizingInv(paper, cycles),
           Sizes(paper, cycles)!Start
    PROVE  SizingInv(paper, cycles)'
<1>1. /\ s10.pc = "idle" /\ s2' \in {SeedUsd, s1, s2} /\ UNCHANGED <<s1, s5, s6, s10>>
      /\ s9' = [p \in SizedPool |-> 0] /\ s11' = Sizes(paper, cycles)!NoneYet
  BY DEF Sizes!Start
<1>2. SizingTypes'
  BY <1>1, SizingValues DEF SizingInv, SizingTypes
<1>3. UnderWay(paper, cycles)'
  BY <1>1 DEF UnderWay
<1>4. Sizes(paper, cycles)!SlotsHeld'
  BY <1>1 DEF SizingInv, Sizes!Sized, Sizes!SlotsHeld, Sizes!Open
<1> QED BY <1>1, <1>2, <1>3, <1>4, BookedStays DEF SizingInv, Sizes!Sized

\* An entry decided by the rules: of a slot, or of the redeployment.
LEMMA Decides ==
    ASSUME NEW paper \in BOOLEAN, NEW cycles, SizingInv(paper, cycles), UNCHANGED <<s1, s2, s5, s6>>,
           NEW p \in SizedPool, NEW asked \in Nat,
           NEW path \in {"slot", "redeploy"}, NEW portfolio,
           portfolio = IF path = "slot" THEN Sizes(paper, cycles)!Portfolio
                       ELSE Sizes(paper, cycles)!Whole,
           Sizes(paper, cycles)!Allocated(p, asked, portfolio, TRUE) > 0,
           s10' = Sizes(paper, cycles)!Decided(p,
                     Sizes(paper, cycles)!Allocated(p, asked, portfolio, TRUE), path, portfolio)
    PROVE  UnderWay(paper, cycles)' /\ (s9' \in [SizedPool -> Nat] => SizingTypes')
<1> DEFINE a == Sizes(paper, cycles)!Allocated(p, asked, portfolio, TRUE)
<1>1. SizingTypes
  BY DEF SizingInv
<1>2. portfolio \in Nat
  BY <1>1, SumsOfMoney
<1>3. /\ a \in Nat /\ Sizes(paper, cycles)!CountsFit(p)
      /\ a <= Sizes(paper, cycles)!Less(Sizes(paper, cycles)!Share(SharePart, PoolTvl[p]), s5[p])
  BY <1>1, <1>2, AllocatedIs
<1> HIDE DEF a
<1> DEFINE entry == [pool |-> p, size |-> a, path |-> path, agent |-> FALSE, pc |-> "decided",
                     portfolio |-> portfolio]
<1>4. s10' = entry
  BY DEF a, Sizes!Decided
<1>5. s9' \in [SizedPool -> Nat] => SizingTypes'
  <2>1. entry \in [pool : SizedPool \cup {"none"}, size : Nat, path : {"none", "slot", "redeploy"},
                   agent : BOOLEAN, pc : {"idle", "decided", "judged"}, portfolio : Nat]
    BY <1>2, <1>3
  <2> HIDE DEF entry
  <2> QED BY <1>1, <1>4, <2>1 DEF SizingTypes
<1>6. UnderWay(paper, cycles)'
  <2>0. /\ entry.pool = p /\ entry.size = a /\ entry.path = path /\ entry.pc = "decided"
        /\ entry.portfolio = portfolio
    OBVIOUS
  <2> HIDE DEF entry
  <2>1. /\ s10'.pool = p /\ s10'.size = a /\ s10'.path = path /\ s10'.pc = "decided"
        /\ s10'.portfolio = portfolio
    BY <1>4, <2>0, Zenon
  <2>2. Sizes(paper, cycles)!CountsFit(p)'
    BY <1>3, MoneyStays
  <2>3. portfolio = IF path = "slot" THEN Sizes(paper, cycles)!Portfolio'
                    ELSE Sizes(paper, cycles)!Whole'
    BY MoneyStays
  <2> QED BY <1>3, <2>1, <2>2, <2>3 DEF UnderWay
<1> QED BY <1>5, <1>6

LEMMA SizesSlotted ==
    ASSUME NEW paper \in BOOLEAN, NEW cycles, SizingInv(paper, cycles),
           NEW p \in SizedPool, Sizes(paper, cycles)!Slot(p)
    PROVE  SizingInv(paper, cycles)'
<1> DEFINE asked == Sizes(paper, cycles)!EntrySize(p)
           portfolio == Sizes(paper, cycles)!Portfolio
           size == Sizes(paper, cycles)!Allocated(p, asked, portfolio, TRUE)
<1>1. /\ s10.pc = "idle" /\ UNCHANGED <<s1, s2, s5, s6>> /\ s11' = Sizes(paper, cycles)!NoneYet
      /\ \/ UNCHANGED <<s10, s9>>
         \/ /\ size > 0 /\ s9' = [s9 EXCEPT ![p] = size]
            /\ s10' = Sizes(paper, cycles)!Decided(p, size, "slot", portfolio)
         \/ s9' = [s9 EXCEPT ![p] = asked] /\ UNCHANGED s10
  BY DEF Sizes!Slot, Sizes!money
<1>2. SizingTypes
  BY DEF SizingInv
<1>3. asked \in Nat /\ portfolio \in Nat
  BY <1>2, SlotSizes, SumsOfMoney
<1>4. size \in Nat
  BY <1>2, <1>3, AllocatedIs
<1> HIDE DEF asked
<1>5. SizingTypes' /\ UnderWay(paper, cycles)'
  <2>1. s9' \in [SizedPool -> Nat]
    BY <1>1, <1>2, <1>3, <1>4 DEF SizingTypes
  <2>2. CASE UNCHANGED s10
    BY <1>1, <1>2, <2>1, <2>2 DEF SizingTypes, UnderWay
  <2>3. CASE size > 0 /\ s10' = Sizes(paper, cycles)!Decided(p, size, "slot", portfolio)
    BY <1>1, <1>3, <2>1, <2>3, Decides
  <2> QED BY <1>1, <2>2, <2>3
<1>6. Sizes(paper, cycles)!SlotsHeld'
  BY <1>1, MoneyStays DEF SizingInv, Sizes!Sized
<1> QED BY <1>1, <1>5, <1>6, BookedStays DEF SizingInv, Sizes!Sized

LEMMA SizesRedeployed ==
    ASSUME NEW paper \in BOOLEAN, NEW cycles, SizingInv(paper, cycles),
           Sizes(paper, cycles)!Redeploy
    PROVE  SizingInv(paper, cycles)'
<1> DEFINE asked == Sizes(paper, cycles)!RedeploySize
           whole == Sizes(paper, cycles)!Whole
           size(p) == Sizes(paper, cycles)!Allocated(p, asked, whole, TRUE)
<1>1. /\ s10.pc = "idle" /\ UNCHANGED <<s1, s2, s5, s6, s9>>
      /\ s11' = Sizes(paper, cycles)!NoneYet
      /\ \/ UNCHANGED s10
         \/ \E p \in SizedPool :
               size(p) > 0 /\ s10' = Sizes(paper, cycles)!Decided(p, size(p), "redeploy", whole)
  BY DEF Sizes!Redeploy, Sizes!money
<1>2. SizingTypes
  BY DEF SizingInv
<1>3. asked \in Nat
  BY <1>2, SlotSizes
<1> HIDE DEF asked
<1>5. SizingTypes' /\ UnderWay(paper, cycles)'
  <2>1. s9' \in [SizedPool -> Nat]
    BY <1>1, <1>2 DEF SizingTypes
  <2>2. CASE UNCHANGED s10
    BY <1>1, <1>2, <2>1, <2>2 DEF SizingTypes, UnderWay
  <2>3. ASSUME NEW p \in SizedPool, size(p) > 0,
               s10' = Sizes(paper, cycles)!Decided(p, size(p), "redeploy", whole)
        PROVE  SizingTypes' /\ UnderWay(paper, cycles)'
    BY <1>1, <1>3, <2>1, <2>3, Decides
  <2> QED BY <1>1, <2>2, <2>3
<1>6. Sizes(paper, cycles)!SlotsHeld'
  BY <1>1, MoneyStays DEF SizingInv, Sizes!Sized
<1> QED BY <1>1, <1>5, <1>6, BookedStays DEF SizingInv, Sizes!Sized

\* An agent's size fits as the rules' does, but for the pool's share.
LEMMA SizesProposed ==
    ASSUME NEW paper \in BOOLEAN, NEW cycles, SizingInv(paper, cycles),
           Sizes(paper, cycles)!Propose
    PROVE  SizingInv(paper, cycles)'
<1>1. PICK s \in Asked :
         /\ Sizes(paper, cycles)!AgentSize(s10.pool, s, s10.portfolio) > 0
         /\ s10' = [s10 EXCEPT
                      !.size = Sizes(paper, cycles)!AgentSize(s10.pool, s, s10.portfolio),
                      !.agent = TRUE]
  BY DEF Sizes!Propose
<1>2. /\ s10.pc = "decided" /\ UNCHANGED <<s1, s2, s5, s6, s9, s11>>
  BY DEF Sizes!Propose, Sizes!money
<1> DEFINE size == Sizes(paper, cycles)!AgentSize(s10.pool, s, s10.portfolio)
<1>3. SizingTypes /\ s10.pool \in SizedPool /\ s10.portfolio \in Nat
  BY <1>2 DEF SizingInv, SizingTypes, UnderWay
<1>4. size \in Nat
  <2>1. /\ Sizes(paper, cycles)!Share(AgentPart, s10.portfolio) \in Nat
        /\ Sizes(paper, cycles)!Share(CapPart, s10.portfolio) \in Nat /\ s \in Nat
    BY <1>3, ShareIs, SizingValues
  <2> DEFINE asked == Sizes(paper, cycles)!Least(
                         {s, Sizes(paper, cycles)!Share(AgentPart, s10.portfolio),
                             Sizes(paper, cycles)!Share(CapPart, s10.portfolio)})
  <2>2. asked \in Nat
    BY <2>1, LeastIs
  <2>3. size = Sizes(paper, cycles)!Allocated(s10.pool, asked, s10.portfolio, FALSE)
    BY DEF Sizes!AgentSize
  <2> HIDE DEF asked, size
  <2> QED BY <1>3, <2>2, <2>3, AllocatedIs
<1> HIDE DEF size
<1>5. s10' = [s10 EXCEPT !.size = size, !.agent = TRUE]
  BY <1>1 DEF size
<1>6. /\ s10'.pool = s10.pool /\ s10'.path = s10.path /\ s10'.pc = "decided"
      /\ s10'.agent = TRUE /\ s10'.portfolio = s10.portfolio
  BY <1>2, <1>3, <1>5 DEF SizingTypes
<1>7. SizingTypes'
  BY <1>2, <1>3, <1>4, <1>5 DEF SizingTypes
<1>8. UnderWay(paper, cycles)'
  BY <1>2, <1>6, MoneyStays DEF SizingInv, UnderWay
<1>9. Sizes(paper, cycles)!SlotsHeld'
  BY <1>2, MoneyStays DEF SizingInv, Sizes!Sized
<1> QED BY <1>2, <1>7, <1>8, <1>9, BookedStays DEF SizingInv, Sizes!Sized

LEMMA SizesJudged ==
    ASSUME NEW paper \in BOOLEAN, NEW cycles, SizingInv(paper, cycles),
           Sizes(paper, cycles)!Judge
    PROVE  SizingInv(paper, cycles)'
<1> DEFINE size == Sizes(paper, cycles)!Gated(s10.size)
<1>1. /\ s10.pc = "decided" /\ UNCHANGED <<s1, s2, s5, s6, s11>>
      /\ \/ /\ s10' = Sizes(paper, cycles)!NoEntry
            /\ s9' \in {s9, [s9 EXCEPT ![s10.pool] = 0]}
         \/ /\ size > 0 /\ UNCHANGED s9
            /\ s10' = [s10 EXCEPT !.size = size, !.pc = "judged"]
  BY DEF Sizes!Judge, Sizes!money
<1>2. SizingTypes /\ s10.pool \in SizedPool /\ s10.size \in Nat /\ s10.portfolio \in Nat
  BY <1>1 DEF SizingInv, SizingTypes, UnderWay
<1>3. /\ size \in Nat
      /\ size > 0 => /\ size <= s10.size /\ size >= Sizes(paper, cycles)!MinEntry
                     /\ size <= Sizes(paper, cycles)!Headroom(s10.pool, s10.portfolio)
  BY <1>2, GatedIs
<1> HIDE DEF size
<1>4. SizingTypes' /\ UnderWay(paper, cycles)'
  <2>1. CASE /\ s10' = Sizes(paper, cycles)!NoEntry
             /\ s9' \in {s9, [s9 EXCEPT ![s10.pool] = 0]}
    BY <1>1, <1>2, <2>1 DEF SizingTypes, UnderWay, Sizes!NoEntry
  <2>2. CASE /\ size > 0 /\ UNCHANGED s9
             /\ s10' = [s10 EXCEPT !.size = size, !.pc = "judged"]
    <3>1. /\ s10'.pool = s10.pool /\ s10'.path = s10.path /\ s10'.pc = "judged"
          /\ s10'.agent = s10.agent /\ s10'.portfolio = s10.portfolio /\ s10'.size = size
      BY <1>2, <2>2 DEF SizingTypes
    <3>2. SizingTypes'
      BY <1>1, <1>2, <1>3, <2>2 DEF SizingTypes
    <3>3. /\ Sizes(paper, cycles)!CountsFit(s10.pool)'
          /\ s10'.portfolio = IF s10.path = "slot" THEN Sizes(paper, cycles)!Portfolio'
                              ELSE Sizes(paper, cycles)!Whole'
          /\ Sizes(paper, cycles)!MinEntry' = Sizes(paper, cycles)!MinEntry
          /\ size <= Sizes(paper, cycles)!Headroom(s10.pool, s10.portfolio)'
      <4>1. Sizes(paper, cycles)!MinEntry' = Sizes(paper, cycles)!MinEntry
        BY <3>1 DEF Sizes!MinEntry
      <4> QED BY <1>1, <1>3, <2>2, <3>1, <4>1, MoneyStays DEF SizingInv, UnderWay
    <3>4. s10.agent = FALSE =>
             size <= Sizes(paper, cycles)!Less(
                        Sizes(paper, cycles)!Share(SharePart, PoolTvl[s10.pool]), s5[s10.pool])
      <4>1. Sizes(paper, cycles)!Less(
               Sizes(paper, cycles)!Share(SharePart, PoolTvl[s10.pool]), s5[s10.pool]) \in Nat
        <5>1. Sizes(paper, cycles)!Share(SharePart, PoolTvl[s10.pool]) \in Nat /\ s5[s10.pool] \in Nat
          BY <1>2, ShareIs, SizingValues DEF SizingTypes
        <5> QED BY <5>1, LessIs
      <4> QED BY <1>1, <1>2, <1>3, <2>2, <4>1 DEF SizingInv, UnderWay
    <3>5. UnderWay(paper, cycles)'
      BY <1>1, <1>2, <1>3, <2>2, <3>1, <3>3, <3>4 DEF UnderWay
    <3> QED BY <3>2, <3>5
  <2> QED BY <1>1, <2>1, <2>2
<1>5. Sizes(paper, cycles)!SlotsHeld'
  BY <1>1, MoneyStays DEF SizingInv, Sizes!Sized
<1> QED BY <1>1, <1>4, <1>5, BookedStays DEF SizingInv, Sizes!Sized

LEMMA EntryBooked ==
    ASSUME NEW paper \in BOOLEAN, NEW cycles, SizingInv(paper, cycles), s10.pc = "judged",
           Sizes(paper, cycles)!Book
    PROVE  /\ s5' \in [SizedPool -> Nat] /\ s6' \in [SizedPool -> 0 .. PoolMost]
           /\ Sizes(paper, cycles)!Sized'
<1> DEFINE pool == s10.pool
           size == s10.size
           cap(x) == Sizes(paper, cycles)!Share(CapPart, x)
           part == Sizes(paper, cycles)!Share(SharePart, PoolTvl[pool])
           deployed == Sizes(paper, cycles)!Deployed
           open == Sizes(paper, cycles)!Open
           least == Sizes(paper, cycles)!MinEntry
<1>1. SizingTypes /\ pool \in SizedPool /\ size \in Nat /\ s10.portfolio \in Nat /\ s5[pool] \in Nat
  BY DEF SizingInv, SizingTypes, UnderWay
<1>2. /\ s5' = [s5 EXCEPT ![pool] = s5[pool] + size]
      /\ s6' = [s6 EXCEPT ![pool] = s6[pool] + 1]
      /\ s11' = [pool |-> pool, size |-> size, path |-> s10.path, agent |-> s10.agent,
                 least |-> least, exposure |-> s5[pool] + size,
                 equity |-> IF paper THEN SeedUsd ELSE s1 + deployed,
                 twice |-> ~paper /\ s2 > s1]
  BY DEF Sizes!Book
<1>3. /\ s11'.pool = pool /\ s11'.size = size /\ s11'.path = s10.path /\ s11'.agent = s10.agent
      /\ s11'.least = least /\ s11'.exposure = s5[pool] + size
      /\ s11'.equity = IF paper THEN SeedUsd ELSE s1 + deployed
      /\ s11'.twice = (~paper /\ s2 > s1)
  BY <1>2
<1>4. /\ s6[pool] < PoolMost /\ open < OpenMost
      /\ 0 < size /\ size >= least
      /\ size <= Sizes(paper, cycles)!Less(cap(s10.portfolio), s5[pool])
      /\ s10.agent = FALSE => size <= Sizes(paper, cycles)!Less(part, s5[pool])
      /\ s10.portfolio = IF s10.path = "slot" THEN Sizes(paper, cycles)!Portfolio
                         ELSE Sizes(paper, cycles)!Whole
  BY DEF SizingInv, UnderWay, Sizes!CountsFit, Sizes!Headroom
<1>5. deployed \in Nat /\ open \in Nat /\ s1 \in Nat /\ s2 \in Nat
  BY <1>1, SumsOfMoney DEF SizingTypes
<1>6. s5[pool] + size <= cap(s10.portfolio)
  <2>1. cap(s10.portfolio) \in Nat
    BY <1>1, ShareIs, SizingValues
  <2> HIDE DEF cap
  <2> QED BY <1>1, <1>4, <2>1, LessIs
<1>7. s10.agent = FALSE => s5[pool] + size <= part
  <2>1. part \in Nat
    BY <1>1, ShareIs, SizingValues
  <2> HIDE DEF part
  <2> QED BY <1>1, <1>4, <2>1, LessIs
<1>8. s5' \in [SizedPool -> Nat] /\ s6' \in [SizedPool -> 0 .. PoolMost]
  BY <1>1, <1>2, <1>4, SizingValues DEF SizingTypes
<1>9. Sizes(paper, cycles)!CapHeld'
  <2>1. CASE paper /\ s10.path = "redeploy"
    <3>1. s10.portfolio = SeedUsd
      BY <1>4, <2>1 DEF Sizes!Whole
    <3> QED BY <1>3, <1>6, <2>1, <3>1 DEF Sizes!CapHeld, Sizes!Within
  <2>2. CASE ~paper /\ ~(s2 > s1)
    <3>1. s10.portfolio = s2 + deployed
      BY <1>4, <2>2 DEF Sizes!Whole, Sizes!Portfolio
    <3>2. s2 + deployed \in Nat /\ s1 + deployed \in Nat /\ s2 + deployed <= s1 + deployed
      BY <1>5, <2>2
    <3> HIDE DEF deployed
    <3>3. cap(s2 + deployed) \in Nat /\ cap(s1 + deployed) \in Nat
          /\ cap(s2 + deployed) <= cap(s1 + deployed)
      BY <3>2, ShareGrows, SizingValues
    <3> HIDE DEF cap
    <3>4. s5[pool] + size <= cap(s1 + deployed)
      BY <1>1, <1>6, <3>1, <3>3
    <3> QED BY <1>3, <2>2, <3>4 DEF cap, Sizes!CapHeld, Sizes!Within
  <2>3. CASE paper /\ s10.path # "redeploy"
    BY <1>3, <2>3 DEF Sizes!CapHeld
  <2>4. CASE ~paper /\ s2 > s1
    BY <1>3, <2>4 DEF Sizes!CapHeld
  <2> QED BY <2>1, <2>2, <2>3, <2>4
<1>10. Sizes(paper, cycles)!NoDust'
  BY <1>3, <1>4 DEF Sizes!NoDust
<1>11. Sizes(paper, cycles)!ShareHeld'
  <2>1. s10.agent \in BOOLEAN
    BY <1>1 DEF SizingTypes
  <2> QED BY <1>3, <1>7, <2>1 DEF Sizes!ShareHeld
<1>12. Sizes(paper, cycles)!SlotsHeld'
  <2>1. s6 \in [SizedPool -> Nat] /\ s6[pool] \in Nat /\ s6[pool] + 1 \in Nat
    BY <1>1, SizingValues DEF SizingTypes
  <2>2. Sizes(paper, cycles)!Open' = open - s6[pool] + (s6[pool] + 1)
    <3>1. /\ s6' \in [SizedPool -> Nat] /\ s6'[pool] = s6[pool] + 1
          /\ \A q \in SizedPool \ {pool} : s6'[q] = s6[q]
      BY <1>1, <1>2, <2>1
    <3>2. Sizes(paper, cycles)!Total(s6') = Sizes(paper, cycles)!Total(s6) - s6[pool] + s6'[pool]
      BY <1>1, <2>1, <3>1, SizingValues, TotalChanged
    <3> QED BY <3>1, <3>2 DEF Sizes!Open
  <2>3. Sizes(paper, cycles)!Open' <= OpenMost
    BY <1>4, <1>5, <2>1, <2>2, SizingValues
  <2> QED BY <1>8, <2>3, SizingValues DEF Sizes!SlotsHeld
<1> QED BY <1>8, <1>9, <1>10, <1>11, <1>12 DEF Sizes!Sized

LEMMA SizesEntered ==
    ASSUME NEW paper \in BOOLEAN, NEW cycles, SizingInv(paper, cycles),
           Sizes(paper, cycles)!Enter
    PROVE  SizingInv(paper, cycles)'
<1>1. /\ s10.pc = "judged" /\ s10' = Sizes(paper, cycles)!NoEntry /\ UNCHANGED s9
      /\ \/ /\ Sizes(paper, cycles)!Book
            /\ \/ UNCHANGED <<s1, s2>>
               \/ /\ s1 >= s10.size /\ s1' = s1 - s10.size /\ s2' \in {s1', s2}
         \/ UNCHANGED <<s1, s2, s5, s6, s11>>
  BY DEF Sizes!Enter
<1>2. SizingTypes /\ s10.size \in Nat
  BY DEF SizingInv, SizingTypes
<1>3. UnderWay(paper, cycles)'
  BY <1>1 DEF UnderWay, Sizes!NoEntry
<1>4. CASE UNCHANGED <<s1, s2, s5, s6, s11>>
  <2>1. SizingTypes'
    BY <1>1, <1>2, <1>4 DEF SizingTypes, Sizes!NoEntry
  <2>2. Sizes(paper, cycles)!SlotsHeld'
    BY <1>4, MoneyStays DEF SizingInv, Sizes!Sized
  <2> QED BY <1>3, <1>4, <2>1, <2>2, BookedStays DEF SizingInv, Sizes!Sized
<1>5. CASE /\ Sizes(paper, cycles)!Book
           /\ \/ UNCHANGED <<s1, s2>>
              \/ s1 >= s10.size /\ s1' = s1 - s10.size /\ s2' \in {s1', s2}
  <2>1. /\ s5' \in [SizedPool -> Nat] /\ s6' \in [SizedPool -> 0 .. PoolMost]
        /\ Sizes(paper, cycles)!Sized'
    BY <1>1, <1>5, EntryBooked
  <2>2. s1' \in Nat /\ s2' \in Nat
    BY <1>2, <1>5 DEF SizingTypes
  <2>3. SizingTypes'
    BY <1>1, <1>2, <2>1, <2>2 DEF SizingTypes, Sizes!NoEntry
  <2> QED BY <1>3, <2>1, <2>3 DEF SizingInv
<1> QED BY <1>1, <1>4, <1>5

LEMMA SizesLeft ==
    ASSUME NEW paper \in BOOLEAN, NEW cycles, SizingInv(paper, cycles),
           NEW p \in SizedPool, Sizes(paper, cycles)!Exit(p)
    PROVE  SizingInv(paper, cycles)'
<1>1. PICK n \in 1 .. s6[p] :
         LET out == (s5[p] * n) \div s6[p] IN
         /\ s5' = [s5 EXCEPT ![p] = @ - out] /\ s6' = [s6 EXCEPT ![p] = @ - n]
         /\ IF paper THEN UNCHANGED <<s1, s2>>
            ELSE s1' = s1 + out /\ s2' \in {s2, s1 + out}
  BY DEF Sizes!Exit
<1>2. s10.pc = "idle" /\ UNCHANGED <<s9, s10>> /\ s11' = Sizes(paper, cycles)!NoneYet
  BY DEF Sizes!Exit
<1> DEFINE out == (s5[p] * n) \div s6[p]
<1>3. /\ SizingTypes /\ s5[p] \in Nat /\ s6[p] \in 0 .. PoolMost /\ s6[p] \in Nat
      /\ n \in Nat /\ n <= s6[p] /\ s6 \in [SizedPool -> Nat]
  BY SizingValues DEF SizingInv, SizingTypes
<1>4. out \in Nat /\ out <= s5[p]
  BY <1>3, PartIsWithin
<1>5. s5' = [s5 EXCEPT ![p] = s5[p] - out] /\ s6' = [s6 EXCEPT ![p] = s6[p] - n]
      /\ (s1' = s1 \/ s1' = s1 + out) /\ (s2' = s2 \/ s2' = s1 + out)
  BY <1>1
<1> HIDE DEF out
<1>6. SizingTypes'
  <2>1. s1' \in Nat /\ s2' \in Nat
    BY <1>3, <1>4, <1>5 DEF SizingTypes
  <2>2. s5' \in [SizedPool -> Nat]
    BY <1>3, <1>4, <1>5 DEF SizingTypes
  <2>3. s6' \in [SizedPool -> 0 .. PoolMost]
    BY <1>3, <1>5, SizingValues DEF SizingTypes
  <2> QED BY <1>2, <1>3, <2>1, <2>2, <2>3 DEF SizingTypes
<1>7. UnderWay(paper, cycles)'
  BY <1>2 DEF UnderWay
<1>8. Sizes(paper, cycles)!SlotsHeld'
  <2>1. s6[p] - n \in Nat
    BY <1>3
  <2>2. Sizes(paper, cycles)!Total(s6') = Sizes(paper, cycles)!Total(s6) - s6[p] + (s6[p] - n)
    <3>1. /\ s6' \in [SizedPool -> Nat] /\ s6'[p] = s6[p] - n
          /\ \A q \in SizedPool \ {p} : s6'[q] = s6[q]
      BY <1>3, <1>5, <2>1
    <3>2. Sizes(paper, cycles)!Total(s6') = Sizes(paper, cycles)!Total(s6) - s6[p] + s6'[p]
      BY <1>3, <3>1, SizingValues, TotalChanged
    <3> QED BY <3>1, <3>2
  <2>3. Sizes(paper, cycles)!Total(s6) \in Nat /\ Sizes(paper, cycles)!Total(s6) <= OpenMost
    BY <1>3, SizingValues, TotalOfNaturals DEF SizingInv, Sizes!Sized, Sizes!SlotsHeld, Sizes!Open
  <2>4. Sizes(paper, cycles)!Total(s6') <= OpenMost
    BY <1>3, <2>2, <2>3, SizingValues
  <2> QED BY <1>6, <2>4, SizingValues DEF SizingTypes, Sizes!SlotsHeld, Sizes!Open
<1> QED BY <1>2, <1>6, <1>7, <1>8, BookedStays DEF SizingInv, Sizes!Sized

LEMMA SizesPriced ==
    ASSUME NEW paper \in BOOLEAN, NEW cycles, SizingInv(paper, cycles),
           NEW p \in SizedPool, Sizes(paper, cycles)!Price(p)
    PROVE  SizingInv(paper, cycles)'
<1>1. /\ s10.pc = "idle" /\ s5' = [s5 EXCEPT ![p] = s5[p] \div 2] /\ UNCHANGED <<s1, s2, s6, s9, s10>>
      /\ s11' = Sizes(paper, cycles)!NoneYet
  BY DEF Sizes!Price
<1>2. s5[p] \div 2 \in Nat
  BY DEF SizingInv, SizingTypes
<1>3. SizingTypes' /\ UnderWay(paper, cycles)'
  BY <1>1, <1>2 DEF SizingInv, SizingTypes, UnderWay
<1>4. Sizes(paper, cycles)!SlotsHeld'
  BY <1>1 DEF SizingInv, Sizes!Sized, Sizes!SlotsHeld, Sizes!Open
<1> QED BY <1>1, <1>3, <1>4, BookedStays DEF SizingInv, Sizes!Sized

LEMMA SizesNext ==
    ASSUME NEW paper \in BOOLEAN, NEW cycles, SizingInv(paper, cycles),
           [Sizes(paper, cycles)!Next]_<<s1, s2, s3, s4, s5, s6, s7, s8, s9, s10, s11>>
    PROVE  SizingInv(paper, cycles)'
<1>1. CASE Sizes(paper, cycles)!Next
  BY <1>1, SizesStarted, SizesSlotted, SizesRedeployed, SizesProposed, SizesJudged, SizesEntered,
     SizesLeft, SizesPriced DEF Sizes!Next
<1>2. CASE UNCHANGED <<s1, s2, s3, s4, s5, s6, s7, s8, s9, s10, s11>>
  <2>1. SizingTypes'
    BY <1>2 DEF SizingInv, SizingTypes
  <2>2. UnderWay(paper, cycles)'
    <3>1. Sizes(paper, cycles)!MinEntry' = Sizes(paper, cycles)!MinEntry
      BY <1>2 DEF Sizes!MinEntry
    <3> QED BY <1>2, <3>1, MoneyStays DEF SizingInv, UnderWay
  <2>3. Sizes(paper, cycles)!SlotsHeld'
    BY <1>2, MoneyStays DEF SizingInv, Sizes!Sized
  <2> QED BY <1>2, <2>1, <2>2, <2>3, BookedStays DEF SizingInv, Sizes!Sized
<1> QED BY <1>1, <1>2
=============================================================================
