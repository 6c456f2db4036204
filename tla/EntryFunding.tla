---------------------------- MODULE EntryFunding ----------------------------
(***************************************************************************)
(* How an entry is paid for (enterPosition in engine/adapter-service.ts):  *)
(* from both legs as held, by swapping the surplus of the held leg into    *)
(* the missing one, by swapping native coins, or single-sided; then the    *)
(* wrap and the mint.  Every transaction may be refused before it is       *)
(* broadcast, revert, or outlive the wait for its receipt and land later.  *)
(* The wallet's other traffic is left out: a settlement that sells in the  *)
(* meantime may take what the entry has counted on.                        *)
(***************************************************************************)
EXTENDS Naturals

CONSTANTS
    Need,      \* atomic amount of each leg of a two-sided mint
    Wallet,    \* balances an entry may find: [t, n, eth]
    Required,  \* ENTRY_REQUIRE_TWO_SIDED
    Entries    \* bound: attempts to enter

\* Leg "t" is a token; leg "n" is WETH if weth holds, else a token too.
Leg == {"t", "n"}
Full == 2 * Need
Other(l) == IF l = "t" THEN "n" ELSE "t"

VARIABLES
    pc,
    weth,
    doomed,    \* the mint reverts whatever the wallet holds
    bal,       \* balances of the legs
    eth,
    read,      \* what the entry read of them: [t, n, eth]
    swap,      \* the swap in hand: [from, to, in, floor, tries]
    mode,      \* how the mint is funded
    late,      \* swaps broadcast, not mined yet
    entries,
    \* observation
    swaps,     \* held-leg swaps this entry broadcast
    outlived   \* some swap outlived the wait for its receipt

vars == <<pc, weth, doomed, bal, eth, read, swap, mode, late, entries, swaps, outlived>>
setup == <<weth, doomed>>
wallet == <<bal, eth>>

NoSwap == [from |-> "none", to |-> "none", in |-> 0, floor |-> 0, tries |-> 0]

TypeOK ==
    /\ pc \in {"idle", "fund", "held", "native", "deficit", "landed", "single", "wrap", "mint"}
    /\ weth \in BOOLEAN /\ doomed \in BOOLEAN
    /\ bal \in [Leg -> Nat] /\ eth \in Nat
    /\ read \in [t : Nat, n : Nat, eth : Nat]
    /\ swap.from \in Leg \cup {"none", "eth"} /\ swap.in \in Nat /\ swap.tries \in 0 .. 2
    /\ mode \in {"none", "held", "swapped", "deficit", "single"}
    /\ entries \in 0 .. Entries /\ swaps \in 0 .. 2 /\ outlived \in BOOLEAN

Init ==
    /\ pc = "idle"
    /\ weth \in BOOLEAN /\ doomed \in BOOLEAN
    /\ \E w \in Wallet : bal = [t |-> w.t, n |-> w.n] /\ eth = w.eth
    /\ read = [t |-> 0, n |-> 0, eth |-> 0]
    /\ swap = NoSwap /\ mode = "none" /\ late = {}
    /\ entries = 0 /\ swaps = 0 /\ outlived = FALSE

-----------------------------------------------------------------------------
(* Transactions                                                            *)

Balance(from) == IF from = "eth" THEN eth ELSE bal[from]

\* A swap pays out what it was quoted or less, never less than its floor.
Pays(s) == {s.floor, Need}

Settled(s, out) ==
    IF s.from = "eth" THEN bal' = [bal EXCEPT ![s.to] = @ + out] /\ eth' = eth - s.in
    ELSE bal' = [bal EXCEPT ![s.from] = @ - s.in, ![s.to] = @ + out] /\ UNCHANGED eth

Mined(s) == Balance(s.from) >= s.in /\ \E out \in Pays(s) : Settled(s, out)

\* sendTx: the dry run lets through what the wallet covers.
Broadcastable(s) == Balance(s.from) >= s.in

\* A swap whose receipt was not awaited to its end is mined after all, or dropped.
Late(s) ==
    /\ s \in late /\ late' = late \ {s}
    /\ Mined(s) \/ UNCHANGED wallet
    /\ UNCHANGED <<pc, setup, read, swap, mode, entries, swaps, outlived>>

Outlives(s) == Broadcastable(s) /\ late' = late \cup {s} /\ outlived' = TRUE

Fail == pc' = "idle" /\ mode' = "none" /\ swap' = NoSwap

-----------------------------------------------------------------------------
(* Funding                                                                 *)

\* Legs without a price cannot be sized: nothing is read.
Enter ==
    /\ pc = "idle" /\ entries < Entries /\ entries' = entries + 1
    /\ pc' = "fund" /\ swaps' = 0
    /\ read' = [t |-> bal["t"], n |-> bal["n"], eth |-> eth]
    /\ UNCHANGED <<setup, wallet, swap, mode, late, outlived>>

\* The leg that is short while the other has more than its half.
Short == {l \in Leg : read[l] < Need /\ read[Other(l)] > Need}

TwoSided ==
    /\ pc = "fund" /\ \A l \in Leg : read[l] >= Need
    /\ pc' = "wrap" /\ mode' = "held"
    /\ UNCHANGED <<setup, wallet, read, swap, late, entries, swaps, outlived>>

\* trySwapHeldToTwoSided: the input is scaled up, within the surplus, until the
\* floor of the quote covers the deficit.
QuoteHeld(l) ==
    /\ pc = "fund" /\ l \in Short
    /\ \E amount \in 1 .. read[Other(l)] - Need :
         swap' = [from |-> Other(l), to |-> l, in |-> amount, floor |-> Need - read[l], tries |-> 0]
    /\ pc' = "held"
    /\ UNCHANGED <<setup, wallet, read, mode, late, entries, swaps, outlived>>

\* No surplus, no route, or a floor that stays below the deficit.
NotHeld ==
    /\ pc = "fund" /\ ~\A l \in Leg : read[l] >= Need
    /\ pc' = "native"
    /\ UNCHANGED <<setup, wallet, read, swap, mode, late, entries, swaps, outlived>>

\* An error of the transport, a receipt timeout included, is tried once more if a
\* new quote still covers the deficit; any other gives the swap up.
Retried(kind) ==
    IF kind = "transport" /\ swap.tries = 0
    THEN swap' \in {[swap EXCEPT !.tries = 1], NoSwap} ELSE swap' = NoSwap

SwapHeld ==
    /\ pc = "held"
    /\ \/ /\ Broadcastable(swap) /\ Mined(swap) /\ swaps' = swaps + 1
          /\ pc' = "wrap" /\ mode' = "swapped" /\ swap' = NoSwap
          /\ UNCHANGED <<late, outlived>>
       \/ /\ \E kind \in {"revert", "transport"} :
               /\ Retried(kind)
               /\ \/ UNCHANGED <<late, swaps, outlived>>
                  \/ kind = "transport" /\ Outlives(swap) /\ swaps' = swaps + 1
          /\ pc' = IF swap' = NoSwap THEN "native" ELSE "held"
          /\ UNCHANGED <<wallet, mode>>
    /\ UNCHANGED <<setup, read, entries>>

\* Native coins pay for the token leg of a pool whose other leg is WETH, once a dry
\* run of the mint with the balances injected passes, or tells nothing.
Simulated == pc = "native" /\ ~Required /\ read.eth > 0 /\ weth

\* What the coins read leave for the token leg, their own half put aside. The floor is
\* that of the quote before the last bump of the input.
DeficitQuotes ==
    {[from |-> "eth", to |-> "t", in |-> amount, floor |-> floor, tries |-> 0] :
        amount \in Need .. 2 * Need, floor \in {Need, Need - 1}}

SimulateMint ==
    /\ Simulated
    /\ \/ /\ swap' \in {s \in DeficitQuotes : read.eth >= s.in + Need}
          /\ pc' = "deficit" /\ UNCHANGED mode
       \/ pc' = "single" /\ UNCHANGED <<swap, mode>>
       \/ doomed /\ Fail
    /\ UNCHANGED <<setup, wallet, read, late, entries, swaps, outlived>>

NoNative ==
    /\ pc = "native" /\ ~Simulated
    /\ IF Required THEN Fail ELSE pc' = "single" /\ UNCHANGED <<mode, swap>>
    /\ UNCHANGED <<setup, wallet, read, late, entries, swaps, outlived>>

\* swapToFundDeficit broadcasts the floor computed before the input was bumped,
\* which may be short of the deficit. Any failure ends the entry.
SwapDeficit ==
    /\ pc = "deficit"
    /\ \/ /\ Broadcastable(swap) /\ Mined(swap)
          /\ pc' = "landed" /\ swap' = NoSwap /\ UNCHANGED <<mode, late, outlived>>
       \/ /\ Fail /\ UNCHANGED wallet
          /\ UNCHANGED <<late, outlived>> \/ Outlives(swap)
    /\ UNCHANGED <<setup, read, entries, swaps>>

\* Mutant: the swap is taken at its word.
CoversUnread(held) == TRUE

\* What the swap left in the wallet, a failed read counting as nothing.
Covers(held) == held >= Need

CheckDeficit ==
    /\ pc = "landed"
    /\ \E held \in {0, bal["t"]} :
         IF Covers(held) THEN pc' = "wrap" /\ mode' = "deficit" /\ UNCHANGED swap ELSE Fail
    /\ UNCHANGED <<setup, wallet, read, late, entries, swaps, outlived>>

Wrapable(b, coins, l) == b[l] + IF l = "n" /\ weth THEN coins ELSE 0

\* One leg alone must carry the whole size, by the balances first read.
SingleSided ==
    /\ pc = "single"
    /\ IF \E l \in Leg : Wrapable(read, read.eth, l) >= Full
       THEN pc' = "wrap" /\ mode' = "single" /\ UNCHANGED swap ELSE Fail
    /\ UNCHANGED <<setup, wallet, read, late, entries, swaps, outlived>>

-----------------------------------------------------------------------------
(* Minting                                                                 *)

Side == IF Wrapable(read, read.eth, "t") >= Full THEN "t" ELSE "n"
Amount(l) == IF mode # "single" THEN Need ELSE IF l = Side THEN Full ELSE 0

\* The WETH short of the amount is wrapped, by a transaction of its own.
Wrap ==
    /\ pc = "wrap"
    /\ \/ LET short == IF weth /\ bal["n"] < Amount("n") THEN Amount("n") - bal["n"] ELSE 0 IN
            /\ eth >= short
            /\ eth' = eth - short /\ bal' = [bal EXCEPT !["n"] = @ + short]
            /\ pc' = "mint" /\ UNCHANGED <<mode, swap>>
       \/ Fail /\ UNCHANGED wallet
    /\ UNCHANGED <<setup, read, late, entries, swaps, outlived>>

Funded == \A l \in Leg : bal[l] >= Amount(l)

\* A mint the wallet does not cover, or that is doomed, does not pass its dry run.
\* What was swapped stays in the wallet.
Mint ==
    /\ pc = "mint"
    /\ Fail
    /\ \/ ~doomed /\ Funded /\ bal' = [l \in Leg |-> bal[l] - Amount(l)] /\ UNCHANGED eth
       \/ UNCHANGED wallet
    /\ UNCHANGED <<setup, read, late, entries, swaps, outlived>>

Next ==
    \/ Enter \/ TwoSided \/ NotHeld \/ SwapHeld \/ SimulateMint \/ NoNative
    \/ SwapDeficit \/ CheckDeficit \/ SingleSided \/ Wrap \/ Mint
    \/ \E l \in Leg : QuoteHeld(l)
    \/ \E s \in late : Late(s)

Spec == Init /\ [][Next]_vars

-----------------------------------------------------------------------------
(* Properties                                                              *)

\* Whatever pays for it, a mint is covered on both legs when it is sent: a swap of
\* the held leg leaves that leg its half, and one of native coins, though its floor
\* may be stale and short, leaves the coins to wrap. Unless a swap outlived its wait.
MintCovered == pc = "mint" /\ ~outlived => Funded

\* "True when a pre-broadcast mint eth_call failed for transport/rate-limit reasons"
\* (isInconclusiveRpcSimFailure): what an entry swaps again was not broadcast before.
SwappedOnce == swaps <= 1

=============================================================================
