------------------------------ MODULE MCParts ------------------------------
(***************************************************************************)
(* The components that need few values, and one state machine that is any  *)
(* one of them: `part` says which, and never changes.  The components      *)
(* never meet here, so they share the variables s1, s2, ...: each instance *)
(* substitutes as many of them as it has, in the order in which it         *)
(* declares its own.  The components with proofs have their constants      *)
(* declared here or in MCRecords, the others have them here as values.     *)
(***************************************************************************)
EXTENDS MCRecords

CONSTANTS
    Part,      \* the parts to check
    \* PoolEvaluation
    Pos, PoolLeg, Level, Confirm, Grace, MaxPerPool, Challenger, Required,
    SmartFreeze, DustExit, Cap,
    \* Accounts, of the links and of the referrals
    User, LinkChat, Code, Confirmation, MaxAttempts, Member, Application, Milestone,
    \* TokenRisk
    TokenMint, Flaws, Ttl, ChallengeMode,
    \* Updater, Schema
    LastVersion, Runs, Process, Launches,
    \* AcpTransport, GatewayTransport
    Prompt, WindowSize, MinSamples, MinSlow, MaxAge, Children, Question, Socket

VARIABLE part

slots == <<s1, s2, s3, s4, s5, s6, s7, s8, s9, s10, s11, s12, s13, s14, s15>>
vars == <<part, slots>>

\* A token nobody vouches for, whose probe answers "reject".
OneLeg ==
    {[trusted |-> FALSE, freeze |-> TRUE, banned |-> FALSE, sus |-> FALSE,
      verified |-> FALSE, probe |-> "reject"]}

SignatureOf(r) == IF r = "r3" THEN "s2" ELSE "s1"

Wallets == [t : {0, 2, 5}, n : {0, 2, 5}, eth : {0, 5}]

\* A listing that passes every gate, against a stable coin.
Quote == [stable |-> TRUE, verified |-> FALSE, freezable |-> "no", holders |-> "unknown"]
OneListing ==
    [pool |-> "p1", tvl |-> 2, turnover |-> "fair", fees |-> 2, step |-> "fair",
     x |-> [Quote EXCEPT !.stable = FALSE], y |-> Quote, age |-> "old",
     bins |-> "unknown", authentic |-> TRUE, report |-> "clean", history |-> "flat"]

Listings == {OneListing}
BoundsOfTvl == [dust |-> 1, min |-> 2, max |-> 3]

\* The liquidity of a large pool and of a small one.
Liquidity == [p1 |-> 160, p2 |-> 50]

\* No flaw, or one of them.
OneFlaw ==
    {{}} \cup {{f} : f \in {"empty", "methods", "honeypot", "taxed", "tax", "frozen",
                            "slots", "owner", "proxy"}}

Evaluation == INSTANCE PoolEvaluation WITH
    Leg <- PoolLeg, pc <- s1, book <- s2, feed <- s3, raw <- s4, cool <- s5,
    confirmations <- s6, replay <- s7, streak <- s8, decided <- s9, apart <- s10

Links == INSTANCE Accounts WITH
    Chat <- LinkChat, Confirm <- Confirmation, Apply <- {}, Nobody <- "nobody",
    NoChat <- "none", users <- s1, keyed <- s2,
    chat <- s3, code <- s4, confirm <- s5, told <- s6, referrer <- s7,
    apply <- s8, credit <- s9

Referrals == INSTANCE Accounts WITH
    User <- Member, Chat <- {}, Confirm <- {}, Apply <- Application,
    Nobody <- "nobody", NoChat <- "none", users <- s1, keyed <- s2,
    chat <- s3, code <- s4, confirm <- s5, told <- s6, referrer <- s7,
    apply <- s8, credit <- s9

Update == INSTANCE Updater WITH
    Latest <- LastVersion, install <- s1, place <- s2, wrapper <- s3,
    temp <- s4, kept <- s5, runs <- s6, run <- s7

Acp == INSTANCE AcpTransport WITH
    child <- s1, spawned <- s2, inbox <- s3, session <- s4, torn <- s5,
    text <- s6, cur <- s7, pc <- s8, asked <- s9, window <- s10, quiet <- s11, gaveUp <- s12, reply <- s13

Gateway == INSTANCE GatewayTransport WITH
    Prompt <- Question, sock <- s1, ws <- s2,
    connectPromise <- s3, challengeSettle <- s4, failing <- s5,
    pending <- s6, chatRuns <- s7, prompt <- s8, unhandled <- s9

Tokens == INSTANCE TokenRisk WITH
    Mint <- TokenMint, Challenge <- ChallengeMode, Tokens <- Flaws,
    token <- s1, verdict <- s2, listed <- s3, cache <- s4, told <- s5, served <- s6

Database == INSTANCE Schema WITH
    db <- s1, vec <- s2, proc <- s3, launches <- s4, was <- s5

\* What the code requires of its settings, and the model of its values, in the parts
\* that are proved about.
EvaluationAssumption ==
    /\ Confirm \in Nat \ {0} /\ Cap \in Nat /\ Grace \in Nat /\ MaxPerPool \in Nat
    /\ Level \subseteq Nat /\ 2 \in Level

TokensAssumption == Ttl \in Nat \ {0} /\ Flaws \subseteq SUBSET Tokens!Flaw

UpdateAssumption == LastVersion \in Nat \ {0} /\ Runs \in Nat

AccountsAssumption == IsFiniteSet(Member) /\ "nobody" \notin Member

AdvisorAssumption ==
    /\ WindowSize \in Nat /\ MinSamples \in Nat \ {0} /\ MaxAge \in Nat
    /\ "nobody" \notin Prompt

ASSUME PartsAssumption ==
    /\ EvaluationAssumption /\ TokensAssumption /\ UpdateAssumption
    /\ AccountsAssumption /\ AdvisorAssumption

NoValue == "unused"

\* The chosen component takes the first variables, the rest hold no value.
Init ==
    /\ part \in Part
    /\ \/ /\ part = "pool" /\ Evaluation!Init
          /\ s11 = NoValue /\ s12 = NoValue /\ s13 = NoValue
          /\ s14 = NoValue /\ s15 = NoValue
       \/ /\ part = "reports" /\ Errors!Init
          /\ s15 = NoValue
       \/ /\ part = "alerts" /\ Alerts!Init
          /\ s15 = NoValue
       \/ /\ part = "links" /\ Links!Init
          /\ s10 = NoValue /\ s11 = NoValue /\ s12 = NoValue /\ s13 = NoValue
          /\ s14 = NoValue /\ s15 = NoValue
       \/ /\ part = "referrals" /\ Referrals!Init
          /\ s10 = NoValue /\ s11 = NoValue /\ s12 = NoValue /\ s13 = NoValue
          /\ s14 = NoValue /\ s15 = NoValue
       \/ /\ part = "harvest" /\ Fees!Init
          /\ s11 = NoValue /\ s12 = NoValue /\ s13 = NoValue /\ s14 = NoValue
          /\ s15 = NoValue
       \/ /\ part = "books" /\ Books!Init
          /\ s15 = NoValue
       \/ /\ part = "entry" /\ Entry!Init
          /\ s13 = NoValue /\ s14 = NoValue /\ s15 = NoValue
       \/ /\ part = "update" /\ Update!Init
          /\ s8 = NoValue /\ s9 = NoValue /\ s10 = NoValue /\ s11 = NoValue
          /\ s12 = NoValue /\ s13 = NoValue /\ s14 = NoValue /\ s15 = NoValue
       \/ /\ part = "acp" /\ Acp!Init
          /\ s14 = NoValue /\ s15 = NoValue
       \/ /\ part = "gateway" /\ Gateway!Init
          /\ s10 = NoValue /\ s11 = NoValue /\ s12 = NoValue /\ s13 = NoValue
          /\ s14 = NoValue /\ s15 = NoValue
       \/ /\ part = "candidates" /\ Candidates!Init
       \/ /\ part = "gates" /\ Gates!Init
          /\ s14 = NoValue /\ s15 = NoValue
       \/ /\ part = "tokens" /\ Tokens!Init
          /\ s7 = NoValue /\ s8 = NoValue /\ s9 = NoValue /\ s10 = NoValue
          /\ s11 = NoValue /\ s12 = NoValue /\ s13 = NoValue /\ s14 = NoValue
          /\ s15 = NoValue
       \/ /\ part = "schema" /\ Database!Init
          /\ s6 = NoValue /\ s7 = NoValue /\ s8 = NoValue /\ s9 = NoValue
          /\ s10 = NoValue /\ s11 = NoValue /\ s12 = NoValue /\ s13 = NoValue
          /\ s14 = NoValue /\ s15 = NoValue
       \/ /\ part = "feedback" /\ Remarks!Init
          /\ s9 = NoValue /\ s10 = NoValue /\ s11 = NoValue /\ s12 = NoValue
          /\ s13 = NoValue /\ s14 = NoValue /\ s15 = NoValue
       \/ /\ part = "limiter" /\ Limiter!Init
          /\ s9 = NoValue /\ s10 = NoValue /\ s11 = NoValue /\ s12 = NoValue
          /\ s13 = NoValue /\ s14 = NoValue /\ s15 = NoValue
       \/ /\ part = "status" /\ Status!Init
          /\ s8 = NoValue /\ s9 = NoValue /\ s10 = NoValue /\ s11 = NoValue
          /\ s12 = NoValue /\ s13 = NoValue /\ s14 = NoValue /\ s15 = NoValue
       \/ /\ part = "terms" /\ Tariff!Init
          /\ s13 = NoValue /\ s14 = NoValue /\ s15 = NoValue
       \/ /\ part = "sizing" /\ Sizes(FALSE, SizingCycles)!Init
          /\ s12 = NoValue /\ s13 = NoValue /\ s14 = NoValue /\ s15 = NoValue
       \/ /\ part = "paper" /\ Sizes(TRUE, PaperCycles)!Init
          /\ s12 = NoValue /\ s13 = NoValue /\ s14 = NoValue /\ s15 = NoValue

EvaluationStep ==
    /\ part = "pool" /\ Evaluation!Next
    /\ UNCHANGED part /\ UNCHANGED <<s11, s12, s13, s14, s15>>

ErrorsStep ==
    /\ part = "reports" /\ Errors!Next
    /\ UNCHANGED part /\ UNCHANGED <<s15>>

AlertsStep ==
    /\ part = "alerts" /\ Alerts!Next
    /\ UNCHANGED part /\ UNCHANGED <<s15>>

LinksStep ==
    /\ part = "links" /\ Links!Next
    /\ UNCHANGED part /\ UNCHANGED <<s10, s11, s12, s13, s14, s15>>

ReferralsStep ==
    /\ part = "referrals" /\ Referrals!Next
    /\ UNCHANGED part /\ UNCHANGED <<s10, s11, s12, s13, s14, s15>>

FeesStep ==
    /\ part = "harvest" /\ Fees!Next
    /\ UNCHANGED part /\ UNCHANGED <<s11, s12, s13, s14, s15>>

BooksStep ==
    /\ part = "books" /\ Books!Next
    /\ UNCHANGED part /\ UNCHANGED <<s15>>

EntryStep ==
    /\ part = "entry" /\ Entry!Next
    /\ UNCHANGED part /\ UNCHANGED <<s13, s14, s15>>

UpdateStep ==
    /\ part = "update" /\ Update!Next
    /\ UNCHANGED part /\ UNCHANGED <<s8, s9, s10, s11, s12, s13, s14, s15>>

AcpStep ==
    /\ part = "acp" /\ Acp!Next
    /\ UNCHANGED part /\ UNCHANGED <<s14, s15>>

GatewayStep ==
    /\ part = "gateway" /\ Gateway!Next
    /\ UNCHANGED part /\ UNCHANGED <<s10, s11, s12, s13, s14, s15>>

CandidatesStep ==
    /\ part = "candidates" /\ Candidates!Next
    /\ UNCHANGED part

GatesStep ==
    /\ part = "gates" /\ Gates!Next
    /\ UNCHANGED part /\ UNCHANGED <<s14, s15>>

TokensStep ==
    /\ part = "tokens" /\ Tokens!Next
    /\ UNCHANGED part /\ UNCHANGED <<s7, s8, s9, s10, s11, s12, s13, s14, s15>>

DatabaseStep ==
    /\ part = "schema" /\ Database!Next
    /\ UNCHANGED part /\ UNCHANGED <<s6, s7, s8, s9, s10, s11, s12, s13, s14, s15>>

RemarksStep ==
    /\ part = "feedback" /\ Remarks!Next
    /\ UNCHANGED part /\ UNCHANGED <<s9, s10, s11, s12, s13, s14, s15>>

LimiterStep ==
    /\ part = "limiter" /\ Limiter!Next
    /\ UNCHANGED part /\ UNCHANGED <<s9, s10, s11, s12, s13, s14, s15>>

StatusStep ==
    /\ part = "status" /\ Status!Next
    /\ UNCHANGED part /\ UNCHANGED <<s8, s9, s10, s11, s12, s13, s14, s15>>

TariffStep ==
    /\ part = "terms" /\ Tariff!Next
    /\ UNCHANGED part /\ UNCHANGED <<s13, s14, s15>>

SizesStep ==
    /\ part = "sizing" /\ Sizes(FALSE, SizingCycles)!Next
    /\ UNCHANGED part /\ UNCHANGED <<s12, s13, s14, s15>>

PaperSizesStep ==
    /\ part = "paper" /\ Sizes(TRUE, PaperCycles)!Next
    /\ UNCHANGED part /\ UNCHANGED <<s12, s13, s14, s15>>

Next ==
    \/ EvaluationStep
    \/ ErrorsStep
    \/ AlertsStep
    \/ LinksStep
    \/ ReferralsStep
    \/ FeesStep
    \/ BooksStep
    \/ EntryStep
    \/ UpdateStep
    \/ AcpStep
    \/ GatewayStep
    \/ CandidatesStep
    \/ GatesStep
    \/ TokensStep
    \/ DatabaseStep
    \/ RemarksStep
    \/ LimiterStep
    \/ StatusStep
    \/ TariffStep
    \/ SizesStep
    \/ PaperSizesStep

Spec == Init /\ [][Next]_vars

-----------------------------------------------------------------------------
(* Properties                                                              *)

\* Every variable of every component has its type.
TypeOK ==
    /\ part = "pool" => Evaluation!TypeOK
    /\ part = "reports" => Errors!TypeOK
    /\ part = "alerts" => Alerts!TypeOK
    /\ part = "links" => Links!TypeOK
    /\ part = "referrals" => Referrals!TypeOK
    /\ part = "harvest" => Fees!TypeOK
    /\ part = "books" => Books!TypeOK
    /\ part = "entry" => Entry!TypeOK
    /\ part = "update" => Update!TypeOK
    /\ part = "acp" => Acp!TypeOK
    /\ part = "gateway" => Gateway!TypeOK
    /\ part = "candidates" => Candidates!TypeOK
    /\ part = "gates" => Gates!TypeOK
    /\ part = "tokens" => Tokens!TypeOK
    /\ part = "schema" => Database!TypeOK
    /\ part = "feedback" => Remarks!TypeOK
    /\ part = "limiter" => Limiter!TypeOK
    /\ part = "status" => Status!TypeOK
    /\ part = "terms" => Tariff!TypeOK
    /\ part = "sizing" => Sizes(FALSE, SizingCycles)!TypeOK
    /\ part = "paper" => Sizes(TRUE, PaperCycles)!TypeOK

\* A stop that is breached for its confirmations is acted on (PoolEvaluation).
BreachActedOn == part = "pool" => Evaluation!BreachActedOn

\* The backtest exits before the engine only on what the engine lost, rejected or did
\* not save (PoolEvaluation).
ReplayExitIsLive == [][part = "pool" => Evaluation!ReplayStep]_vars

\* However batches and flushes are retried, overlap or die: a report is counted
\* once and kept until it is, an alert is not repeated (Telemetry); what is told
\* stored is stored, within the limits of both sides (Feedback); a status is shown
\* only with what it stands for, for its time (EngineState).
DeliveredOnce ==
    /\ part = "reports" => Errors!CountedOnce /\ Errors!ReportKept
    /\ part = "alerts" => Alerts!AlertNotRepeated
    /\ part = "feedback" => Remarks!LimitsHold /\ Remarks!ToldStored
    /\ part = "limiter" => Limiter!RateCapped
    /\ part = "status" => Status!BeatBacked /\ Status!RunningFades

\* Concurrent confirmations link a code once, concurrent applications pay a
\* referral once (Accounts).
AccountsSound ==
    /\ part = "links" => Links!LinkOnce
    /\ part = "referrals" => Referrals!BonusesBacked

\* A position is harvested once in a pass, with no more booked than the chain
\* paid, through re-keying and restarts; a mint is sent only while the wallet
\* covers it; fees are claimed under terms in force; a booked PnL counts every
\* piece once (Harvest, EntryFunding, RevenueTerms, ExitBooking).
FundsAccounted ==
    /\ part = "harvest" => Fees!HarvestedOnce /\ Fees!FeesBacked
    /\ part = "entry" => Entry!MintCovered
    /\ part = "books" => Books!BookedOnce /\ Books!EndsBooked
    /\ part = "terms" => Tariff!NoFeeWithoutWallet /\ Tariff!TermsInForce

\* The version that ran survives an update that fails or is killed; the rows of
\* the database survive its migrations, which leave what the queries name, but
\* for the error of a job where v23 rebuilt jobs held to SOL (Updater, Schema).
PreviousKept ==
    /\ part = "update" => Update!PreviousKept
    /\ part = "schema" => Database!RowsKept /\ Database!QueriesHold

\* An answer of the advisor holds its own words, a skip of its reviews ends, a
\* rejection of its connection is heard and no run of it is left behind
\* (AcpTransport, GatewayTransport).
AdvisorSound ==
    /\ part = "acp" => Acp!OwnWords /\ Acp!SkipDrains
    /\ part = "gateway" => Gateway!Handled /\ Gateway!NoRunLeft

\* The scan set holds what is held, an entry was earned by healthy scans, an exit
\* is followed by its cooldown, across restarts; what is entered the exit chain
\* takes out at once only for what no gate looks at or a setting looser than it,
\* and it is no pool whose gates were skipped, and is sized within every cap,
\* above its floor (CandidateBook, EntryGates, Sizing).
EntriesSound ==
    /\ part = "candidates" => /\ Candidates!HeldScanned
                              /\ Candidates!StreakProven
                              /\ Candidates!CooldownServed
    /\ part = "gates" => Gates!EntryOutlives /\ Gates!RedeployVetted
    /\ part = "sizing" => Sizes(FALSE, SizingCycles)!Sized
    /\ part = "paper" => Sizes(TRUE, PaperCycles)!Sized

\* A revoked verification is not served, an unverified transfer is not passed
\* (TokenRisk).
TokensSound == part = "tokens" => Tokens!ServedAsTold /\ Tokens!OkVerified

\* What the code and its comments say and the runs refute.

\* A compound adds to the basis only what it deposits (Harvest).
CompoundDeposited == part = "harvest" => Fees!CompoundDeposited

\* Funding an entry swaps each leg once (EntryFunding).
SwappedOnce == part = "entry" => Entry!SwappedOnce

\* An update that fails leaves the version that ran installed (Updater).
FailureRestores == part = "update" => Update!FailureRestores

\* A probe that fails never rejects sound tokens (TokenRisk).
SoundNotRejected == part = "tokens" => Tokens!SoundNotRejected

\* A pool that would be rotated out at once is never entered (EntryGates).
NeverRotatedOut == part = "gates" => Gates!NeverRotatedOut

\* A signal heard is known until an answer replaces it (TokenRisk).
SignalRemembered == part = "tokens" => Tokens!SignalRemembered

\* A migrated database can store a settlement job (Schema).
JobsStored == part = "schema" => Database!JobsStored

\* A live entry never counts deployed capital twice (Sizing).
LiveCapHeld == part = "sizing" => Sizes(FALSE, SizingCycles)!LiveCapHeld

\* An agent's size keeps within the share of the pool (Sizing).
ShareCapHeld == part = "sizing" => Sizes(FALSE, SizingCycles)!ShareCapHeld

=============================================================================
