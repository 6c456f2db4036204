----------------------------- MODULE MCRecords -----------------------------
(***************************************************************************)
(* The components of MCParts that account for funds and for what is        *)
(* delivered, by themselves: fees and books, the funding of an entry, the  *)
(* terms of the fees, telemetry, feedback and the engine's status.  They   *)
(* share the variables s1, s2, ...: each instance substitutes as many of   *)
(* them as it has, in the order in which it declares its own.              *)
(***************************************************************************)
EXTENDS Naturals, Sequences, FiniteSets

CONSTANTS
    \* Harvest, ExitBooking
    Mints, Destination, AutoCompound, ClaimFloor, FeesEarned, Restarts,
    PutIn, TopWorth, SweptFees,
    \* EntryFunding
    LegNeed, Balances, TwoSidedOnly, EntryTries,
    \* RevenueTerms
    Tier, TopRate, FeeWallet, PaperTerms, TermsTtl, NegativeTtl, TermsTime,
    \* Telemetry, of the reports and of the alerts
    ErrorReport, BadReport, ErrorKind, KindOf(_), FlushSize, Buffer, BatchesSent,
    Notice, Flusher, FlushLimit, AbandonAfter,
    \* Feedback, of the submissions and of the limiter
    Speaker, Remark, Apart, HourTicks, DayTicks, HourMost, DayMost,
    RemarkHits, RemarkTime, RemarkRequests, LimiterHits, LimiterTime, LimiterRequests,
    \* EngineState
    StatusPool, WorkTime, BeatTtl, KeepTicks, StatusTime, StatusReports, StatusLaunches,
    \* CandidateBook
    Shown, Approved, TvlBounds, ActiveCount, HealthyScans, BookRestarts,
    \* EntryGates
    GateFee, GateAuth, GateYield, GateDrop, FeeLimit, AuthLimit, LeastFee, DropLimit,
    FallenOn, PoolCap, AdoptedMost,
    \* Sizing, live and on paper
    SizedPool, PoolTvl, SeedUsd, Cash, CapPart, SharePart, EquityPart, TvlPart,
    SizeMost, SizeFloor, UsualFloor, IdleLeast, RedeployMost, AgentPart, Asked,
    PoolMost, OpenMost, SizingCycles, PaperCycles

VARIABLES s1, s2, s3, s4, s5, s6, s7, s8, s9, s10, s11, s12, s13, s14, s15

Fees == INSTANCE Harvest WITH
    Id <- 1 .. Mints, Mode <- Destination, Auto <- AutoCompound,
    Floor <- ClaimFloor, Earned <- FeesEarned, pc <- s1, nft <- s2, tracked <- s3, row <- s4, seen <- s5,
    job <- s6, minted <- s7, restarts <- s8, paid <- s9, taken <- s10

Books == INSTANCE ExitBooking WITH
    Leg <- {"x", "y"}, Deposit <- PutIn, Top <- TopWorth, Earned <- SweptFees,
    pc <- s1, autonomous <- s2, chain <- s3, pos <- s4, row <- s5, out <- s6,
    due <- s7, job <- s8, outcome <- s9, told <- s10, put <- s11, got <- s12,
    missed <- s13, restarts <- s14

Entry == INSTANCE EntryFunding WITH
    Need <- LegNeed, Wallet <- Balances, Required <- TwoSidedOnly,
    Entries <- EntryTries, pc <- s1,
    weth <- s2, doomed <- s3, bal <- s4, eth <- s5, read <- s6, swap <- s7,
    mode <- s8, late <- s9, entries <- s10, swaps <- s11, outlived <- s12

Tariff == INSTANCE RevenueTerms WITH
    Rate <- Tier, MaxRate <- TopRate, Wallet <- FeeWallet, NoWallet <- "none",
    Paper <- PaperTerms, Ttl <- TermsTtl, MaxTime <- TermsTime, clock <- s1,
    rate <- s2, wallet <- s3, rateAt <- s4, walletAt <- s5, key <- s6,
    cached <- s7, stored <- s8, pc <- s9, asked <- s10, used <- s11,
    failed <- s12

Errors == INSTANCE Telemetry WITH
    Report <- ErrorReport, Malformed <- BadReport, Signature <- ErrorKind, Fingerprint <- KindOf,
    BatchSize <- FlushSize, MaxPending <- Buffer, MaxSends <- BatchesSent,
    Alert <- {}, Flush <- {}, Limit <- FlushLimit, Abandon <- AbandonAfter,
    pending <- s1, waiting <- s2, wire <- s3, answered <- s4, receipts <- s5,
    occurrences <- s6, enabled <- s7, row <- s8, flush <- s9, made <- s10,
    applied <- s11, dropped <- s12, sends <- s13, lost <- s14

Alerts == INSTANCE Telemetry WITH
    Report <- {}, Malformed <- {}, Signature <- {}, Fingerprint <- KindOf,
    BatchSize <- FlushSize, MaxPending <- Buffer, MaxSends <- BatchesSent,
    Alert <- Notice, Flush <- Flusher, Limit <- FlushLimit,
    Abandon <- AbandonAfter, pending <- s1,
    waiting <- s2, wire <- s3, answered <- s4, receipts <- s5,
    occurrences <- s6, enabled <- s7, row <- s8, flush <- s9, made <- s10,
    applied <- s11, dropped <- s12, sends <- s13, lost <- s14

Remarks == INSTANCE Feedback WITH
    Submitter <- Speaker, Hash <- Remark, Interval <- Apart,
    Hour <- HourTicks, Day <- DayTicks, PerHour <- HourMost, PerDay <- DayMost,
    MaxHits <- RemarkHits, Others <- FALSE, MaxTime <- RemarkTime,
    Requests <- RemarkRequests, clock <- s1, local <- s2,
    sub <- s3, req <- s4, cloud <- s5, counter <- s6, accepted <- s7,
    told <- s8

Limiter == INSTANCE Feedback WITH
    Submitter <- Speaker, Hash <- Remark, Interval <- Apart,
    Hour <- HourTicks, Day <- DayTicks, PerHour <- HourMost, PerDay <- DayMost,
    MaxHits <- LimiterHits, Others <- TRUE, MaxTime <- LimiterTime,
    Requests <- LimiterRequests, clock <- s1, local <- s2,
    sub <- s3, req <- s4, cloud <- s5, counter <- s6, accepted <- s7,
    told <- s8

Status == INSTANCE EngineState WITH
    Pool <- StatusPool, Life <- WorkTime, Ttl <- BeatTtl, Retention <- KeepTicks,
    MaxTime <- StatusTime, Reports <- StatusReports, Launches <- StatusLaunches,
    clock <- s1, engine <- s2, launches <- s3,
    req <- s4, snapshots <- s5, decisions <- s6, beat <- s7

Candidates == INSTANCE CandidateBook WITH
    Listing <- Shown, Watchlist <- Approved, Tvl <- TvlBounds,
    Active <- ActiveCount, MinHealthy <- HealthyScans, Restarts <- BookRestarts,
    cand <- s1, table <- s2, book <- s3, scan <- s4, unresolved <- s5, open <- s6,
    phase <- s7, todo <- s8, found <- s9, resting <- s10, entrants <- s11,
    streak <- s12, saving <- s13, lost <- s14, restarts <- s15

Gates == INSTANCE EntryGates WITH
    Fee <- GateFee, Auth <- GateAuth, Yield <- GateYield, Drop <- GateDrop,
    FeeThr <- FeeLimit, AuthThr <- AuthLimit, FeeFloor <- LeastFee,
    ExitDrop <- DropLimit, Fallen <- FallenOn, MaxPerPool <- PoolCap,
    MaxAdopted <- AdoptedMost, pc <- s1, r <- s2, thr <- s3, own <- s4,
    adopted <- s5, rejected <- s6, proofs <- s7, raw <- s8, cand <- s9,
    exited <- s10, mode <- s11, calm <- s12, sent <- s13

\* Live and on paper.
Sizes(paper, cycles) == INSTANCE Sizing WITH
    Pool <- SizedPool, Tvl <- PoolTvl, Paper <- paper, Seed <- SeedUsd,
    Balance <- Cash, CapPct <- CapPart, SharePct <- SharePart,
    EquityPct <- EquityPart, TvlPct <- TvlPart, MaxSize <- SizeMost,
    Floor <- SizeFloor, DefaultFloor <- UsualFloor, Threshold <- IdleLeast,
    RedeployMax <- RedeployMost, AgentPct <- AgentPart, Proposed <- Asked,
    MaxPerPool <- PoolMost, MaxOpen <- OpenMost, Cycles <- cycles,
    wallet <- s1, read <- s2, known <- s3, blocked <- s4, worth <- s5, held <- s6,
    cycle <- s7, visited <- s8, candidates <- s9, d <- s10, last <- s11

\* What the code requires of its settings, and the model of its values.
FeesAssumption == Mints \in Nat \ {0} /\ ClaimFloor \in Nat /\ FeesEarned \in Nat

BooksAssumption == PutIn \in Nat /\ TopWorth \in Nat /\ SweptFees \in Nat

EntryAssumption == LegNeed \in Nat \ {0} /\ Balances \subseteq [t : Nat, n : Nat, eth : Nat]

TermsAssumption == TermsTtl \in Nat /\ NegativeTtl \in Nat /\ "none" \notin FeeWallet

ReportsAssumption == FlushSize \in Nat /\ Buffer \in Nat \ {0}

AlertsAssumption == AbandonAfter \in Nat /\ "nobody" \notin Flusher

RemarksAssumption ==
    /\ IsFiniteSet(Speaker) /\ Speaker # {}
    /\ HourTicks \in Nat /\ DayTicks \in Nat /\ HourMost \in Nat /\ DayMost \in Nat
    /\ LimiterHits \in Nat \ {0}

\* A snapshot is kept for longer than a report is worked on and its heartbeat lives.
StatusAssumption ==
    /\ WorkTime \in Nat /\ BeatTtl \in Nat
    /\ KeepTicks \in Nat /\ KeepTicks >= WorkTime + BeatTtl

CandidatesAssumption == HealthyScans \in Nat

GatesAssumption ==
    /\ GateFee \subseteq Nat /\ GateAuth \subseteq Nat /\ GateYield \subseteq Nat
    /\ GateDrop \subseteq Nat /\ FeeLimit \subseteq Nat /\ AuthLimit \subseteq Nat
    /\ LeastFee \in Nat /\ DropLimit \in Nat /\ PoolCap \in Nat /\ AdoptedMost \in Nat

SizesAssumption ==
    /\ IsFiniteSet(SizedPool) /\ PoolTvl \in [SizedPool -> Nat]
    /\ {SeedUsd, Cash, CapPart, SharePart, EquityPart, TvlPart, SizeMost, SizeFloor,
        UsualFloor, IdleLeast, RedeployMost, AgentPart, PoolMost, OpenMost} \subseteq Nat
    /\ Asked \subseteq Nat

ASSUME RecordsAssumption ==
    /\ FeesAssumption /\ BooksAssumption /\ EntryAssumption /\ TermsAssumption
    /\ ReportsAssumption /\ AlertsAssumption /\ RemarksAssumption /\ StatusAssumption
    /\ CandidatesAssumption /\ GatesAssumption /\ SizesAssumption

=============================================================================
