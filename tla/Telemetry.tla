------------------------------ MODULE Telemetry ------------------------------
(***************************************************************************)
(* What the engine tells the cloud: error reports, queued in the engine    *)
(* (error-reporter.ts) and counted once by the API although batches are    *)
(* retried, and alerts, stored by the API and polled by the Telegram bot   *)
(* (telegram-bot/index.ts), where flushes overlap and die.                 *)
(*                                                                         *)
(* The network may answer late, never, or after the sender gave up.        *)
(***************************************************************************)
EXTENDS Naturals, SequencesExt, FiniteSetsExt

CONSTANTS
    Report,     \* error reports, each with an id of its own
    Malformed,  \* those the API refuses: no message, or one that is too long
    Signature,  \* their fingerprints
    Fingerprint(_),   \* the fingerprint of a report
    BatchSize,  \* reports per flush
    MaxPending, \* MAX_PENDING_BUFFER
    MaxSends,   \* bound: batches sent
    Alert,
    Flush,      \* flushes of the alerts that may overlap
    Limit,      \* FLUSH_BATCH_LIMIT
    Abandon     \* FLUSH_ABANDON_ATTEMPTS

VARIABLES
    pending,  \* the reporter's buffer
    waiting,  \* batches the reporter awaits the answer of
    wire,     \* batches on their way to the API
    answered, \* batches the API accepted and whose answer is on its way
    receipts, \* error_report_receipts
    occurrences, \* error_logs.occurrence_count by fingerprint
    \* alerts
    enabled,  \* users.alerts_enabled
    row,      \* alerts rows
    flush,    \* a flush: [pc, todo, sent]
    \* observation
    made, applied, dropped, \* reports made, counted, given up
    sends, lost  \* by alert: messages Telegram took; claims that were interrupted

reports == <<pending, waiting, wire, answered, receipts, occurrences, made, applied, dropped>>
alerts == <<enabled, row, flush, sends, lost>>
vars == <<pending, waiting, wire, answered, receipts, occurrences, made, applied, dropped,
          enabled, row, flush, sends, lost>>

Batches == {b \in Seq(Report) : Len(b) \in 1 .. BatchSize}

TypeOK ==
    /\ pending \in Seq(Report) /\ Len(pending) <= MaxPending
    /\ \A m \in waiting \cup wire \cup answered :
         m.no \in 1 .. MaxSends /\ m.batch \in Batches
    /\ receipts \subseteq Report
    /\ occurrences \in [Signature -> Nat]
    /\ made \subseteq Report /\ applied \subseteq Report /\ dropped \subseteq Report
    /\ enabled \in BOOLEAN
    /\ row \in [Alert -> [at : {"none", "pending", "claimed", "delivered"}, by : Flush \cup {"nobody"},
                          attempts : 0 .. Abandon]]
    /\ flush \in [Flush -> [pc : {"off", "claim", "send"}, todo : SUBSET Alert]]
    /\ sends \in [Alert -> Nat] /\ lost \in [Alert -> Nat]

Init ==
    /\ pending = <<>> /\ waiting = {} /\ wire = {} /\ answered = {}
    /\ receipts = {} /\ occurrences = [s \in Signature |-> 0]
    /\ made = {} /\ applied = {} /\ dropped = {}
    /\ enabled = TRUE
    /\ row = [a \in Alert |-> [at |-> "none", by |-> "nobody", attempts |-> 0]]
    /\ flush = [k \in Flush |-> [pc |-> "off", todo |-> {}]]
    /\ sends = [a \in Alert |-> 0] /\ lost = [a \in Alert |-> 0]

-----------------------------------------------------------------------------
(* Error reports                                                           *)

\* A full buffer drops its oldest report.
ReportError(r) ==
    /\ r \notin made
    /\ made' = made \cup {r}
    /\ IF Len(pending) >= MaxPending
       THEN pending' = Append(Tail(pending), r) /\ dropped' = dropped \cup {Head(pending)}
       ELSE pending' = Append(pending, r) /\ UNCHANGED dropped
    /\ UNCHANGED <<waiting, wire, answered, receipts, occurrences, applied, alerts>>

NextNo == IF waiting \cup wire \cup answered = {} THEN 1
          ELSE 1 + Max({m.no : m \in waiting \cup wire \cup answered})

\* At most BatchSize reports go out at once; the buffer flushes again, and a
\* timer flushes it, while an earlier batch is still awaited.
FlushReports ==
    /\ pending # <<>> /\ NextNo <= MaxSends
    /\ LET n == Min({Len(pending), BatchSize})
           m == [no |-> NextNo, batch |-> SubSeq(pending, 1, n)]
       IN  /\ pending' = SubSeq(pending, n + 1, Len(pending))
           /\ waiting' = waiting \cup {m} /\ wire' = wire \cup {m}
    /\ UNCHANGED <<answered, receipts, occurrences, made, applied, dropped, alerts>>

\* mutant: the summary is updated whether or not the receipt is new
UncountedAll(batch) == ToSet(batch) \ Malformed

\* The sound reports of a batch whose receipt is not there yet.
Uncounted(batch) == (ToSet(batch) \ Malformed) \ receipts

\* Malformed reports are left out one by one, and named in an answer the reporter
\* does not read; a batch that holds nothing else is refused.  Of the rest one D1
\* batch stores receipts, then the summary of each report that is new, all or
\* nothing.  A request over the rate limit, or refused, changes nothing.
ServeBatch(m) ==
    /\ m \in wire
    /\ wire' = wire \ {m}
    /\ \/ /\ ToSet(m.batch) \ Malformed # {}
          /\ LET new == Uncounted(m.batch)
             IN  /\ receipts' = receipts \cup new
                 /\ occurrences' = [s \in Signature |->
                                      occurrences[s] + Cardinality({r \in new : Fingerprint(r) = s})]
                 /\ applied' = applied \cup new
                 /\ answered' = answered \cup {m}
       \/ UNCHANGED <<receipts, occurrences, applied, answered>>
    /\ UNCHANGED <<pending, waiting, made, dropped, alerts>>

Accepted(m) ==
    /\ m \in waiting \cap answered
    /\ waiting' = waiting \ {m} /\ answered' = answered \ {m}
    /\ UNCHANGED <<pending, wire, receipts, occurrences, made, applied, dropped, alerts>>

\* mutant: a batch that failed is not put back
RequeueLost(batch) == pending

\* A failed batch goes back to the front, one of malformed reports only again and
\* again, until a full buffer or a restart gives it up; what then exceeds the buffer is cut
\* off its end.
Requeue(batch) ==
    LET all == batch \o pending
    IN  SubSeq(all, 1, Min({Len(all), MaxPending}))

\* No answer in time, or an error: the API may have served the batch, or may
\* serve it yet.
Failed(m) ==
    /\ m \in waiting
    /\ waiting' = waiting \ {m} /\ answered' = answered \ {m}
    /\ LET all == m.batch \o pending
       IN  /\ pending' = Requeue(m.batch)
           /\ dropped' = dropped \cup ToSet(SubSeq(all, MaxPending + 1, Len(all)))
    /\ UNCHANGED <<wire, receipts, occurrences, made, applied, alerts>>

InUse == ToSet(pending) \cup UNION {ToSet(m.batch) : m \in waiting \cup wire}

\* Receipts go after a week; the sender of a report is taken not to retry it by
\* then.
PruneReceipts ==
    /\ receipts \ InUse # {}
    /\ receipts' = receipts \cap InUse
    /\ UNCHANGED <<pending, waiting, wire, answered, occurrences, made, applied, dropped, alerts>>

\* The buffer is in memory.
EngineRestart ==
    /\ pending # <<>> \/ waiting # {}
    /\ dropped' = dropped \cup ToSet(pending) \cup UNION {ToSet(m.batch) : m \in waiting}
    /\ pending' = <<>> /\ waiting' = {} /\ answered' = {}
    /\ UNCHANGED <<wire, receipts, occurrences, made, applied, alerts>>

-----------------------------------------------------------------------------
(* Alerts                                                                  *)

Pending(a) == row[a].at = "pending"

\* The engine marks its throttle, then posts once: an alert is stored or gone.
Emit(a) ==
    /\ row[a].at = "none"
    /\ row' = [row EXCEPT ![a].at = "pending"]
    /\ UNCHANGED <<enabled, flush, sends, lost, reports>>

\* /alerts on and off
SetPreference ==
    /\ enabled' = ~enabled
    /\ UNCHANGED <<row, flush, sends, lost, reports>>

\* Claims older than five minutes are of flushes that died: a flush takes seconds.
Stale(a) == row[a].at = "claimed" /\ row[a].by = "nobody"

Reclaim(k) ==
    /\ flush[k].pc = "off"
    /\ row' = [a \in Alert |-> IF Stale(a) THEN [row[a] EXCEPT !.at = "pending", !.attempts = @ + 1]
                               ELSE row[a]]
    /\ flush' = [flush EXCEPT ![k].pc = "claim"]
    /\ UNCHANGED <<enabled, sends, lost, reports>>

\* mutant: rows another flush has claimed are claimed again
ClaimableInFlight(a) == row[a].at \in {"pending", "claimed"} /\ row[a].attempts < Abandon /\ enabled

Claimable(a) == Pending(a) /\ row[a].attempts < Abandon /\ enabled

\* One UPDATE takes the oldest rows that are free; it may fail.
Claim(k) ==
    /\ flush[k].pc = "claim"
    /\ \E s \in SUBSET {a \in Alert : Claimable(a)} :
         /\ Cardinality(s) = Limit \/ (Cardinality(s) < Limit /\ \A a \in Alert : Claimable(a) => a \in s)
         /\ row' = [a \in Alert |-> IF a \in s THEN [row[a] EXCEPT !.at = "claimed", !.by = k] ELSE row[a]]
         /\ flush' = [flush EXCEPT ![k] = [pc |-> IF s = {} THEN "off" ELSE "send", todo |-> s]]
    /\ UNCHANGED <<enabled, sends, lost, reports>>

Rest(k, a) ==
    LET left == flush[k].todo \ {a}
    IN  [flush EXCEPT ![k] = [pc |-> IF left = {} THEN "off" ELSE "send", todo |-> left]]

Released(r) == [r EXCEPT !.at = "pending", !.by = "nobody", !.attempts = @ + 1]

\* One row: sent and marked, sent and not marked, or refused and released (or
\* not even that); a row left claimed is found by a later flush.
Deliver(k, a) ==
    /\ flush[k].pc = "send" /\ a \in flush[k].todo
    /\ \/ /\ sends' = [sends EXCEPT ![a] = @ + 1]
          /\ \/ row' = [row EXCEPT ![a].at = "delivered", ![a].by = "nobody"] /\ UNCHANGED lost
             \/ row' = [row EXCEPT ![a].by = "nobody"] /\ lost' = [lost EXCEPT ![a] = @ + 1]
       \/ /\ row' \in {[row EXCEPT ![a] = Released(row[a])], [row EXCEPT ![a].by = "nobody"]}
          /\ UNCHANGED <<sends, lost>>
    /\ flush' = Rest(k, a)
    /\ UNCHANGED <<enabled, reports>>

\* A flush dies between two rows, or between a message and its mark.
FlushDies(k) ==
    /\ flush[k].pc = "send"
    /\ \E a \in flush[k].todo, out \in BOOLEAN :
         /\ sends' = [sends EXCEPT ![a] = IF out THEN @ + 1 ELSE @]
         /\ lost' = [lost EXCEPT ![a] = IF out THEN @ + 1 ELSE @]
    /\ row' = [a \in Alert |-> IF a \in flush[k].todo THEN [row[a] EXCEPT !.by = "nobody"] ELSE row[a]]
    /\ flush' = [flush EXCEPT ![k] = [pc |-> "off", todo |-> {}]]
    /\ UNCHANGED <<enabled, reports>>

Next ==
    \/ \E r \in Report : ReportError(r)
    \/ FlushReports
    \/ \E m \in wire : ServeBatch(m)
    \/ \E m \in waiting : Accepted(m) \/ Failed(m)
    \/ PruneReceipts
    \/ EngineRestart
    \/ \E a \in Alert : Emit(a)
    \/ SetPreference
    \/ \E k \in Flush : Reclaim(k) \/ Claim(k) \/ FlushDies(k) \/ \E a \in Alert : Deliver(k, a)

Spec == Init /\ [][Next]_vars

-----------------------------------------------------------------------------
(* Properties                                                              *)

\* Retried, late and duplicated batches count a report once: the occurrences of
\* a signature are the distinct reports that reached the API.
CountedOnce ==
    \A s \in Signature : occurrences[s] = Cardinality({r \in applied : Fingerprint(r) = s})

\* A report the API can read is counted, queued or awaited as long as the engine
\* lives and its buffer holds: only a full buffer and a restart give it up, never
\* the company of malformed reports.  (Those are never counted: they are forgotten
\* with the first batch that also holds a sound one.)
ReportKept ==
    made \ Malformed = (applied \cup dropped \cup ToSet(pending)
                         \cup UNION {ToSet(m.batch) : m \in waiting}) \ Malformed

\* Overlapping and dying flushes: an alert reaches the chat once, and once more
\* for every claim that was interrupted after the message had gone, never more
\* often than the attempts allow.
AlertNotRepeated ==
    \A a \in Alert : sends[a] <= 1 + lost[a] /\ sends[a] <= Abandon

=============================================================================
