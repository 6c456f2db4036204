------------------------------ MODULE Feedback ------------------------------
(***************************************************************************)
(* Feedback from the engine's agents and the CLI to the cloud: the local   *)
(* gates (feedback-service.ts), the request with its timeout, the limiter  *)
(* of the API that counts in one statement, and the stored feedback, which *)
(* is looked up and then inserted (api/index.ts).  Requests overlap, and   *)
(* one that was given up may still be served.                              *)
(***************************************************************************)
EXTENDS Integers, Sequences, FiniteSets

CONSTANTS
    Submitter,  \* processes and tools that submit
    Hash,       \* what a feedback says
    Interval, Hour, Day,   \* minIntervalMs and the windows, in ticks
    PerHour, PerDay,       \* FEEDBACK_LIMITS
    MaxHits,    \* requests an address may make in an hour
    Others,     \* do others use the same address?
    MaxTime,    \* bound: ticks
    Requests    \* bound: requests

VARIABLES
    clock,
    local,      \* agent_feedback: [id, hash, at]
    sub,        \* by submitter: the request it awaits, or 0
    req,        \* requests by number: [hash, at, pc, id]
    cloud,      \* the cloud's feedback: [id, hash, at]
    counter,    \* the row of rate_limits: [count, at]
    accepted,   \* history: when the limiter accepted, latest last
    told        \* history: what submitters were told is stored: <<id, hash>>
vars == <<clock, local, sub, req, cloud, counter, accepted, told>>

Made == DOMAIN req
NoRow == [count |-> 0, at |-> 0]

TypeOK ==
    /\ clock \in 0 .. MaxTime /\ Made \subseteq 1 .. Requests
    /\ sub \in [Submitter -> 0 .. Requests]
    /\ \A r \in Made : /\ req[r].hash \in Hash /\ req[r].at \in 0 .. MaxTime
                       /\ req[r].pc \in {"wire", "find", "insert", "stored", "refused", "denied"}
    /\ \A f \in local \cup cloud : f.hash \in Hash /\ f.at \in 0 .. MaxTime
    /\ counter.count \in Nat /\ counter.at \in 0 .. MaxTime

Init ==
    /\ clock = 0 /\ local = {} /\ cloud = {} /\ told = {}
    /\ sub = [s \in Submitter |-> 0] /\ req = [r \in {} |-> 0]
    /\ counter = NoRow /\ accepted = <<>>

-----------------------------------------------------------------------------
(* The gates, before anything is sent                                      *)

Duplicate(h) == \E f \in local : f.hash = h /\ clock - f.at < Day
Within(rows, span) == {f \in rows : f.at > clock - span}
HourLimitLoose == Cardinality(Within(local, Hour)) > PerHour   \* a mutant
HourLimit == Cardinality(Within(local, Hour)) >= PerHour
DayLimit == Cardinality(Within(local, Day)) >= PerDay
TooSoon == \E f \in local : clock - f.at < Interval
Admitted(h) == ~Duplicate(h) /\ ~HourLimit /\ ~DayLimit /\ ~TooSoon

\* submit, submitCloudFeedback: a request with an id of its own.
Submit(s, h) ==
    LET r == Cardinality(Made) + 1 IN
    /\ sub[s] = 0 /\ r <= Requests /\ Admitted(h)
    /\ req' = [q \in Made \cup {r} |->
                 IF q = r THEN [hash |-> h, at |-> clock, pc |-> "wire", id |-> r] ELSE req[q]]
    /\ sub' = [sub EXCEPT ![s] = r]
    /\ UNCHANGED <<clock, local, cloud, counter, accepted, told>>

-----------------------------------------------------------------------------
(* The API                                                                 *)

\* rateLimitHit: a refused hit counts and leaves the hour where it was.
Lapsed == counter.at < clock - Hour
\* Refused hits that slide the hour (a mutant).
HitSliding == [count |-> IF Lapsed THEN 1 ELSE counter.count + 1, at |-> clock]
Hit ==
    [count |-> IF Lapsed THEN 1 ELSE counter.count + 1,
     at |-> IF Lapsed \/ counter.count < MaxHits THEN clock ELSE counter.at]
Fits == Hit.count <= MaxHits
Latest(q) == SubSeq(q, Len(q) - MaxHits, Len(q))   \* as many as the limit, and one more
Note ==
    accepted' = IF ~Fits THEN accepted
                ELSE IF Len(accepted) > MaxHits THEN Latest(Append(accepted, clock))
                ELSE Append(accepted, clock)

Step(r, pc) == req' = [req EXCEPT ![r].pc = pc]

\* authenticateUser, then the limiter of the address.
Limit(r) ==
    /\ r \in Made /\ req[r].pc = "wire"
    /\ \/ Step(r, "denied") /\ UNCHANGED <<counter, accepted>>
       \/ counter' = Hit /\ Note /\ Step(r, IF Fits THEN "find" ELSE "refused")
    /\ UNCHANGED <<clock, local, sub, cloud, told>>

\* Other requests of the same address.
Hammer ==
    /\ Others /\ counter.count < MaxHits + 2 /\ counter' = Hit /\ Note
    /\ UNCHANGED <<clock, local, sub, req, cloud, told>>

\* storeFeedback looks for the hash; the latest row answers.
SameAgent(r) == cloud   \* without the hash (a mutant)
Same(r) == {f \in cloud : f.hash = req[r].hash}
Find(r) ==
    /\ r \in Made /\ req[r].pc = "find"
    /\ \/ Same(r) = {} /\ Step(r, "insert")
       \/ \E f \in Same(r) : /\ \A g \in Same(r) : g.at <= f.at
                             /\ req' = [req EXCEPT ![r].pc = "stored", ![r].id = f.id]
    /\ UNCHANGED <<clock, local, sub, cloud, counter, accepted, told>>

\* The insert, or its failure.
Insert(r) ==
    /\ r \in Made /\ req[r].pc = "insert"
    /\ \/ cloud' = cloud \cup {[id |-> r, hash |-> req[r].hash, at |-> req[r].at]} /\ Step(r, "stored")
       \/ Step(r, "refused") /\ UNCHANGED cloud
    /\ UNCHANGED <<clock, local, sub, counter, accepted, told>>

-----------------------------------------------------------------------------
(* The answer, or none within the timeout                                  *)

\* saveFeedback replaces the row of the id; a feedback kept here gets an id of its own.
Save(id, f) == local' = {g \in local : g.id # id} \cup {[id |-> id, hash |-> f.hash, at |-> f.at]}
Own(r) == -r

Receive(s) ==
    LET f == req[sub[s]] IN
    /\ sub[s] # 0
    /\ \/ f.pc = "stored" /\ Save(f.id, f) /\ told' = told \cup {<<f.id, f.hash>>}
       \/ f.pc = "refused" /\ Save(Own(sub[s]), f) /\ UNCHANGED told
       \/ f.pc = "denied" /\ UNCHANGED <<local, told>>
    /\ sub' = [sub EXCEPT ![s] = 0]
    /\ UNCHANGED <<clock, req, cloud, counter, accepted>>

GiveUp(s) ==
    /\ sub[s] # 0 /\ Save(Own(sub[s]), req[sub[s]])
    /\ sub' = [sub EXCEPT ![s] = 0]
    /\ UNCHANGED <<clock, req, cloud, counter, accepted, told>>

\* A tick is longer than the timeout.
Tick ==
    /\ clock < MaxTime /\ \A s \in Submitter : sub[s] # 0 => req[sub[s]].at = clock
    /\ clock' = clock + 1
    /\ UNCHANGED <<local, sub, req, cloud, counter, accepted, told>>

Next ==
    \/ Hammer \/ Tick
    \/ \E s \in Submitter : Receive(s) \/ GiveUp(s) \/ \E h \in Hash : Submit(s, h)
    \/ \E r \in Made : Limit(r) \/ Find(r) \/ Insert(r)
Spec == Init /\ [][Next]_vars

(* The limits of an hour and of a day are exceeded by no more than the        *)
(* submissions that were in flight together (hourLimitGate, dayLimitGate).    *)
LimitsHold ==
    \A t \in 0 .. clock :
       LET past(span) == {f \in local : f.at <= t /\ f.at > t - span} IN
       /\ Cardinality(past(Hour)) <= PerHour + Cardinality(Submitter) - 1
       /\ Cardinality(past(Day)) <= PerDay + Cardinality(Submitter) - 1

(* What a submitter was told is stored is stored, under that id and with what *)
(* it said, however lookups and inserts of others interleave (storeFeedback). *)
ToldStored == \A x \in told : \E f \in cloud : f.id = x[1] /\ f.hash = x[2]

(* No hour holds more accepted requests than the limit, and refused ones do   *)
(* not move the hour: it runs from the last accepted one (rateLimitHit).      *)
RateCapped ==
    LET n == Len(accepted) IN
    /\ \A i \in 1 .. n : i > MaxHits => accepted[i] - accepted[i - MaxHits] >= Hour
    /\ n > 0 => counter.at = accepted[n]
=============================================================================
