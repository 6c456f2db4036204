---------------------------- MODULE AcpTransport ----------------------------
(***************************************************************************)
(* The agent that reviews decisions, spoken to over the pipes of a child   *)
(* process (engine/acp-transport.ts), and the latency window that skips    *)
(* reviews of a slow model (engine/agent-service.ts).  The engine asks one *)
(* thing at a time but may stop waiting for it; the agent works its inbox  *)
(* off in order, whether or not anyone still waits, and may die between    *)
(* two bytes of a frame.                                                   *)
(***************************************************************************)
EXTENDS Naturals, Sequences, FiniteSetsExt

CONSTANTS
    Prompt,      \* prompts of the engine, each sent at most once
    WindowSize,  \* latency samples kept
    MinSamples,  \* samples a skip needs
    MinSlow,     \* slow samples a skip needs
    MaxAge,      \* ticks after which a sample is stale
    Children     \* bound: child processes spawned

VARIABLES
    child,    \* "none" (this.process is null), "up" or "dead", its close event due
    spawned,
    inbox,    \* requests the child has yet to answer: [kind, prompt]
    session,  \* sessionId is known
    torn,     \* buffer holds the first half of a frame whose second half will not come
    text,     \* sessionText: the prompts whose words it holds
    cur,      \* prompt in hand: [prompt, why]
    pc,       \* what it waits for: "idle", "initialize", "new", "prompt"
    asked,    \* prompts begun
    window,   \* latency samples: [slow, age]
    quiet,    \* ticks since the last sample
    \* observation
    gaveUp,   \* prompts sent to the child and not waited for to the end
    reply     \* the last answer: [prompt, words]

vars == <<child, spawned, inbox, session, torn, text, cur, pc, asked, window, quiet, gaveUp, reply>>

Nobody == "nobody"
NoPrompt == [prompt |-> Nobody, why |-> "none"]
Request == [kind : {"initialize", "new", "prompt"}, prompt : Prompt \cup {Nobody}]

TypeOK ==
    /\ child \in {"none", "up", "dead"} /\ spawned \in 0 .. Children
    /\ inbox \in Seq(Request)
    /\ session \in BOOLEAN /\ torn \in BOOLEAN
    /\ text \subseteq Prompt /\ asked \subseteq Prompt /\ gaveUp \subseteq asked
    /\ cur \in [prompt : Prompt \cup {Nobody}, why : {"none", "review", "checkin"}]
    /\ pc \in {"idle", "initialize", "new", "prompt"}
    /\ window \in Seq([slow : BOOLEAN, age : Nat]) /\ Len(window) <= WindowSize
    /\ quiet \in 0 .. MaxAge + 1
    /\ reply.words \subseteq Prompt

Init ==
    /\ child = "none" /\ spawned = 0 /\ inbox = <<>>
    /\ session = FALSE /\ torn = FALSE /\ text = {}
    /\ cur = NoPrompt /\ pc = "idle" /\ asked = {}
    /\ window = <<>> /\ quiet = 0
    /\ gaveUp = {} /\ reply = [prompt |-> Nobody, words |-> {}]

-----------------------------------------------------------------------------
(* The latency window                                                      *)

\* Mutant: samples are evicted when one is recorded, never when they are read.
ReadStale(w) == w

\* The samples that stay when the first n have gone: none, or a fresh one first and
\* no more than fit.
Enough(w, n) == n = Len(w) \/ (w[n + 1].age <= MaxAge /\ Len(w) - n <= WindowSize)

\* The oldest samples go while they are stale or too many.
Evicted(w) == SubSeq(w, Min({n \in 0 .. Len(w) : Enough(w, n)}) + 1, Len(w))

\* The window as shouldSkip sees it.
Read(w) == Evicted(w)

Slow(w) == SelectSeq(w, LAMBDA s : s.slow)

\* Up to 19 samples the 95th percentile is the slowest.
SkipReview ==
    LET w == Read(window) IN Len(w) >= MinSamples /\ Len(Slow(w)) >= MinSlow

Record(slow) ==
    /\ window' = Evicted(Append(window, [slow |-> slow, age |-> 0]))
    /\ quiet' = 0

\* A check-in is not timed.
Timed(slow) == IF cur.why = "review" THEN Record(slow) ELSE UNCHANGED <<window, quiet>>

Tick ==
    /\ pc = "idle" /\ (window # <<>> \/ quiet <= MaxAge)
    /\ window' = Read([i \in DOMAIN window |-> [window[i] EXCEPT !.age = @ + 1]])
    /\ quiet' = IF quiet <= MaxAge THEN quiet + 1 ELSE quiet
    /\ UNCHANGED <<child, spawned, inbox, session, torn, text, cur, pc, asked, gaveUp, reply>>

-----------------------------------------------------------------------------
(* Requests                                                                *)

\* What is written to a child that is dead is lost.
Sent(kind) ==
    /\ pc' = kind
    /\ inbox' = IF child' = "up"
                THEN Append(inbox, [kind |-> kind, prompt |-> IF kind = "prompt" THEN cur'.prompt ELSE Nobody])
                ELSE inbox

\* Mutant: the reply of the prompt before stays in the buffer.
KeptText == text

\* The words heard so far are not of this prompt.
ClearedText == {}

SentPrompt == Sent("prompt") /\ text' = ClearedText

\* sendPrompt and sendCheckin: connect, then a session, then the prompt. A review is
\* skipped while the model is slow.
Ask(p, why) ==
    /\ pc = "idle" /\ p \notin asked /\ asked' = asked \cup {p}
    /\ why = "review" => ~SkipReview
    /\ cur' = [prompt |-> p, why |-> why]
    /\ \/ /\ child = "none" /\ spawned < Children
          /\ child' = "up" /\ spawned' = spawned + 1
          /\ Sent("initialize") /\ UNCHANGED text
       \/ /\ child # "none" /\ UNCHANGED <<child, spawned>>
          /\ IF session THEN SentPrompt ELSE Sent("new") /\ UNCHANGED text
    /\ UNCHANGED <<session, torn, window, quiet, gaveUp, reply>>

\* The prompt in hand fails, open: the decision stands. One the child was given
\* stays in its inbox.
Failed(slow) ==
    /\ Timed(slow)
    /\ gaveUp' = IF pc = "prompt" THEN gaveUp \cup {cur.prompt} ELSE gaveUp
    /\ pc' = "idle" /\ cur' = NoPrompt

\* Head of the inbox, answered. The first frame after a torn one is unreadable.
Unheard == torn' = FALSE /\ UNCHANGED <<session, text, cur, pc, window, quiet, gaveUp, reply>>

\* The request the engine waits for is the last one it sent.
Awaited == Len(inbox) = 1 /\ pc = inbox[1].kind

\* A handshake goes on with the next request, over the inbox without its head.
Advance ==
    \/ /\ pc = "initialize" /\ pc' = "new"
       /\ inbox' = <<[kind |-> "new", prompt |-> Nobody]>>
       /\ UNCHANGED <<session, text>>
    \/ /\ pc = "new" /\ pc' = "prompt" /\ session' = TRUE
       /\ inbox' = <<[kind |-> "prompt", prompt |-> cur.prompt]>>
       /\ text' = ClearedText

Chunk ==
    /\ child = "up" /\ inbox # <<>> /\ inbox[1].kind = "prompt"
    /\ IF torn THEN torn' = FALSE /\ UNCHANGED text
       ELSE text' = text \cup {inbox[1].prompt} /\ UNCHANGED torn
    /\ UNCHANGED <<child, spawned, inbox, session, cur, pc, asked, window, quiet, gaveUp, reply>>

Respond ==
    /\ child = "up" /\ inbox # <<>>
    /\ IF torn THEN inbox' = Tail(inbox) /\ Unheard
       ELSE /\ UNCHANGED torn
            /\ \/ /\ ~Awaited /\ inbox' = Tail(inbox)
                  /\ UNCHANGED <<session, text, cur, pc, window, quiet, gaveUp, reply>>
               \/ /\ Awaited /\ pc # "prompt" /\ Advance
                  /\ UNCHANGED <<cur, window, quiet, gaveUp, reply>>
               \/ /\ Awaited /\ pc = "prompt" /\ inbox' = <<>>
                  /\ reply' = [prompt |-> cur.prompt, words |-> text]
                  /\ \E slow \in BOOLEAN : Timed(slow)
                  /\ pc' = "idle" /\ cur' = NoPrompt
                  /\ UNCHANGED <<session, text, gaveUp>>
    /\ UNCHANGED <<child, spawned, asked>>

\* An error is an answer: nothing of the prompt is left in the inbox.
Refuse ==
    /\ child = "up" /\ Awaited /\ ~torn
    /\ inbox' = <<>> /\ pc' = "idle" /\ cur' = NoPrompt
    /\ \E slow \in BOOLEAN : Timed(slow)
    /\ UNCHANGED <<child, spawned, session, torn, text, asked, gaveUp, reply>>

\* The request's timer, or the outer deadline of the cycle, which interrupts the
\* prompt wherever it is; the latter may leave no sample.
Timeout ==
    /\ pc # "idle"
    /\ \/ Failed(TRUE)
       \/ /\ gaveUp' = IF pc = "prompt" THEN gaveUp \cup {cur.prompt} ELSE gaveUp
          /\ pc' = "idle" /\ cur' = NoPrompt /\ UNCHANGED <<window, quiet>>
    /\ UNCHANGED <<child, spawned, inbox, session, torn, text, asked, reply>>

-----------------------------------------------------------------------------
(* The child process                                                       *)

Die ==
    /\ child = "up" /\ child' = "dead" /\ inbox' = <<>>
    /\ torn' \in {torn, TRUE}
    /\ UNCHANGED <<spawned, session, text, cur, pc, asked, window, quiet, gaveUp, reply>>

\* The close event rejects what is pending; the buffer and the text stay.
Close ==
    /\ child = "dead" /\ child' = "none" /\ session' = FALSE
    /\ \/ pc = "idle" /\ UNCHANGED <<cur, pc, window, quiet, gaveUp>>
       \/ pc # "idle" /\ \E slow \in BOOLEAN : Failed(slow)
    /\ UNCHANGED <<spawned, inbox, torn, text, asked, reply>>

Next ==
    \/ \E p \in Prompt, why \in {"review", "checkin"} : Ask(p, why)
    \/ Chunk \/ Respond \/ Refuse \/ Timeout \/ Die \/ Close \/ Tick

Spec == Init /\ [][Next]_vars

-----------------------------------------------------------------------------
(* Properties                                                              *)

\* "sessionText is complete on resolution" (sendPrompt), and holds nobody else's
\* words, so that a veto is about the decision it is applied to: unless the engine
\* gave an earlier prompt up, whose answer may still stream in.
OwnWords == reply.words \subseteq {reply.prompt} \cup gaveUp

\* "a transient slow period cannot latch the skip on permanently" (LatencyWindow):
\* reviews resume when no prompt was timed for as long as samples last.
SkipDrains == quiet > MaxAge => ~SkipReview

=============================================================================
