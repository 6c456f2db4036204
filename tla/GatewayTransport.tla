-------------------------- MODULE GatewayTransport --------------------------
(***************************************************************************)
(* The agent that reviews decisions, spoken to over a WebSocket            *)
(* (engine/gateway-transport.ts): a connection shared by whoever needs it, *)
(* a handshake, and prompts whose acknowledgement and whose streamed reply *)
(* settle on their own.  The engine may stop waiting for a prompt, whose   *)
(* promises live on; sockets close at any moment, and the close event of a *)
(* socket may come when another has taken its place.                       *)
(***************************************************************************)
EXTENDS Naturals

CONSTANTS
    Prompt,    \* numbers, none of them of a socket
    Socket    \* 1 .. n, in the order they are opened

VARIABLES
    sock,      \* by socket: [at, hand], its state and how far its handshake is
    ws,        \* this.ws: a socket, or 0
    connectPromise, \* the handshake connect() waits for: a socket, or 0
    challengeSettle, \* the handshake that waits for the challenge, or 0
    failing,   \* handshakes whose promise has just been rejected
    pending,   \* requests that wait for a response: [of, on]
    chatRuns,  \* runs that wait for their reply
    prompt,    \* by prompt: [at, on, acked, left], left once nobody waits for it
    \* observation
    unhandled  \* a promise was rejected with nobody to hear it

vars == <<sock, ws, connectPromise, challengeSettle, failing, pending, chatRuns, prompt, unhandled>>

Null == 0
Hand == {"none", "challenge", "connect", "done", "failed"}

TypeOK ==
    /\ sock \in [Socket -> [at : {"unused", "connecting", "open", "closing", "closed"}, hand : Hand]]
    /\ ws \in Socket \cup {Null}
    /\ connectPromise \in Socket \cup {Null} /\ challengeSettle \in Socket \cup {Null}
    /\ failing \subseteq Socket
    /\ pending \subseteq [of : Prompt \cup Socket, on : Socket]
    /\ chatRuns \subseteq Prompt
    /\ prompt \in [Prompt -> [at : {"new", "connecting", "sent", "answered", "failed"},
                              on : Socket \cup {Null}, acked : BOOLEAN, left : BOOLEAN]]
    /\ unhandled \in BOOLEAN

Init ==
    /\ sock = [s \in Socket |-> [at |-> "unused", hand |-> "none"]]
    /\ ws = Null /\ connectPromise = Null /\ challengeSettle = Null /\ failing = {}
    /\ pending = {} /\ chatRuns = {}
    /\ prompt = [p \in Prompt |-> [at |-> "new", on |-> Null, acked |-> FALSE, left |-> FALSE]]
    /\ unhandled = FALSE

Open(s) == s # Null /\ sock[s].at = "open"
Settled(p) == prompt[p].at \in {"answered", "failed"}

\* Microtasks run before the next event: rejected handshakes fail first.
Calm == failing = {}

-----------------------------------------------------------------------------
(* Prompts                                                                 *)

\* Mutant: the acknowledgement is awaited first, the reply after it.
AwaitsInTurn(p) == IF prompt[p].acked THEN {"reply"} ELSE {"ack"}

\* What a sent prompt awaits: both together.
Awaits(p) == {"ack", "reply"}

\* Runs rejected while their prompt is in hand and awaits something else.
Unheard(runs) == \E p \in runs : prompt[p].at = "sent" /\ "reply" \notin Awaits(p)

\* Mutant: the run of a prompt that failed stays registered.
RunsLeft(failed) == chatRuns

\* cleanupChatRun, when the prompt is over.
RunsWithout(failed) == chatRuns \ failed

FailPrompts(failed) ==
    prompt' = [p \in Prompt |-> IF p \in failed THEN [prompt[p] EXCEPT !.at = "failed"] ELSE prompt[p]]

Forget(p) == {r \in pending : r.of # p}

\* sendChat: the run is registered, then the request sent, if a socket is open at all.
Chat(ps, requests) ==
    IF Open(ws)
    THEN /\ pending' = requests \cup {[of |-> p, on |-> ws] : p \in ps}
         /\ chatRuns' = chatRuns \cup ps
         /\ prompt' = [p \in Prompt |-> IF p \in ps THEN [prompt[p] EXCEPT !.at = "sent", !.on = ws]
                                        ELSE prompt[p]]
    ELSE pending' = requests /\ FailPrompts(ps) /\ UNCHANGED chatRuns

\* connect(): a socket that is open will do, its handshake done or not; else a
\* handshake under way is joined, or a socket opened.
Begin(p) ==
    /\ Calm /\ prompt[p].at = "new"
    /\ \A q \in Prompt : prompt[q].at = "new" \/ Settled(q) \/ prompt[q].left
    /\ \/ /\ Open(ws) /\ Chat({p}, pending)
          /\ UNCHANGED <<sock, ws, connectPromise>>
       \/ /\ ~Open(ws) /\ connectPromise # Null
          /\ prompt' = [prompt EXCEPT ![p].at = "connecting", ![p].on = connectPromise]
          /\ UNCHANGED <<sock, ws, connectPromise, pending, chatRuns>>
       \/ /\ ~Open(ws) /\ connectPromise = Null
          /\ \E s \in Socket :
               /\ sock[s].at = "unused" /\ \A t \in Socket : t < s => sock[t].at # "unused"
               /\ sock' = [sock EXCEPT ![s].at = "connecting"]
               /\ ws' = s /\ connectPromise' = s
               /\ prompt' = [prompt EXCEPT ![p].at = "connecting", ![p].on = s]
          /\ UNCHANGED <<pending, chatRuns>>
    /\ UNCHANGED <<challengeSettle, failing, unhandled>>

\* The deadline of the cycle interrupts the prompt: one that waits for a handshake
\* goes no further, one that was sent goes on alone.
Abandon(p) ==
    /\ Calm /\ prompt[p].at \in {"connecting", "sent"} /\ ~prompt[p].left
    /\ prompt' = [prompt EXCEPT ![p].left = TRUE,
                                ![p].at = IF @ = "connecting" THEN "failed" ELSE @]
    /\ UNCHANGED <<sock, ws, connectPromise, challengeSettle, failing, pending, chatRuns, unhandled>>

\* The acknowledgement, or an error, or the timer of the request.
Ack(p) ==
    /\ Calm /\ \E r \in pending : r.of = p
    /\ pending' = Forget(p)
    /\ \/ /\ \E r \in pending : r.of = p /\ Open(r.on)
          /\ prompt' = [prompt EXCEPT ![p].acked = TRUE,
                          ![p].at = IF @ = "sent" /\ p \notin chatRuns THEN "answered" ELSE @]
          /\ UNCHANGED chatRuns
       \/ IF prompt[p].at = "sent" THEN FailPrompts({p}) /\ chatRuns' = RunsWithout({p})
          ELSE UNCHANGED <<prompt, chatRuns>>
    /\ UNCHANGED <<sock, ws, connectPromise, challengeSettle, failing, unhandled>>

\* The final event of a run; it may overtake the acknowledgement.
Reply(p) ==
    /\ Calm /\ p \in chatRuns /\ Open(prompt[p].on)
    /\ chatRuns' = chatRuns \ {p}
    /\ prompt' = [prompt EXCEPT ![p].at = IF prompt[p].acked THEN "answered" ELSE @]
    /\ UNCHANGED <<sock, ws, connectPromise, challengeSettle, failing, pending, unhandled>>

\* An error or aborted event, or the timer of the run.
RunFails(p) ==
    /\ Calm /\ p \in chatRuns
    /\ chatRuns' = chatRuns \ {p} /\ FailPrompts({p})
    /\ unhandled' = (unhandled \/ Unheard({p}))
    /\ UNCHANGED <<sock, ws, connectPromise, challengeSettle, failing, pending>>

-----------------------------------------------------------------------------
(* Sockets                                                                 *)

Opens(s) ==
    /\ Calm /\ sock[s].at = "connecting"
    /\ sock' = [sock EXCEPT ![s].at = "open", ![s].hand = IF @ = "none" THEN "challenge" ELSE @]
    /\ challengeSettle' = s
    /\ UNCHANGED <<ws, connectPromise, failing, pending, chatRuns, prompt, unhandled>>

\* The challenge, or its timer, which clears the slot whoever is in it. Then
\* "connect" goes out over this.ws, whichever socket that is.
Challenged(s) ==
    /\ Calm /\ sock[s].hand = "challenge"
    /\ challengeSettle' = Null
    /\ sock' = [sock EXCEPT ![s].hand = "connect"]
    /\ IF Open(ws) THEN pending' = pending \cup {[of |-> s, on |-> ws]} /\ UNCHANGED failing
       ELSE failing' = {s} /\ UNCHANGED pending
    /\ UNCHANGED <<ws, connectPromise, chatRuns, prompt, unhandled>>

Waiting(s) == {p \in Prompt : prompt[p].at = "connecting" /\ prompt[p].on = s}

\* hello-ok: everyone who waits for this handshake sends.
Hello(s) ==
    /\ Calm /\ sock[s].hand = "connect" /\ \E r \in pending : r.of = s /\ Open(r.on)
    /\ sock' = [sock EXCEPT ![s].hand = "done"]
    /\ connectPromise' = Null
    /\ Chat(Waiting(s), Forget(s))
    /\ UNCHANGED <<ws, challengeSettle, failing, unhandled>>

\* The response is an error, or another protocol, or a timer runs out.
Rejected(s) ==
    /\ Calm /\ sock[s].hand \in {"none", "challenge", "connect"} /\ sock[s].at \in {"connecting", "open"}
    /\ failing' = {s} /\ pending' = Forget(s)
    /\ UNCHANGED <<sock, ws, connectPromise, challengeSettle, chatRuns, prompt, unhandled>>

\* The close event of s: whatever waits, on any socket, is rejected.
Closed(s, at) ==
    LET unsettled == {t \in Socket : sock[t].hand \in {"none", "challenge", "connect"}}
        rejected == {t \in unsettled : t \in {r.of : r \in pending} \/ t = challengeSettle \/ t = s}
    IN  /\ sock' = [t \in Socket |-> IF t = s THEN [at |-> "closed", hand |-> at] ELSE sock[t]]
        /\ ws' = Null /\ challengeSettle' = Null
        /\ pending' = {} /\ chatRuns' = {}
        /\ unhandled' = (unhandled \/ Unheard(chatRuns))
        /\ failing' = (failing \cup rejected) \ {t \in Socket : t = s /\ at = "failed"}

Dropped == chatRuns \cup {r.of : r \in {x \in pending : x.of \in Prompt}}
InHand(ps) == {p \in ps : prompt[p].at = "sent"}

\* fail(): the socket is closed, the waiting prompts fail. The close event comes at
\* once (Bun), or later.
HandshakeFails(s) ==
    /\ s \in failing
    /\ connectPromise' = IF connectPromise = s THEN Null ELSE connectPromise
    /\ \/ /\ sock[s].at = "closed"
          /\ sock' = [sock EXCEPT ![s].hand = "failed"] /\ failing' = failing \ {s}
          /\ FailPrompts(Waiting(s))
          /\ UNCHANGED <<ws, challengeSettle, pending, chatRuns, unhandled>>
       \/ /\ sock[s].at # "closed"
          /\ Closed(s, "failed") /\ FailPrompts(Waiting(s) \cup InHand(Dropped))
       \/ /\ sock[s].at # "closed"
          /\ sock' = [sock EXCEPT ![s] = [at |-> "closing", hand |-> "failed"]]
          /\ failing' = failing \ {s} /\ FailPrompts(Waiting(s))
          /\ UNCHANGED <<ws, challengeSettle, pending, chatRuns, unhandled>>

\* The other side closes, or the connection breaks.
Breaks(s) ==
    /\ Calm /\ sock[s].at \in {"connecting", "open"}
    /\ sock' = [sock EXCEPT ![s].at = "closing"]
    /\ UNCHANGED <<ws, connectPromise, challengeSettle, failing, pending, chatRuns, prompt, unhandled>>

CloseEvent(s) ==
    /\ Calm /\ sock[s].at = "closing"
    /\ Closed(s, sock[s].hand) /\ FailPrompts(InHand(Dropped))
    /\ UNCHANGED connectPromise

Next ==
    \/ \E p \in Prompt : Begin(p) \/ Abandon(p) \/ Ack(p) \/ Reply(p) \/ RunFails(p)
    \/ \E s \in Socket : Opens(s) \/ Challenged(s) \/ Hello(s) \/ Rejected(s)
                         \/ HandshakeFails(s) \/ Breaks(s) \/ CloseEvent(s)

Spec == Init /\ [][Next]_vars

-----------------------------------------------------------------------------
(* Properties                                                              *)

\* "an awaited-alone run promise could reject with no handler and Bun would treat it
\* as an unhandled rejection, terminating the whole process" (sendChat): whatever
\* closes, fails or times out, in whatever order, someone hears it.
Handled == ~unhandled

\* No run outlives its prompt, so that a session of many failures leaks none.
NoRunLeft == \A p \in chatRuns : prompt[p].at = "sent"

=============================================================================
