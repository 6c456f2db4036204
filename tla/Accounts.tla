------------------------------ MODULE Accounts ------------------------------
(***************************************************************************)
(* The accounts of the cloud API (cloudflare/workers/api/index.ts):        *)
(* registration, the binding of a Telegram chat by a one-time code, and    *)
(* referral credits.  Requests interleave between their statements, any    *)
(* statement may fail, and clients retry; only a D1 batch is atomic.       *)
(***************************************************************************)
EXTENDS Naturals, FiniteSets

CONSTANTS
    User, Chat, Code,
    Confirm,      \* confirmations of a code in flight
    Apply,        \* applications of a referral code in flight
    MaxAttempts,  \* LINK_CODE_MAX_ATTEMPTS
    Milestone,    \* referrals that earn the milestone bonus
    Nobody, NoChat

VARIABLES
    users,    \* rows of users
    keyed,    \* users whose API key was stored
    chat,     \* users.telegram_id, UNIQUE
    code,     \* telegram_link_codes: [owner, used, expired, attempts]
    confirm,  \* [pc, code, chat, row]: the row it read
    told,     \* by code: the confirmations answered with success
    referrer, \* referrals by referee, UNIQUE
    apply,    \* [pc, referee, referrer]
    credit    \* user_credits: how many rows of each reason a user has

accounts == <<users, keyed>>
linking == <<chat, code, confirm, told>>
referring == <<referrer, apply, credit>>
vars == <<users, keyed, chat, code, confirm, told, referrer, apply, credit>>

Reason == {"referral_bonus", "referee_bonus", "milestone"}
Row == [owner : User \cup {Nobody}, used : BOOLEAN, expired : BOOLEAN, attempts : Nat]
NoRow == [owner |-> Nobody, used |-> FALSE, expired |-> FALSE, attempts |-> 0]
Idle == [pc |-> "off", code |-> CHOOSE c \in Code : TRUE, chat |-> NoChat, row |-> NoRow]
Done == [pc |-> "off", referee |-> Nobody, referrer |-> Nobody]

TypeOK ==
    /\ keyed \subseteq users /\ users \subseteq User
    /\ chat \in [User -> Chat \cup {NoChat}]
    /\ \A u, v \in User : chat[u] = chat[v] /\ chat[u] # NoChat => u = v
    /\ code \in [Code -> Row]
    /\ confirm \in [Confirm -> [pc : {"off", "count", "link"}, code : Code,
                                chat : Chat \cup {NoChat}, row : Row]]
    /\ told \in [Code -> Nat]
    /\ referrer \in [User -> User \cup {Nobody}]
    /\ apply \in [Apply -> [pc : {"off", "insert", "referrer", "referee", "count"},
                            referee : User \cup {Nobody}, referrer : User \cup {Nobody}]]
    /\ credit \in [User -> [Reason -> Nat]]

Init ==
    /\ users = {} /\ keyed = {}
    /\ chat = [u \in User |-> NoChat]
    /\ code = [c \in Code |-> NoRow]
    /\ confirm = [r \in Confirm |-> Idle]
    /\ told = [c \in Code |-> 0]
    /\ referrer = [u \in User |-> Nobody]
    /\ apply = [r \in Apply |-> Done]
    /\ credit = [u \in User |-> [k \in Reason |-> 0]]

Bound(t) == \E u \in User : chat[u] = t

-----------------------------------------------------------------------------
(* Accounts                                                                *)

\* User, key and subscription are three statements, the binding of a chat a
\* fourth that fails if the chat is taken; the user stays whatever fails.
Register(u) ==
    /\ u \notin users
    /\ users' = users \cup {u}
    /\ \/ UNCHANGED <<keyed, chat>>
       \/ /\ keyed' = keyed \cup {u}
          /\ \/ UNCHANGED chat
             \/ \E t \in Chat : ~Bound(t) /\ chat' = [chat EXCEPT ![u] = t]
    /\ UNCHANGED <<code, confirm, told, referring>>

\* The bot registers a chat that has no account: the row holds the chat.
RegisterTelegram(u, t) ==
    /\ u \notin users /\ ~Bound(t)
    /\ users' = users \cup {u}
    /\ chat' = [chat EXCEPT ![u] = t]
    /\ \/ UNCHANGED keyed
       \/ keyed' = keyed \cup {u}
    /\ UNCHANGED <<code, confirm, told, referring>>

-----------------------------------------------------------------------------
(* Linking a chat                                                          *)

\* One batch: a new code burns the user's outstanding ones.
StartLink(u, c) ==
    /\ u \in keyed /\ code[c] = NoRow
    /\ code' = [d \in Code |->
                  IF d = c THEN [NoRow EXCEPT !.owner = u]
                  ELSE IF code[d].owner = u THEN [code[d] EXCEPT !.used = TRUE] ELSE code[d]]
    /\ UNCHANGED <<chat, confirm, told, accounts, referring>>

CodeExpires(c) ==
    /\ code[c] # NoRow /\ ~code[c].expired
    /\ code' = [code EXCEPT ![c].expired = TRUE]
    /\ UNCHANGED <<chat, confirm, told, accounts, referring>>

\* A confirmation reads the row; past the rate limit, unless the code is worn out.
ConfirmRead(r, c, t) ==
    /\ confirm[r].pc = "off" /\ code[c] # NoRow
    /\ code[c].attempts < MaxAttempts
    /\ confirm' = [confirm EXCEPT ![r] = [pc |-> "count", code |-> c, chat |-> t, row |-> code[c]]]
    /\ UNCHANGED <<chat, code, told, accounts, referring>>

\* It counts the attempt, then judges by the row it read; the expiry by the
\* clock.
ConfirmCount(r) ==
    LET c == confirm[r].code
    IN  /\ confirm[r].pc = "count"
        /\ \/ /\ code' = [code EXCEPT ![c].attempts = @ + 1]
              /\ confirm' = [confirm EXCEPT ![r] =
                               IF @.row.used \/ code[c].expired THEN Idle ELSE [@ EXCEPT !.pc = "link"]]
           \/ /\ confirm' = [confirm EXCEPT ![r] = Idle] /\ UNCHANGED code
        /\ UNCHANGED <<chat, told, accounts, referring>>

\* mutant: the claim does not ask for an unused code
ClaimedAnyway(c) == code[c].owner # Nobody

\* WHERE code = ? AND used_at IS NULL
Claimed(c) == ~code[c].used

\* One batch: the code is claimed if it is free and the chat is bound either
\* way; a chat bound elsewhere, or a failure, rolls both back.
ConfirmLink(r) ==
    LET c == confirm[r].code
        u == confirm[r].row.owner
        t == confirm[r].chat
    IN  /\ confirm[r].pc = "link"
        /\ \/ /\ \A v \in User \ {u} : chat[v] # t
              /\ code' = [code EXCEPT ![c].used = TRUE]
              /\ chat' = [chat EXCEPT ![u] = t]
              /\ told' = [told EXCEPT ![c] = IF Claimed(c) THEN @ + 1 ELSE @]
           \/ UNCHANGED <<code, chat, told>>
        /\ confirm' = [confirm EXCEPT ![r] = Idle]
        /\ UNCHANGED <<accounts, referring>>

-----------------------------------------------------------------------------
(* Referrals                                                               *)

Paid(u, k) == [credit EXCEPT ![u][k] = @ + 1]

\* The code of another user, by a user nobody has referred yet.
ApplyCheck(r, u, v) ==
    /\ apply[r].pc = "off"
    /\ u \in keyed /\ v \in keyed \ {u} /\ referrer[u] = Nobody
    /\ apply' = [apply EXCEPT ![r] = [pc |-> "insert", referee |-> u, referrer |-> v]]
    /\ UNCHANGED <<referrer, credit, accounts, linking>>

\* mutant: no UNIQUE on the referee
InsertableAgain(u) == u \in keyed

\* referee_user_id is UNIQUE.
Insertable(u) == referrer[u] = Nobody

ApplyInsert(r) ==
    LET u == apply[r].referee
    IN  /\ apply[r].pc = "insert"
        /\ \/ /\ Insertable(u)
              /\ referrer' = [referrer EXCEPT ![u] = apply[r].referrer]
              /\ apply' = [apply EXCEPT ![r].pc = "referrer"]
           \/ apply' = [apply EXCEPT ![r] = Done] /\ UNCHANGED referrer
        /\ UNCHANGED <<credit, accounts, linking>>

\* Five dollars to the referrer, ten to the referee.
ApplyCredit(r) ==
    /\ \/ /\ apply[r].pc = "referrer"
          /\ credit' = Paid(apply[r].referrer, "referral_bonus")
          /\ apply' = [apply EXCEPT ![r].pc = "referee"]
       \/ /\ apply[r].pc = "referee"
          /\ credit' = Paid(apply[r].referee, "referee_bonus")
          /\ apply' = [apply EXCEPT ![r].pc = "count"]
       \/ /\ apply[r].pc \in {"referrer", "referee"}
          /\ apply' = [apply EXCEPT ![r] = Done] /\ UNCHANGED credit
    /\ UNCHANGED <<referrer, accounts, linking>>

\* The referrals are counted as they are now.
ApplyMilestone(r) ==
    LET v == apply[r].referrer
    IN  /\ apply[r].pc = "count"
        /\ credit' \in {credit} \cup
             (IF Cardinality({u \in User : referrer[u] = v}) = Milestone
              THEN {Paid(v, "milestone")} ELSE {})
        /\ apply' = [apply EXCEPT ![r] = Done]
        /\ UNCHANGED <<referrer, accounts, linking>>

Next ==
    \/ \E u \in User : Register(u) \/ \E t \in Chat : RegisterTelegram(u, t)
    \/ \E u \in User, c \in Code : StartLink(u, c)
    \/ \E c \in Code : CodeExpires(c)
    \/ \E r \in Confirm : \/ ConfirmCount(r) \/ ConfirmLink(r)
                          \/ \E c \in Code, t \in Chat : ConfirmRead(r, c, t)
    \/ \E r \in Apply : \/ ApplyInsert(r) \/ ApplyCredit(r) \/ ApplyMilestone(r)
                        \/ \E u, v \in User : ApplyCheck(r, u, v)

Spec == Init /\ [][Next]_vars

-----------------------------------------------------------------------------
(* Properties                                                              *)

\* A code links once: of all the confirmations of a code, concurrent ones
\* included, one at most is told that it linked.
LinkOnce == \A c \in Code : told[c] <= 1

Referred(v) == {u \in User : referrer[u] = v}

\* Every bonus has its referral: concurrent and retried applications pay a referee
\* once, their referrer once for each of them, and no referee whose referrer was
\* not paid.
BonusesBacked ==
    \A v \in User :
      /\ credit[v]["referee_bonus"] <= (IF referrer[v] = Nobody THEN 0 ELSE 1)
      /\ credit[v]["referral_bonus"] <= Cardinality(Referred(v))
      /\ Cardinality({u \in Referred(v) : credit[u]["referee_bonus"] > 0})
            <= credit[v]["referral_bonus"]

=============================================================================
