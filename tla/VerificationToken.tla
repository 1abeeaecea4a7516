-------------------------- MODULE VerificationToken --------------------------
(***************************************************************************)
(* The capabilities that complete one punch of one employee outside the    *)
(* HR app (channel-verification-token.service.ts): a LINK is opened in a   *)
(* browser (channel-verification.controller.ts), a CHAT challenge is       *)
(* answered by a photo (whatsapp-face-proof.service.ts).  A capability is  *)
(* claimed before the proofs are checked and the punch is made, and handed *)
(* back when either is refused.  One step is one query; photos and CHAT    *)
(* challenges of a chat are behind the lock of its session, links are not. *)
(***************************************************************************)
EXTENDS Naturals, FiniteSets

CONSTANTS
    Callers,        \* requests that may be under way together
    MaxTokens,      \* bound: capabilities issued, numbered by createdAt
    MaxLive,        \* MAX_LIVE_LINKS
    MaxAttempts,    \* maxAttempts of every row
    FaceLinks,      \* the links that ask for a face, if they are links
    MaxMishaps      \* bound: requests that die, answers that are lost

Tokens == 1..MaxTokens

ASSUME VerificationAssumption ==
    /\ MaxMishaps \in Nat /\ FaceLinks \subseteq Tokens
    /\ MaxTokens \in Nat \ {0} /\ MaxLive \in Nat \ {0} /\ MaxAttempts \in Nat \ {0}

VARIABLES
    last,       \* the newest capability
    token,      \* [Tokens -> Token]
    call,       \* [Callers -> Call]
    done,       \* history: capabilities whose punch was reported as made
    punched,    \* history: how often the capability made its punch
    mishaps     \* history: answers lost after a punch was made, requests that died

vars == <<last, token, call, done, punched, mishaps>>

Modes == {"LINK", "CHAT"}
Token == [status : {"NONE", "PENDING", "CONSUMED", "EXPIRED"}, mode : Modes,
          late : BOOLEAN,       \* past expiresAt
          proofSpent : BOOLEAN, attempts : 0..MaxAttempts]

Issuing == {"close", "cap", "expire", "create"}
Holding == {"claimed", "bump", "exhaust", "spend", "punch", "answer", "release"}
Call == [pc : {"idle", "claim"} \union Issuing \union Holding, mode : Modes, id : Tokens,
         old : SUBSET Tokens]   \* the links found to be too many
Idle == [pc |-> "idle", mode |-> "LINK", id |-> 1, old |-> {}]

TypeOK ==
    /\ last \in 0..MaxTokens
    /\ token \in [Tokens -> Token]
    /\ call \in [Callers -> Call]
    /\ done \subseteq Tokens
    /\ punched \in [Tokens -> Nat]
    /\ mishaps \in Nat

Goto(c, pc) == call' = [call EXCEPT ![c].pc = pc]
End(c) == call' = [call EXCEPT ![c] = Idle]
RequireFace(t) == token[t].mode = "CHAT" \/ t \in FaceLinks
Holds(c, t) == call[c].pc \in Holding /\ call[c].id = t

\* withLock(): somebody works on the chat of the employee.
ChatBusy == \E c \in Callers :
    /\ call[c].pc # "idle"
    /\ call[c].mode = "CHAT"

-----------------------------------------------------------------------------
(* issue() *)

\* Seeded fault: a challenge is issued outside the lock of the chat.
BeginIssueUnlocked(c) ==
    /\ call[c].pc = "idle" /\ last < MaxTokens
    /\ \E m \in Modes : call' = [call EXCEPT ![c] = [Idle EXCEPT !.pc = "close", !.mode = m]]
    /\ UNCHANGED <<last, token, done, punched, mishaps>>

BeginIssue(c) ==
    /\ call[c].pc = "idle" /\ last < MaxTokens
    /\ \E m \in Modes :
         /\ m = "CHAT" => ~ChatBusy
         /\ call' = [call EXCEPT ![c] = [Idle EXCEPT !.pc = "close", !.mode = m]]
    /\ UNCHANGED <<last, token, done, punched, mishaps>>

Pending(m) == {t \in Tokens : token[t].status = "PENDING" /\ token[t].mode = m}
WithStatus(S, s) == [t \in Tokens |-> IF t \in S THEN [token[t] EXCEPT !.status = s] ELSE token[t]]

CloseChallenge(c) ==
    /\ call[c].pc = "close"
    /\ token' = WithStatus(Pending("CHAT"), "EXPIRED")
    /\ Goto(c, IF call[c].mode = "LINK" THEN "cap" ELSE "create")
    /\ UNCHANGED <<last, done, punched, mishaps>>

Newer(t, S) == {u \in S : u > t}

\* Seeded fault: a new link takes the place of the one before.
CapAll(c) ==
    /\ call[c].pc = "cap"
    /\ call' = [call EXCEPT ![c].pc = "expire", ![c].old = Pending("LINK")]
    /\ UNCHANGED <<last, token, done, punched, mishaps>>

\* findMany with skip: all but the newest.
CapLinks(c) ==
    /\ call[c].pc = "cap"
    /\ call' = [call EXCEPT ![c].pc = "expire", ![c].old =
                  {t \in Pending("LINK") : Cardinality(Newer(t, Pending("LINK"))) >= MaxLive - 1}]
    /\ UNCHANGED <<last, token, done, punched, mishaps>>

\* By id, whatever has become of them.
ExpireOld(c) ==
    /\ call[c].pc = "expire"
    /\ token' = WithStatus(call[c].old, "EXPIRED")
    /\ call' = [call EXCEPT ![c].pc = "create", ![c].old = {}]
    /\ UNCHANGED <<last, done, punched, mishaps>>

Create(c) ==
    /\ call[c].pc = "create"
    /\ last < MaxTokens
    /\ last' = last + 1
    /\ token' = [token EXCEPT ![last + 1].status = "PENDING", ![last + 1].mode = call[c].mode]
    /\ End(c)
    /\ UNCHANGED <<done, punched, mishaps>>

-----------------------------------------------------------------------------
(* A link that is submitted, a photo that arrives *)

Live(t) == token[t].status = "PENDING" /\ ~token[t].late

SubmitLink(c, t) ==
    /\ call[c].pc = "idle"
    /\ Live(t) /\ token[t].mode = "LINK"
    /\ call' = [call EXCEPT ![c].pc = "claim", ![c].id = t]
    /\ UNCHANGED <<last, token, done, punched, mishaps>>

\* findOpenChallenge(): the newest.
SendPhoto(c, t) ==
    /\ call[c].pc = "idle" /\ ~ChatBusy
    /\ Live(t) /\ \A u \in Newer(t, Pending("CHAT")) : token[u].late
    /\ token[t].mode = "CHAT"
    /\ call' = [call EXCEPT ![c].pc = "claim", ![c].id = t, ![c].mode = "CHAT"]
    /\ UNCHANGED <<last, token, done, punched, mishaps>>

\* Seeded fault: the update does not ask for the status once more.
ClaimUnconditionally(c) ==
    /\ call[c].pc = "claim"
    /\ token' = [token EXCEPT ![call[c].id].status = "CONSUMED"]
    /\ Goto(c, "claimed")
    /\ UNCHANGED <<last, done, punched, mishaps>>

Claim(c) ==
    /\ call[c].pc = "claim"
    /\ IF token[call[c].id].status = "PENDING"
       THEN /\ token' = [token EXCEPT ![call[c].id].status = "CONSUMED"]
            /\ Goto(c, "claimed")
       ELSE End(c) /\ UNCHANGED token
    /\ UNCHANGED <<last, done, punched, mishaps>>

\* The identity is gone, the media cannot be fetched, the position is missing.
GiveUp(c) ==
    /\ call[c].pc = "claimed"
    /\ Goto(c, "release")
    /\ UNCHANGED <<last, token, done, punched, mishaps>>

CheckProofs(c) ==
    /\ call[c].pc = "claimed"
    /\ \/ ~RequireFace(call[c].id) /\ Goto(c, "punch")
       \/ RequireFace(call[c].id) /\ \E pc \in {"spend", "bump"} : Goto(c, pc)
    /\ UNCHANGED <<last, token, done, punched, mishaps>>

\* Seeded fault: the last attempt is handed back, too.
BumpAndRelease(c) ==
    /\ call[c].pc = "bump"
    /\ token' = [token EXCEPT ![call[c].id].attempts = @ + 1]
    /\ Goto(c, "release")
    /\ UNCHANGED <<last, done, punched, mishaps>>

BumpAttempts(c) ==
    /\ call[c].pc = "bump"
    /\ token' = [token EXCEPT ![call[c].id].attempts = @ + 1]
    /\ Goto(c, IF token[call[c].id].attempts + 1 >= MaxAttempts THEN "exhaust" ELSE "release")
    /\ UNCHANGED <<last, done, punched, mishaps>>

Exhaust(c) ==
    /\ call[c].pc = "exhaust"
    /\ token' = [token EXCEPT ![call[c].id].status = "EXPIRED"]
    /\ End(c)
    /\ UNCHANGED <<last, done, punched, mishaps>>

\* spendFaceProof(), the two queries as one: the second asks for the proof again.
\* Without the proof checkIn() refuses.
SpendFaceProof(c) ==
    LET t == token[call[c].id]
        spent == ~t.late /\ ~t.proofSpent
    IN  /\ call[c].pc = "spend"
        /\ token' = [token EXCEPT ![call[c].id].proofSpent = @ \/ spent]
        /\ Goto(c, IF spent THEN "punch" ELSE "release")
        /\ UNCHANGED <<last, done, punched, mishaps>>

\* The tool: the punch is made, or refused (out of range, not by face, ...).
Punch(c) ==
    /\ call[c].pc = "punch"
    /\ \/ /\ punched' = [punched EXCEPT ![call[c].id] = @ + 1]
          /\ Goto(c, "answer")
       \/ Goto(c, "release") /\ UNCHANGED punched
    /\ UNCHANGED <<last, token, done, mishaps>>

\* Seeded fault: the capability is handed back after every call of the tool.
AnswerAndRelease(c) ==
    /\ call[c].pc = "answer"
    /\ done' = done \union {call[c].id}
    /\ Goto(c, "release")
    /\ UNCHANGED <<last, token, punched, mishaps>>

Answer(c) ==
    /\ call[c].pc = "answer"
    /\ done' = done \union {call[c].id}
    /\ End(c)
    /\ UNCHANGED <<last, token, punched, mishaps>>

\* The punch is made, but preparing its answer fails: an error for the caller.
AnswerLost(c) ==
    /\ call[c].pc = "answer" /\ mishaps < MaxMishaps
    /\ Goto(c, "release")
    /\ mishaps' = mishaps + 1
    /\ UNCHANGED <<last, token, done, punched>>

\* unclaim(): only what is claimed and still in time.
Release(c) ==
    LET t == token[call[c].id]
    IN  /\ call[c].pc = "release"
        /\ token' = [token EXCEPT ![call[c].id] =
                       IF t.status = "CONSUMED" /\ ~t.late
                       THEN [t EXCEPT !.status = "PENDING", !.proofSpent = FALSE] ELSE t]
        /\ End(c)
        /\ UNCHANGED <<last, done, punched, mishaps>>

\* The process dies: what was claimed is not handed back by anybody.
Die(c) ==
    /\ call[c].pc # "idle" /\ mishaps < MaxMishaps
    /\ End(c)
    /\ mishaps' = mishaps + 1
    /\ UNCHANGED <<last, token, done, punched>>

\* Of the rows whose expiry somebody may still look at.
PassExpiry(t) ==
    /\ ~token[t].late
    /\ token[t].status = "PENDING" \/ \E c \in Callers : Holds(c, t)
    /\ token' = [token EXCEPT ![t].late = TRUE]
    /\ UNCHANGED <<last, call, done, punched, mishaps>>

-----------------------------------------------------------------------------
Init ==
    /\ last = 0
    /\ token = [t \in Tokens |-> [status |-> "NONE", mode |-> "LINK", late |-> FALSE,
                                  proofSpent |-> FALSE, attempts |-> 0]]
    /\ call = [c \in Callers |-> Idle]
    /\ done = {}
    /\ punched = [t \in Tokens |-> 0]
    /\ mishaps = 0

Issue(c) == BeginIssue(c) \/ CloseChallenge(c) \/ CapLinks(c) \/ ExpireOld(c) \/ Create(c)

Verify(c) ==
    \/ \E t \in Tokens : SubmitLink(c, t) \/ SendPhoto(c, t)
    \/ Claim(c) \/ GiveUp(c) \/ CheckProofs(c) \/ BumpAttempts(c) \/ Exhaust(c)
    \/ SpendFaceProof(c) \/ Punch(c) \/ Answer(c) \/ AnswerLost(c) \/ Release(c)

Next ==
    \/ \E c \in Callers : Issue(c) \/ Verify(c) \/ Die(c)
    \/ \E t \in Tokens : PassExpiry(t)

Spec == Init /\ [][Next]_vars

-----------------------------------------------------------------------------
(* Properties *)

\* Two taps, a tap and a photo, a tap while a refused attempt is handed back: a
\* capability is worked on by one request at a time, so one selfie or position
\* never stands for two punches (channel-verification-token.service.ts:428).
OneHolder == \A t \in Tokens, c, d \in Callers : Holds(c, t) /\ Holds(d, t) => c = d

\* A capability whose punch was reported is never worked on again, and makes a
\* second punch only if the report of the first one was lost
\* ("the capability is single-use", channel-verification.controller.ts:107; its
\* release() at :169 and :210 is for refusals).
SuccessIsFinal ==
    /\ \A t \in done : token[t].status # "PENDING" /\ \A c \in Callers : ~Holds(c, t)
    /\ \A t \in Tokens : punched[t] <= 1 + mishaps

\* The last failed attempt shuts the capability, whoever releases, dies or is late.
ExhaustedStaysShut ==
    \A t \in Tokens : token[t].attempts = MaxAttempts => token[t].status # "PENDING"

\* "Only ONE open CHAT challenge may exist per employee per purpose" (:89), which
\* takes the lock of the chat: a challenge that is being answered may be handed
\* back after the query that closes the open ones.
OneOpenChallenge == Cardinality(Pending("CHAT")) <= 1

\* A link is not invalidated by asking for another one (:103): it is closed by
\* its attempts, or by so many newer links that only the newest few stay.
LinkSurvives ==
    \A t \in Tokens : token[t].mode = "LINK" /\ token[t].status = "EXPIRED" =>
        \/ token[t].attempts >= MaxAttempts
        \/ Cardinality({u \in Newer(t, Tokens) : u <= last /\ token[u].mode = "LINK"}) >= MaxLive - 1
=============================================================================
