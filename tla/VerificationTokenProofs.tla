----------------------- MODULE VerificationTokenProofs -----------------------
(***************************************************************************)
(* Proofs about VerificationToken: for any number of requests, capabilities *)
(* and deaths, a capability has one holder, is not used again after its    *)
(* punch was reported, stays shut after its last attempt, and at most one  *)
(* challenge of a chat is open.                                            *)
(***************************************************************************)
EXTENDS VerificationToken, FiniteSetTheorems, TLAPS

PCs == {"idle", "claim"} \union Issuing \union Holding

\* What a request may rely on, whatever the others do to the same rows.
CallInv(c) ==
    /\ call[c].pc \in Holding \union {"claim"} =>
         /\ token[call[c].id].status # "NONE"
         /\ token[call[c].id].mode = call[c].mode
    /\ call[c].pc \in Holding => token[call[c].id].status # "PENDING"
    /\ call[c].pc \in Holding \ {"exhaust"} => token[call[c].id].attempts < MaxAttempts
    /\ call[c].pc \in {"idle", "cap", "expire"} => call[c].mode = "LINK"
    /\ \A t \in call[c].old : token[t].status # "NONE"
    /\ call[c].mode = "CHAT" /\ call[c].pc \in Holding \union {"create"} => Pending("CHAT") = {}

\* The history of a capability, told by its row and its holder.
TokenInv(t) ==
    /\ t > last => token[t].status = "NONE"
    /\ token[t].status = "NONE" => token[t].attempts = 0 /\ punched[t] = 0
    /\ token[t].status = "PENDING" => token[t].attempts # MaxAttempts
    /\ punched[t] <= 1 + mishaps
    /\ punched[t] > mishaps =>
         /\ token[t].status # "PENDING"
         /\ \A c \in Callers : Holds(c, t) => call[c].pc = "answer"
    /\ t \in done =>
         /\ token[t].status \notin {"NONE", "PENDING"}
         /\ \A c \in Callers : ~Holds(c, t)

\* The lock of the chat: one request at a time works on it.
ChatLock == \A c, d \in Callers :
    call[c].pc # "idle" /\ call[c].mode = "CHAT" /\ call[d].pc # "idle" /\ call[d].mode = "CHAT"
        => c = d

OneOpen == \A t, u \in Tokens : t \in Pending("CHAT") /\ u \in Pending("CHAT") => t = u

TokenSafety ==
    /\ TypeOK
    /\ OneHolder
    /\ ChatLock
    /\ OneOpen
    /\ \A c \in Callers : CallInv(c)
    /\ \A t \in Tokens : TokenInv(t)

-----------------------------------------------------------------------------
(* What the writes do *)

\* A request that goes on keeps everything but its place.
LEMMA GotoEffect ==
  ASSUME call \in [Callers -> Call], NEW c \in Callers, NEW pc \in PCs, Goto(c, pc)
  PROVE  /\ call' \in [Callers -> Call]
         /\ call'[c].pc = pc /\ call'[c].mode = call[c].mode
         /\ call'[c].id = call[c].id /\ call'[c].old = call[c].old
         /\ \A d \in Callers \ {c} : call'[d] = call[d]
<1>1. [call[c] EXCEPT !.pc = pc] \in Call
  BY DEF Call, PCs
<1> QED BY <1>1 DEF Goto, Call

\* A request that ends forgets everything.
LEMMA EndEffect ==
  ASSUME call \in [Callers -> Call], NEW c \in Callers, End(c)
  PROVE  /\ call' \in [Callers -> Call]
         /\ call'[c].pc = "idle" /\ call'[c].mode = "LINK" /\ call'[c].old = {}
         /\ \A d \in Callers \ {c} : call'[d] = call[d]
<1>1. Idle \in Call
  BY VerificationAssumption DEF Idle, Call, Modes, Tokens
<1>2. Idle.pc = "idle" /\ Idle.mode = "LINK" /\ Idle.old = {}
  BY DEF Idle
<1> QED BY <1>1, <1>2 DEF End

\* A request that starts to issue, or to work on a capability.
LEMMA IssueEffect ==
  ASSUME call \in [Callers -> Call], NEW c \in Callers, NEW m \in Modes,
         call' = [call EXCEPT ![c] = [Idle EXCEPT !.pc = "close", !.mode = m]]
  PROVE  /\ call' \in [Callers -> Call]
         /\ call'[c].pc = "close" /\ call'[c].mode = m /\ call'[c].old = {}
         /\ \A d \in Callers \ {c} : call'[d] = call[d]
<1> DEFINE started == [Idle EXCEPT !.pc = "close", !.mode = m]
<1>1. Idle \in Call /\ Idle.old = {}
  BY VerificationAssumption DEF Idle, Call, Modes, Tokens
<1>2. started \in Call /\ started.pc = "close" /\ started.mode = m /\ started.old = {}
  BY <1>1 DEF Call, Issuing
<1> HIDE DEF started
<1>3. call' = [call EXCEPT ![c] = started]
  BY DEF started
<1> QED BY <1>2, <1>3

\* The request of a link.
LEMMA ClaimEffect ==
  ASSUME call \in [Callers -> Call], NEW c \in Callers, NEW t \in Tokens,
         call' = [call EXCEPT ![c].pc = "claim", ![c].id = t]
  PROVE  /\ call' \in [Callers -> Call]
         /\ call'[c].pc = "claim" /\ call'[c].mode = call[c].mode /\ call'[c].id = t
         /\ call'[c].old = call[c].old
         /\ \A d \in Callers \ {c} : call'[d] = call[d]
<1>1. [call[c] EXCEPT !.pc = "claim", !.id = t] \in Call
  BY DEF Call
<1> QED BY <1>1 DEF Call

\* The request of a photo.
LEMMA PhotoEffect ==
  ASSUME call \in [Callers -> Call], NEW c \in Callers, NEW t \in Tokens,
         call' = [call EXCEPT ![c].pc = "claim", ![c].id = t, ![c].mode = "CHAT"]
  PROVE  /\ call' \in [Callers -> Call]
         /\ call'[c].pc = "claim" /\ call'[c].mode = "CHAT" /\ call'[c].id = t
         /\ call'[c].old = call[c].old
         /\ \A d \in Callers \ {c} : call'[d] = call[d]
<1>1. [call[c] EXCEPT !.pc = "claim", !.id = t, !.mode = "CHAT"] \in Call
  BY DEF Call, Modes
<1> QED BY <1>1 DEF Call

\* One row is written: the others stay.
LEMMA RowWritten ==
  ASSUME token \in [Tokens -> Token], NEW t \in Tokens, NEW row \in Token,
         token' = [token EXCEPT ![t] = row]
  PROVE  /\ token' \in [Tokens -> Token]
         /\ token'[t] = row
         /\ \A u \in Tokens \ {t} : token'[u] = token[u]
  OBVIOUS

\* The rows with their status changed are rows.
LEMMA StatusIsRow ==
  ASSUME NEW row \in Token, NEW s \in {"NONE", "PENDING", "CONSUMED", "EXPIRED"}
  PROVE  /\ [row EXCEPT !.status = s] \in Token
         /\ [row EXCEPT !.status = s].status = s
         /\ [row EXCEPT !.status = s].mode = row.mode
         /\ [row EXCEPT !.status = s].attempts = row.attempts
  BY DEF Token

\* Several rows change their status at once.
LEMMA StatusesWritten ==
  ASSUME token \in [Tokens -> Token], NEW S \in SUBSET Tokens,
         NEW s \in {"NONE", "PENDING", "CONSUMED", "EXPIRED"}, token' = WithStatus(S, s)
  PROVE  /\ token' \in [Tokens -> Token]
         /\ \A t \in Tokens : token'[t].mode = token[t].mode /\ token'[t].attempts = token[t].attempts
         /\ \A t \in S : token'[t].status = s
         /\ \A t \in Tokens \ S : token'[t] = token[t]
<1>1. \A t \in S : token'[t] = [token[t] EXCEPT !.status = s] /\ token[t] \in Token
  BY DEF WithStatus
<1>2. \A t \in Tokens \ S : token'[t] = token[t]
  BY DEF WithStatus
<1>3. \A t \in S : token'[t] \in Token /\ token'[t].status = s
                   /\ token'[t].mode = token[t].mode /\ token'[t].attempts = token[t].attempts
  <2> TAKE t \in S
  <2> DEFINE row == token[t]
  <2>1. row \in Token /\ token'[t] = [row EXCEPT !.status = s]
    BY <1>1
  <2> HIDE DEF row
  <2>2. /\ [row EXCEPT !.status = s] \in Token /\ [row EXCEPT !.status = s].status = s
        /\ [row EXCEPT !.status = s].mode = row.mode
        /\ [row EXCEPT !.status = s].attempts = row.attempts
    BY <2>1, StatusIsRow
  <2> QED BY <2>1, <2>2 DEF row
<1>4. token' = [t \in Tokens |-> token'[t]]
  BY DEF WithStatus
<1>5. ASSUME NEW t \in Tokens
      PROVE  /\ token'[t] \in Token
             /\ token'[t].mode = token[t].mode /\ token'[t].attempts = token[t].attempts
  <2>1. CASE t \in S
    BY <1>3, <2>1
  <2>2. CASE t \notin S
    BY <1>2, <2>2
  <2> QED BY <2>1, <2>2
<1>6. token' \in [Tokens -> Token]
  BY <1>4, <1>5
<1> QED BY <1>2, <1>3, <1>5, <1>6

-----------------------------------------------------------------------------
(* TokenSafety is inductive *)

\* Nothing was issued yet.
LEMMA SafetyInit == Init => TokenSafety
<1> SUFFICES ASSUME Init PROVE TokenSafety
  OBVIOUS
<1>1. TypeOK
  BY VerificationAssumption DEF Init, TypeOK, Token, Modes, Idle, Call, Tokens
<1>2. \A c \in Callers : call[c].pc = "idle" /\ call[c].mode = "LINK" /\ call[c].old = {}
  BY DEF Init, Idle
<1>3. \A t \in Tokens : /\ token[t].status = "NONE" /\ token[t].attempts = 0
                        /\ punched[t] = 0 /\ t \notin done
  BY DEF Init
<1>4. mishaps = 0
  BY DEF Init
<1>5. OneHolder /\ ChatLock /\ OneOpen
  BY <1>2, <1>3 DEF OneHolder, Holds, Holding, ChatLock, OneOpen, Pending
<1>6. \A c \in Callers : CallInv(c)
  BY <1>2 DEF CallInv, Holding
<1>7. \A t \in Tokens : TokenInv(t)
  BY <1>3, <1>4 DEF TokenInv
<1> QED BY <1>1, <1>5, <1>6, <1>7 DEF TokenSafety

\* Issuing: the queries up to the insert.
LEMMA BeginIssueSafe ==
  ASSUME TokenSafety, NEW c \in Callers, BeginIssue(c)
  PROVE  TokenSafety'
<1>1. PICK m \in Modes : /\ m = "CHAT" => ~ChatBusy
                         /\ call' = [call EXCEPT ![c] = [Idle EXCEPT !.pc = "close", !.mode = m]]
  BY DEF BeginIssue
<1>2. /\ call' \in [Callers -> Call]
      /\ call'[c].pc = "close" /\ call'[c].mode = m /\ call'[c].old = {}
      /\ \A d \in Callers \ {c} : call'[d] = call[d]
  BY <1>1, IssueEffect DEF TokenSafety, TypeOK
<1>3. UNCHANGED <<last, token, done, punched, mishaps>>
  BY DEF BeginIssue
<1> USE <1>1, <1>2, <1>3 DEF TokenSafety
<1>4. TypeOK'
  BY DEF TypeOK
<1>5. OneHolder' /\ ChatLock' /\ OneOpen'
  BY DEF OneHolder, Holds, Holding, ChatLock, ChatBusy, OneOpen, Pending
<1>6. \A d \in Callers : CallInv(d)'
  BY DEF CallInv, Holding, Pending
<1>7. \A t \in Tokens : TokenInv(t)'
  BY DEF TokenInv, Holds, Holding
<1> QED BY <1>4, <1>5, <1>6, <1>7

\* The open challenges are closed.
LEMMA CloseChallengeSafe ==
  ASSUME TokenSafety, NEW c \in Callers, CloseChallenge(c)
  PROVE  TokenSafety'
<1> DEFINE next == IF call[c].mode = "LINK" THEN "cap" ELSE "create"
<1>1. /\ call' \in [Callers -> Call]
      /\ call'[c].pc = next /\ call'[c].mode = call[c].mode
      /\ call'[c].id = call[c].id /\ call'[c].old = call[c].old
      /\ \A d \in Callers \ {c} : call'[d] = call[d]
  BY GotoEffect DEF CloseChallenge, TokenSafety, TypeOK, PCs, Issuing
<1>2. /\ token' \in [Tokens -> Token]
      /\ \A t \in Tokens : token'[t].mode = token[t].mode /\ token'[t].attempts = token[t].attempts
      /\ \A t \in Pending("CHAT") : token'[t].status = "EXPIRED"
      /\ \A t \in Tokens \ Pending("CHAT") : token'[t] = token[t]
  BY StatusesWritten DEF CloseChallenge, TokenSafety, TypeOK, Pending
<1>3. UNCHANGED <<last, done, punched, mishaps>> /\ call[c].pc = "close"
  BY DEF CloseChallenge
<1>4. Pending("CHAT")' = {}
  BY <1>2 DEF Pending
<1> HIDE DEF next
<1>5. next \notin Holding /\ (call[c].mode = "CHAT" => next = "create") /\ next # "claim"
      /\ next \notin {"idle", "expire"} /\ (next = "cap" => call[c].mode = "LINK")
  BY DEF next, Holding
<1> USE <1>1, <1>2, <1>3, <1>4, <1>5 DEF TokenSafety
<1>6. TypeOK'
  BY DEF TypeOK
<1>7. OneHolder' /\ ChatLock' /\ OneOpen'
  BY DEF OneHolder, Holds, ChatLock, OneOpen
<1>8. ASSUME NEW d \in Callers PROVE CallInv(d)'
  <2>1. /\ call[d].id \in Tokens /\ call[d].old \subseteq Tokens /\ CallInv(d)
        /\ call'[d].mode = call[d].mode /\ call'[d].id = call[d].id /\ call'[d].old = call[d].old
    BY DEF TypeOK, Call
  <2>2. \A t \in Tokens : token[t].status # "NONE" => token'[t].status # "NONE"
    BY DEF Pending
  <2>3. \A t \in Tokens : token[t].status # "PENDING" => token'[t] = token[t]
    BY DEF Pending
  <2>4. d # c => call'[d].pc = call[d].pc
    OBVIOUS
  <2> QED BY <2>1, <2>2, <2>3, <2>4 DEF CallInv
<1>9. \A t \in Tokens : TokenInv(t)'
  BY DEF TokenInv, Holds, Pending
<1> QED BY <1>6, <1>7, <1>8, <1>9

\* The superfluous links are looked up: they exist.
LEMMA CapLinksSafe ==
  ASSUME TokenSafety, NEW c \in Callers, CapLinks(c)
  PROVE  TokenSafety'
<1> DEFINE many == {t \in Pending("LINK") : Cardinality(Newer(t, Pending("LINK"))) >= MaxLive - 1}
           row == [call[c] EXCEPT !.pc = "expire", !.old = many]
<1>1. many \subseteq Tokens /\ \A t \in many : token[t].status = "PENDING"
  BY DEF Pending
<1>2. call' = [call EXCEPT ![c] = row]
  BY DEF CapLinks
<1> HIDE DEF many
<1>3. row \in Call /\ row.pc = "expire" /\ row.mode = call[c].mode /\ row.old = many
  BY <1>1 DEF TokenSafety, TypeOK, Call, Issuing
<1>4. UNCHANGED <<last, token, done, punched, mishaps>> /\ call[c].pc = "cap"
  BY DEF CapLinks
<1> HIDE DEF row
<1>5. /\ call' \in [Callers -> Call]
      /\ call'[c].pc = "expire" /\ call'[c].mode = call[c].mode /\ call'[c].old = many
      /\ \A d \in Callers \ {c} : call'[d] = call[d]
  BY <1>2, <1>3 DEF TokenSafety, TypeOK
<1> USE <1>1, <1>4, <1>5 DEF TokenSafety
<1>6. TypeOK'
  BY DEF TypeOK
<1>7. OneHolder' /\ ChatLock' /\ OneOpen'
  BY DEF OneHolder, Holds, Holding, ChatLock, OneOpen, Pending
<1>8. \A d \in Callers : CallInv(d)'
  BY DEF CallInv, Holding, Pending
<1>9. \A t \in Tokens : TokenInv(t)'
  BY DEF TokenInv, Holds, Holding
<1> QED BY <1>6, <1>7, <1>8, <1>9

\* Links are expired, held or not: none of them becomes pending.
LEMMA ExpireOldSafe ==
  ASSUME TokenSafety, NEW c \in Callers, ExpireOld(c)
  PROVE  TokenSafety'
<1> DEFINE old == call[c].old
           row == [call[c] EXCEPT !.pc = "create", !.old = {}]
<1>1. old \subseteq Tokens /\ \A t \in old : token[t].status # "NONE"
  BY DEF TokenSafety, TypeOK, Call, CallInv
<1>2. token' = WithStatus(old, "EXPIRED") /\ call' = [call EXCEPT ![c] = row]
  BY DEF ExpireOld
<1>3. row \in Call /\ row.pc = "create" /\ row.mode = call[c].mode /\ row.old = {}
  BY DEF TokenSafety, TypeOK, Call, Issuing
<1> HIDE DEF old, row
<1>4. /\ token' \in [Tokens -> Token]
      /\ \A t \in Tokens : token'[t].mode = token[t].mode /\ token'[t].attempts = token[t].attempts
      /\ \A t \in old : token'[t].status = "EXPIRED"
      /\ \A t \in Tokens \ old : token'[t] = token[t]
  BY <1>1, <1>2, StatusesWritten DEF TokenSafety, TypeOK
<1>5. /\ call' \in [Callers -> Call]
      /\ call'[c].pc = "create" /\ call'[c].mode = call[c].mode /\ call'[c].old = {}
      /\ \A d \in Callers \ {c} : call'[d] = call[d]
  BY <1>2, <1>3 DEF TokenSafety, TypeOK
<1>6. UNCHANGED <<last, done, punched, mishaps>> /\ call[c].pc = "expire"
  BY DEF ExpireOld
<1> USE <1>1, <1>4, <1>5, <1>6 DEF TokenSafety
<1>7. TypeOK'
  BY DEF TypeOK
<1>8. OneHolder' /\ ChatLock' /\ OneOpen'
  BY DEF OneHolder, Holds, Holding, ChatLock, OneOpen, Pending
<1>9. ASSUME NEW d \in Callers PROVE CallInv(d)'
  <2>1. call[d].id \in Tokens /\ call[d].old \subseteq Tokens /\ CallInv(d)
    BY DEF TypeOK, Call
  <2>2. \A t \in Tokens : token'[t].status = token[t].status \/ token'[t].status = "EXPIRED"
    OBVIOUS
  <2>3. CASE d = c
    BY <2>3 DEF CallInv, Holding
  <2>4. CASE d # c
    <3>1. Pending("CHAT")' \subseteq Pending("CHAT")
      BY <2>2 DEF Pending
    <3> QED BY <2>1, <2>2, <2>4, <3>1 DEF CallInv
  <2> QED BY <2>3, <2>4
<1>10. \A t \in Tokens : TokenInv(t)'
  BY DEF TokenInv, Holds, Holding
<1> QED BY <1>7, <1>8, <1>9, <1>10

\* A new row takes the next number, which nobody holds.
LEMMA CreateSafe ==
  ASSUME TokenSafety, NEW c \in Callers, Create(c)
  PROVE  TokenSafety'
<1> DEFINE n == last + 1
           row == [token[n] EXCEPT !.status = "PENDING", !.mode = call[c].mode]
<1>1. n \in Tokens /\ token[n].status = "NONE" /\ token[n].attempts = 0 /\ punched[n] = 0
      /\ n \notin done
  BY VerificationAssumption DEF Create, TokenSafety, TypeOK, TokenInv, Tokens
<1>2. \A d \in Callers : call[d].pc \in Holding \union {"claim"} => call[d].id # n
  BY <1>1 DEF TokenSafety, CallInv
<1>3. /\ row \in Token /\ row.status = "PENDING" /\ row.mode = call[c].mode
      /\ row.attempts = token[n].attempts
  <2>1. call[c].mode \in Modes
    BY DEF TokenSafety, TypeOK, Call
  <2>2. token[n] \in Token
    BY <1>1 DEF TokenSafety, TypeOK
  <2> QED BY <2>1, <2>2 DEF Token
<1>4. token' = [token EXCEPT ![n] = row]
  BY <1>1 DEF Create, TokenSafety, TypeOK, Token
<1> HIDE DEF row
<1>5. /\ token' \in [Tokens -> Token] /\ token'[n] = row
      /\ \A t \in Tokens \ {n} : token'[t] = token[t]
  BY <1>1, <1>3, <1>4, RowWritten DEF TokenSafety, TypeOK
<1>6. /\ call' \in [Callers -> Call]
      /\ call'[c].pc = "idle" /\ call'[c].mode = "LINK" /\ call'[c].old = {}
      /\ \A d \in Callers \ {c} : call'[d] = call[d]
  BY EndEffect DEF Create, TokenSafety, TypeOK
<1>7. /\ last' = n /\ last < MaxTokens /\ call[c].pc = "create"
      /\ UNCHANGED <<done, punched, mishaps>>
  BY DEF Create
<1>8. TypeOK'
  BY <1>1, <1>5, <1>6, <1>7, VerificationAssumption DEF TokenSafety, TypeOK
<1>9. OneHolder' /\ ChatLock'
  BY <1>6 DEF TokenSafety, OneHolder, Holds, Holding, ChatLock
<1>10. OneOpen'
  BY <1>3, <1>5, <1>7 DEF TokenSafety, OneOpen, Pending, CallInv
<1>11. ASSUME NEW d \in Callers PROVE CallInv(d)'
  <2>1. CASE d = c
    BY <1>6, <2>1 DEF CallInv, Holding
  <2>2. CASE d # c
    <3>1. call[d].mode = "CHAT" /\ call[d].pc \in Holding \union {"create"} => row.mode # "CHAT"
      BY <1>3, <1>7, <2>2 DEF TokenSafety, ChatLock, Holding
    <3>2. row.mode # "CHAT" /\ Pending("CHAT") = {} => Pending("CHAT")' = {}
      BY <1>3, <1>5 DEF Pending
    <3>3. call[d].old \subseteq Tokens /\ call[d].id \in Tokens
      BY DEF TokenSafety, TypeOK, Call
    <3> QED BY <1>1, <1>2, <1>3, <1>5, <1>6, <2>2, <3>1, <3>2, <3>3 DEF TokenSafety, CallInv
  <2> QED BY <2>1, <2>2
<1>12. ASSUME NEW t \in Tokens PROVE TokenInv(t)'
  <2>1. \A d \in Callers : Holds(d, t)' => Holds(d, t) /\ t # n /\ call'[d] = call[d]
    BY <1>2, <1>6 DEF Holds, Holding
  <2>2. CASE t = n
    BY <1>1, <1>3, <1>5, <1>7, <2>1, <2>2, VerificationAssumption DEF TokenSafety, TypeOK, TokenInv
  <2>3. CASE t # n
    BY <1>5, <1>7, <2>1, <2>3 DEF TokenSafety, TypeOK, TokenInv, Tokens
  <2> QED BY <2>2, <2>3
<1> QED BY <1>8, <1>9, <1>10, <1>11, <1>12 DEF TokenSafety

\* A link that is submitted, a photo that arrives: nothing is written yet.
LEMMA StartSafe ==
  ASSUME TokenSafety, NEW c \in Callers, NEW t \in Tokens, SubmitLink(c, t) \/ SendPhoto(c, t)
  PROVE  TokenSafety'
<1> DEFINE m == token[t].mode
<1>1. /\ call[c].pc = "idle" /\ token[t].status = "PENDING" /\ m \in Modes
      /\ m = "CHAT" => ~ChatBusy
      /\ UNCHANGED <<last, token, done, punched, mishaps>>
  BY DEF SubmitLink, SendPhoto, Live, Modes
<1>2. /\ call' \in [Callers -> Call]
      /\ call'[c].pc = "claim" /\ call'[c].mode = m /\ call'[c].id = t
      /\ call'[c].old = call[c].old
      /\ \A d \in Callers \ {c} : call'[d] = call[d]
  <2>1. CASE SubmitLink(c, t)
    <3>1. m = call[c].mode
      BY <1>1, <2>1 DEF SubmitLink, TokenSafety, CallInv
    <3> QED BY <2>1, <3>1, ClaimEffect DEF SubmitLink, TokenSafety, TypeOK
  <2>2. CASE SendPhoto(c, t)
    <3>1. m = "CHAT"
      BY <2>2 DEF SendPhoto
    <3> QED BY <2>2, <3>1, PhotoEffect DEF SendPhoto, TokenSafety, TypeOK
  <2> QED BY <2>1, <2>2
<1> USE <1>1, <1>2 DEF TokenSafety
<1>3. TypeOK'
  BY DEF TypeOK
<1>4. OneHolder' /\ ChatLock' /\ OneOpen'
  BY DEF OneHolder, Holds, Holding, ChatLock, ChatBusy, OneOpen, Pending
<1>5. \A d \in Callers : CallInv(d)'
  BY DEF CallInv, Holding, Pending
<1>6. \A u \in Tokens : TokenInv(u)'
  BY DEF TokenInv, Holds, Holding
<1> QED BY <1>3, <1>4, <1>5, <1>6

\* A request that stops, or dies, leaves its capability as it is.
LEMMA StopSafe ==
  ASSUME TokenSafety, NEW c \in Callers, End(c), mishaps' \in Nat, mishaps <= mishaps',
         UNCHANGED <<last, token, done, punched>>
  PROVE  TokenSafety'
<1>1. /\ call' \in [Callers -> Call]
      /\ call'[c].pc = "idle" /\ call'[c].mode = "LINK" /\ call'[c].old = {}
      /\ \A d \in Callers \ {c} : call'[d] = call[d]
  BY EndEffect DEF TokenSafety, TypeOK
<1> USE <1>1 DEF TokenSafety
<1>2. TypeOK'
  BY DEF TypeOK
<1>3. OneHolder' /\ ChatLock' /\ OneOpen'
  BY DEF OneHolder, Holds, Holding, ChatLock, OneOpen, Pending
<1>4. \A d \in Callers : CallInv(d)'
  BY DEF CallInv, Holding, Pending
<1>5. ASSUME NEW t \in Tokens PROVE TokenInv(t)'
  <2>1. \A d \in Callers : Holds(d, t)' => Holds(d, t) /\ call'[d] = call[d]
    BY DEF Holds, Holding
  <2>2. punched[t] \in Nat /\ mishaps \in Nat /\ punched'[t] = punched[t]
    BY DEF TypeOK
  <2> QED BY <2>1, <2>2 DEF TokenInv
<1> QED BY <1>2, <1>3, <1>4, <1>5

\* A request takes hold of capability t, goes on with it or lets go of it, and
\* writes nothing but its row and its history.
Works(c, t, p) ==
    /\ \/ call[c].pc \in Holding
       \/ call[c].pc = "claim" /\ token[t].status = "PENDING"
    /\ call' \in [Callers -> Call]
    /\ call'[c].pc = p
    /\ p = "idle" => call'[c].mode = "LINK" /\ call'[c].old = {}
    /\ p # "idle" => /\ call'[c].mode = call[c].mode /\ call'[c].id = t
                     /\ call'[c].old = call[c].old
    /\ \A d \in Callers \ {c} : call'[d] = call[d]

Writes(t, p) ==
    /\ token' \in [Tokens -> Token] /\ \A u \in Tokens \ {t} : token'[u] = token[u]
    /\ token'[t].mode = token[t].mode /\ token'[t].status # "NONE"
    /\ token'[t].status = "PENDING" => p = "idle" /\ token'[t].attempts # MaxAttempts
    /\ p \in Holding \ {"exhaust"} => token'[t].attempts < MaxAttempts
    /\ last' = last

Remembers(t, p) ==
    /\ \/ done' = done
       \/ p = "idle" /\ token'[t].status # "PENDING" /\ done' = done \union {t}
    /\ punched' \in [Tokens -> Nat] /\ \A u \in Tokens \ {t} : punched'[u] = punched[u]
    /\ mishaps' \in Nat /\ mishaps <= mishaps'
    /\ punched'[t] <= 1 + mishaps'
    /\ punched'[t] > mishaps' => token'[t].status # "PENDING" /\ p \in {"idle", "answer"}

\* Such a step is safe, whichever it is.
LEMMA HolderSafe ==
  ASSUME TokenSafety, NEW c \in Callers, NEW t \in Tokens, t = call[c].id,
         NEW p \in Holding \union {"idle"}, Works(c, t, p), Writes(t, p), Remembers(t, p)
  PROVE  TokenSafety'
<1> USE DEF TokenSafety
<1>1. /\ token[t].status # "NONE" /\ token[t].mode = call[c].mode /\ t \notin done
      /\ call[c].pc # "idle"
  BY DEF Works, CallInv, TokenInv, Holds, Holding
<1>2. \A d \in Callers \ {c} : ~Holds(d, t)
  BY DEF Works, CallInv, OneHolder, Holds
<1>3. \A d \in Callers \ {c} : ~(Holds(d, t)')
  BY <1>2 DEF Works, Holds
<1>4. TypeOK'
  BY DEF TypeOK, Works, Writes, Remembers
<1>5. OneHolder'
  BY <1>3 DEF OneHolder, Holds, Works, Holding
<1>6. ChatLock'
  BY <1>1 DEF ChatLock, Works
<1>7. Pending("CHAT") \subseteq {t} \/ call[c].mode # "CHAT"
  BY <1>1 DEF OneOpen, Pending, Works, CallInv
<1>8. OneOpen' /\ (call[c].mode = "CHAT" /\ p # "idle" => Pending("CHAT")' = {})
  BY <1>1, <1>7 DEF OneOpen, Pending, Writes
<1>9. ASSUME NEW d \in Callers PROVE CallInv(d)'
  <2>1. CASE d = c
    <3>1. call[c].old \subseteq Tokens /\ \A u \in call[c].old : token[u].status # "NONE"
      BY DEF TypeOK, Call, CallInv
    <3> QED BY <1>1, <1>8, <2>1, <3>1 DEF CallInv, Works, Writes, Holding
  <2>2. CASE d # c
    <3>1. call[d].id \in Tokens /\ call[d].old \subseteq Tokens /\ CallInv(d) /\ call'[d] = call[d]
      BY <2>2 DEF TypeOK, Call, Works
    <3>2. call[d].pc \in Holding => call[d].id # t
      BY <1>2, <2>2 DEF Holds
    <3>3. call[d].mode = "CHAT" /\ call[d].pc # "idle" => token[t].mode # "CHAT"
      BY <1>1, <2>2 DEF ChatLock
    <3>4. token[t].mode # "CHAT" => Pending("CHAT")' = Pending("CHAT")
      BY DEF Pending, Writes
    <3> QED BY <1>1, <3>1, <3>2, <3>3, <3>4 DEF CallInv, Writes, Holding
  <2> QED BY <2>1, <2>2
<1>10. ASSUME NEW u \in Tokens PROVE TokenInv(u)'
  <2>1. CASE u = t
    <3>1. t \in done' => p = "idle" /\ token'[t].status # "PENDING"
      BY <1>1 DEF Remembers
    <3>2. \A d \in Callers : Holds(d, t)' => d = c /\ p # "idle"
      BY <1>3 DEF Holds, Works, Holding
    <3>3. ~(t > last')
      BY <1>1 DEF TokenInv, Writes
    <3> QED BY <2>1, <3>1, <3>2, <3>3 DEF TokenInv, Writes, Remembers, Works
  <2>2. CASE u # t
    <3>1. \A d \in Callers : Holds(d, u)' => d = c \/ (Holds(d, u) /\ call'[d].pc = call[d].pc)
      BY DEF Holds, Works
    <3>2. ~(Holds(c, u)')
      BY <2>2 DEF Holds, Works, Holding
    <3>3. u \in done' => u \in done
      BY <2>2 DEF Remembers
    <3>4. punched[u] \in Nat /\ punched'[u] = punched[u] /\ token'[u] = token[u]
      BY <2>2 DEF TypeOK, Remembers, Writes
    <3> QED BY <3>1, <3>2, <3>3, <3>4 DEF TokenInv, Writes, Remembers, TypeOK
  <2> QED BY <2>1, <2>2
<1> QED BY <1>4, <1>5, <1>6, <1>8, <1>9, <1>10

\* A held capability and its holder.
LEMMA Held ==
  ASSUME TokenSafety, NEW c \in Callers, call[c].pc \in Holding
  PROVE  /\ call[c].id \in Tokens /\ token[call[c].id] \in Token
         /\ token[call[c].id].status \notin {"NONE", "PENDING"}
         /\ call[c].pc # "exhaust" => token[call[c].id].attempts < MaxAttempts
         /\ punched[call[c].id] \in Nat /\ mishaps \in Nat
         /\ call[c].pc # "answer" => punched[call[c].id] <= mishaps
         /\ punched[call[c].id] <= 1 + mishaps
         /\ token[call[c].id].attempts \in Nat
<1>1. call[c] \in Call /\ call[c].id \in Tokens
  BY DEF TokenSafety, TypeOK, Call
<1>2. Holds(c, call[c].id) /\ token[call[c].id] \in Token /\ token[call[c].id].attempts \in Nat
  BY <1>1 DEF TokenSafety, TypeOK, Token, Holds
<1>3. punched[call[c].id] \in Nat /\ mishaps \in Nat
  BY <1>1 DEF TokenSafety, TypeOK
<1> QED BY <1>1, <1>2, <1>3 DEF TokenSafety, CallInv, TokenInv

\* The holder goes on, or stops, as Works describes it.
LEMMA GoesOn ==
  ASSUME TokenSafety, NEW c \in Callers, call[c].pc \in Holding, NEW p \in Holding, Goto(c, p)
  PROVE  Works(c, call[c].id, p)
<1>1. p # "idle" /\ p \in PCs
  BY DEF Holding, PCs
<1> QED BY <1>1, GotoEffect DEF TokenSafety, TypeOK, Works

\* The holder stops.
LEMMA Stops ==
  ASSUME TokenSafety, NEW c \in Callers, call[c].pc \in Holding, End(c)
  PROVE  Works(c, call[c].id, "idle")
  BY EndEffect DEF TokenSafety, TypeOK, Works

\* Steps of the holder that write no row.
LEMMA HolderGoes ==
  ASSUME TokenSafety, NEW c \in Callers, call[c].pc \in Holding \ {"exhaust", "answer"},
         NEW p \in Holding \ {"answer"}, Goto(c, p),
         UNCHANGED <<last, token, done, punched, mishaps>>
  PROVE  TokenSafety'
<1> DEFINE t == call[c].id
<1>1. Works(c, t, p)
  BY GoesOn
<1>2. Writes(t, p)
  BY Held DEF Writes, TokenSafety, TypeOK
<1>3. Remembers(t, p)
  BY Held DEF Remembers, TokenSafety, TypeOK
<1> QED BY <1>1, <1>2, <1>3, Held, HolderSafe

\* The tool is called; its answer arrives or is lost.
LEMMA PunchSafe ==
  ASSUME TokenSafety, NEW c \in Callers, Punch(c) \/ Answer(c) \/ AnswerLost(c)
  PROVE  TokenSafety'
<1> DEFINE t == call[c].id
<1>0. call[c].pc \in Holding /\ "answer" \in Holding /\ "release" \in Holding
  BY DEF Punch, Answer, AnswerLost, Holding
<1>1. CASE call[c].pc = "punch" /\ Goto(c, "release") /\ UNCHANGED <<last, token, done, punched, mishaps>>
  BY <1>0, <1>1, HolderGoes
<1>2. CASE /\ call[c].pc = "punch" /\ Goto(c, "answer") /\ punched' = [punched EXCEPT ![t] = @ + 1]
           /\ UNCHANGED <<last, token, done, mishaps>>
  <2>1. Works(c, t, "answer")
    BY <1>0, <1>2, GoesOn
  <2>2. Writes(t, "answer")
    BY <1>0, <1>2, Held DEF Writes, TokenSafety, TypeOK
  <2>3. Remembers(t, "answer")
    BY <1>0, <1>2, Held DEF Remembers, TokenSafety, TypeOK
  <2> QED BY <1>0, <2>1, <2>2, <2>3, Held, HolderSafe
<1>3. CASE Answer(c)
  <2>1. Works(c, t, "idle")
    BY <1>0, <1>3, Stops DEF Answer
  <2>2. Writes(t, "idle")
    BY <1>0, <1>3, Held DEF Answer, Writes, TokenSafety, TypeOK, Holding
  <2>3. Remembers(t, "idle")
    BY <1>0, <1>3, Held DEF Answer, Remembers, TokenSafety, TypeOK
  <2> QED BY <1>0, <2>1, <2>2, <2>3, Held, HolderSafe
<1>4. CASE AnswerLost(c)
  <2>1. Works(c, t, "release")
    BY <1>0, <1>4, GoesOn DEF AnswerLost
  <2>2. Writes(t, "release")
    BY <1>0, <1>4, Held DEF AnswerLost, Writes, TokenSafety, TypeOK
  <2>3. Remembers(t, "release")
    BY <1>0, <1>4, Held DEF AnswerLost, Remembers, TokenSafety, TypeOK
  <2> QED BY <1>0, <2>1, <2>2, <2>3, Held, HolderSafe
<1> QED BY <1>1, <1>2, <1>3, <1>4 DEF Punch

\* The conditional update: whoever finds the row PENDING holds it.
LEMMA ClaimSafe ==
  ASSUME TokenSafety, NEW c \in Callers, Claim(c)
  PROVE  TokenSafety'
<1> DEFINE t == call[c].id
           row == [token[t] EXCEPT !.status = "CONSUMED"]
<1>0. /\ t \in Tokens /\ token[t] \in Token /\ TokenInv(t)
      /\ call[c].pc = "claim" /\ UNCHANGED <<last, done, punched, mishaps>>
      /\ mishaps \in Nat /\ token[t].attempts \in 0..MaxAttempts
  BY DEF Claim, TokenSafety, TypeOK, Call, Token
<1>1. CASE token[t].status # "PENDING"
  <2>1. End(c) /\ UNCHANGED token
    BY <1>1 DEF Claim
  <2> QED BY <1>0, <2>1, StopSafe
<1>2. CASE token[t].status = "PENDING"
  <2>1. Goto(c, "claimed") /\ token' = [token EXCEPT ![t] = row]
    BY <1>2 DEF Claim
  <2>2. "claimed" \in PCs /\ "claimed" \in Holding
    BY DEF PCs, Holding
  <2>3. /\ row \in Token /\ row.status = "CONSUMED" /\ row.mode = token[t].mode
        /\ row.attempts = token[t].attempts
    BY <1>0, StatusIsRow
  <2> HIDE DEF row
  <2>4. token' \in [Tokens -> Token] /\ token'[t] = row /\ \A u \in Tokens \ {t} : token'[u] = token[u]
    BY <1>0, <2>1, <2>3, RowWritten DEF TokenSafety, TypeOK
  <2>5. Works(c, t, "claimed")
    BY <1>0, <1>2, <2>1, <2>2, GotoEffect DEF Works, TokenSafety, TypeOK
  <2>6. Writes(t, "claimed")
    BY <1>0, <1>2, <2>3, <2>4, VerificationAssumption DEF Writes, TokenInv
  <2>7. Remembers(t, "claimed")
    BY <1>0, <1>2, <2>3, <2>4 DEF Remembers, TokenInv, TokenSafety, TypeOK
  <2> QED BY <1>0, <2>2, <2>5, <2>6, <2>7, HolderSafe
<1> QED BY <1>1, <1>2

\* The proofs are checked, or the request gives up before.
LEMMA CheckSafe ==
  ASSUME TokenSafety, NEW c \in Callers, GiveUp(c) \/ CheckProofs(c)
  PROVE  TokenSafety'
<1>1. PICK p \in {"release", "punch", "spend", "bump"} : Goto(c, p)
  BY DEF GiveUp, CheckProofs
<1>2. call[c].pc \in Holding \ {"exhaust", "answer"} /\ p \in Holding \ {"answer"}
  BY DEF GiveUp, CheckProofs, Holding
<1>3. UNCHANGED <<last, token, done, punched, mishaps>>
  BY DEF GiveUp, CheckProofs
<1> QED BY <1>1, <1>2, <1>3, HolderGoes

\* The holder writes its own row and goes on.
LEMMA HolderWrites ==
  ASSUME TokenSafety, NEW c \in Callers, call[c].pc \in Holding \ {"answer"},
         NEW row \in Token, token' = [token EXCEPT ![call[c].id] = row],
         row.mode = token[call[c].id].mode, row.status \notin {"NONE", "PENDING"},
         UNCHANGED <<last, done, punched, mishaps>>,
         NEW p \in Holding \ {"answer"}, Goto(c, p),
         p # "exhaust" => row.attempts < MaxAttempts
  PROVE  TokenSafety'
<1> DEFINE t == call[c].id
<1>0. t \in Tokens
  BY Held
<1>1. token' \in [Tokens -> Token] /\ token'[t] = row /\ \A u \in Tokens \ {t} : token'[u] = token[u]
  BY <1>0, RowWritten DEF TokenSafety, TypeOK
<1>2. Works(c, t, p)
  BY GoesOn
<1>3. Writes(t, p)
  BY <1>1 DEF Writes
<1>4. Remembers(t, p)
  BY Held DEF Remembers, TokenSafety, TypeOK
<1> QED BY <1>0, <1>2, <1>3, <1>4, HolderSafe

\* The holder writes its own row and lets go of it.
LEMMA HolderLetsGo ==
  ASSUME TokenSafety, NEW c \in Callers, call[c].pc \in Holding \ {"answer"},
         NEW row \in Token, token' = [token EXCEPT ![call[c].id] = row],
         row.mode = token[call[c].id].mode, row.status # "NONE",
         UNCHANGED <<last, done, punched, mishaps>>, End(c),
         row.status = "PENDING" => row.attempts # MaxAttempts
  PROVE  TokenSafety'
<1> DEFINE t == call[c].id
<1>0. t \in Tokens
  BY Held
<1>1. token' \in [Tokens -> Token] /\ token'[t] = row /\ \A u \in Tokens \ {t} : token'[u] = token[u]
  BY <1>0, RowWritten DEF TokenSafety, TypeOK
<1>2. Works(c, t, "idle")
  BY Stops
<1>3. Writes(t, "idle")
  BY <1>1 DEF Writes, Holding
<1>4. Remembers(t, "idle")
  BY Held DEF Remembers, TokenSafety, TypeOK
<1> QED BY <1>0, <1>2, <1>3, <1>4, HolderSafe

\* A failed attempt is counted; the last one shuts the capability.
LEMMA BumpSafe ==
  ASSUME TokenSafety, NEW c \in Callers, BumpAttempts(c)
  PROVE  TokenSafety'
<1> DEFINE t == call[c].id
           row == [token[t] EXCEPT !.attempts = @ + 1]
           p == IF token[t].attempts + 1 >= MaxAttempts THEN "exhaust" ELSE "release"
<1>1. /\ call[c].pc = "bump" /\ call[c].pc \in Holding \ {"answer"}
      /\ UNCHANGED <<last, done, punched, mishaps>> /\ Goto(c, p)
  BY DEF BumpAttempts, Holding
<1>2. /\ t \in Tokens /\ token[t] \in Token /\ token[t].status \notin {"NONE", "PENDING"}
      /\ token[t].attempts \in Nat /\ token[t].attempts < MaxAttempts
  BY <1>1, Held
<1>3. /\ row \in Token /\ row.mode = token[t].mode /\ row.status = token[t].status
      /\ row.attempts = token[t].attempts + 1
  BY <1>2, VerificationAssumption DEF Token
<1>4. token' = [token EXCEPT ![t] = row]
  BY <1>2 DEF BumpAttempts, TokenSafety, TypeOK, Token
<1>5. p \in Holding \ {"answer"} /\ (p # "exhaust" => token[t].attempts + 1 < MaxAttempts)
  BY <1>2, VerificationAssumption DEF Holding
<1> HIDE DEF row, p
<1> QED BY <1>1, <1>2, <1>3, <1>4, <1>5, HolderWrites

\* The last failed attempt shuts the capability.
LEMMA ExhaustSafe ==
  ASSUME TokenSafety, NEW c \in Callers, Exhaust(c)
  PROVE  TokenSafety'
<1> DEFINE t == call[c].id
           row == [token[t] EXCEPT !.status = "EXPIRED"]
<1>1. /\ call[c].pc \in Holding \ {"answer"} /\ End(c)
      /\ UNCHANGED <<last, done, punched, mishaps>> /\ token' = [token EXCEPT ![t] = row]
  BY DEF Exhaust, Holding
<1>2. t \in Tokens /\ token[t] \in Token
  BY <1>1, Held
<1>3. row \in Token /\ row.mode = token[t].mode /\ row.status = "EXPIRED"
  BY <1>2, StatusIsRow
<1> HIDE DEF row
<1> QED BY <1>1, <1>2, <1>3, HolderLetsGo

\* The face proof is spent once, while the capability is in time.
LEMMA SpendSafe ==
  ASSUME TokenSafety, NEW c \in Callers, SpendFaceProof(c)
  PROVE  TokenSafety'
<1> DEFINE t == call[c].id
           spent == ~token[t].late /\ ~token[t].proofSpent
           row == [token[t] EXCEPT !.proofSpent = @ \/ spent]
           p == IF spent THEN "punch" ELSE "release"
<1>1. /\ call[c].pc = "spend" /\ call[c].pc \in Holding \ {"answer"}
      /\ UNCHANGED <<last, done, punched, mishaps>> /\ Goto(c, p)
  BY DEF SpendFaceProof, Holding
<1>2. /\ t \in Tokens /\ token[t] \in Token /\ token[t].status \notin {"NONE", "PENDING"}
      /\ token[t].attempts < MaxAttempts
  BY <1>1, Held
<1>3. /\ row \in Token /\ row.mode = token[t].mode /\ row.status = token[t].status
      /\ row.attempts = token[t].attempts
  BY <1>2 DEF Token
<1>4. token' = [token EXCEPT ![t] = row]
  BY <1>2 DEF SpendFaceProof, TokenSafety, TypeOK, Token
<1>5. p \in Holding \ {"answer"}
  BY DEF Holding
<1> HIDE DEF row, p
<1> QED BY <1>1, <1>2, <1>3, <1>4, <1>5, HolderWrites

\* A refused attempt hands the capability back, with attempts left on it.
LEMMA ReleaseSafe ==
  ASSUME TokenSafety, NEW c \in Callers, Release(c)
  PROVE  TokenSafety'
<1> DEFINE t == call[c].id
           back == [token[t] EXCEPT !.status = "PENDING", !.proofSpent = FALSE]
           row == IF token[t].status = "CONSUMED" /\ ~token[t].late THEN back ELSE token[t]
<1>1. /\ call[c].pc = "release" /\ call[c].pc \in Holding \ {"answer"} /\ End(c)
      /\ UNCHANGED <<last, done, punched, mishaps>> /\ token' = [token EXCEPT ![t] = row]
  BY DEF Release, Holding
<1>2. /\ t \in Tokens /\ token[t] \in Token /\ token[t].status \notin {"NONE", "PENDING"}
      /\ token[t].attempts \in Nat /\ token[t].attempts < MaxAttempts
  BY <1>1, Held
<1>3. /\ back \in Token /\ back.mode = token[t].mode /\ back.status = "PENDING"
      /\ back.attempts = token[t].attempts
  BY <1>2 DEF Token
<1> HIDE DEF back
<1>4. /\ row \in Token /\ row.mode = token[t].mode /\ row.status # "NONE"
      /\ row.attempts = token[t].attempts
  BY <1>2, <1>3
<1>5. row.attempts # MaxAttempts
  BY <1>2, <1>4, VerificationAssumption
<1> HIDE DEF row
<1> QED BY <1>1, <1>4, <1>5, HolderLetsGo

\* Time passes: a row becomes late and nothing else.
LEMMA PassExpirySafe ==
  ASSUME TokenSafety, NEW t \in Tokens, PassExpiry(t)
  PROVE  TokenSafety'
<1> DEFINE row == [token[t] EXCEPT !.late = TRUE]
<1>1. token' = [token EXCEPT ![t] = row] /\ UNCHANGED <<last, call, done, punched, mishaps>>
  BY DEF PassExpiry
<1>2. /\ row \in Token /\ row.status = token[t].status /\ row.mode = token[t].mode
      /\ row.attempts = token[t].attempts
  BY DEF TokenSafety, TypeOK, Token
<1> HIDE DEF row
<1>3. /\ token' \in [Tokens -> Token]
      /\ \A u \in Tokens : /\ token'[u].status = token[u].status
                           /\ token'[u].mode = token[u].mode
                           /\ token'[u].attempts = token[u].attempts
  BY <1>1, <1>2 DEF TokenSafety, TypeOK
<1>4. Pending("CHAT")' = Pending("CHAT")
  BY <1>3 DEF Pending
<1> USE <1>1, <1>3, <1>4 DEF TokenSafety
<1>5. TypeOK'
  BY DEF TypeOK
<1>6. OneHolder' /\ ChatLock' /\ OneOpen'
  BY DEF OneHolder, Holds, ChatLock, OneOpen
<1>7. ASSUME NEW d \in Callers PROVE CallInv(d)'
  BY DEF CallInv, TypeOK, Call
<1>8. \A u \in Tokens : TokenInv(u)'
  BY DEF TokenInv, Holds
<1> QED BY <1>5, <1>6, <1>7, <1>8

\* Every step keeps TokenSafety.
LEMMA SafetyStep == TokenSafety /\ [Next]_vars => TokenSafety'
<1> SUFFICES ASSUME TokenSafety, [Next]_vars PROVE TokenSafety'
  OBVIOUS
<1>1. ASSUME NEW c \in Callers, Issue(c) PROVE TokenSafety'
  BY <1>1, BeginIssueSafe, CloseChallengeSafe, CapLinksSafe, ExpireOldSafe, CreateSafe DEF Issue
<1>2. ASSUME NEW c \in Callers, Verify(c) PROVE TokenSafety'
  BY <1>2, StartSafe, ClaimSafe, CheckSafe, BumpSafe, ExhaustSafe, SpendSafe, PunchSafe, ReleaseSafe
     DEF Verify
<1>3. ASSUME NEW c \in Callers, Die(c) PROVE TokenSafety'
  BY <1>3, StopSafe DEF Die, TokenSafety, TypeOK
<1>4. ASSUME NEW t \in Tokens, PassExpiry(t) PROVE TokenSafety'
  BY <1>4, PassExpirySafe
<1>5. CASE UNCHANGED vars
  BY <1>5 DEF vars, TokenSafety, TypeOK, OneHolder, ChatLock, OneOpen, CallInv, TokenInv, Holds, Pending
<1> QED BY <1>1, <1>2, <1>3, <1>4, <1>5 DEF Next

-----------------------------------------------------------------------------
(* The theorems *)

\* The inductive invariant holds in every state.
THEOREM Safe == Spec => []TokenSafety
  BY SafetyInit, SafetyStep, PTL DEF Spec

\* A capability is worked on by one request at a time, however many arrive
\* together, die, or hand it back (unclaim and the conditional claim).
THEOREM CapabilityIsExclusive == Spec => []OneHolder
<1>1. TokenSafety => OneHolder
  BY DEF TokenSafety
<1> QED BY <1>1, Safe, PTL

\* A reported punch is the end of its capability; a second punch takes a report
\* that was lost or a request that died.
THEOREM ReportedIsSpent == Spec => []SuccessIsFinal
<1>1. TokenSafety => SuccessIsFinal
  BY DEF TokenSafety, TypeOK, SuccessIsFinal, TokenInv
<1> QED BY <1>1, Safe, PTL

\* The last failed attempt shuts the capability for good.
THEOREM AttemptsShut == Spec => []ExhaustedStaysShut
<1>1. TokenSafety => ExhaustedStaysShut
  BY DEF TokenSafety, ExhaustedStaysShut, TokenInv
<1> QED BY <1>1, Safe, PTL

\* At most one challenge of a chat is open, thanks to the lock of the chat.
THEOREM ChallengeIsUnique == Spec => []OneOpenChallenge
<1>1. TokenSafety => OneOpenChallenge
  <2> SUFFICES ASSUME TokenSafety PROVE OneOpenChallenge
    OBVIOUS
  <2>1. CASE Pending("CHAT") = {}
    BY <2>1, FS_EmptySet DEF OneOpenChallenge
  <2>2. CASE Pending("CHAT") # {}
    <3>1. PICK t : t \in Pending("CHAT")
      BY <2>2
    <3>2. Pending("CHAT") = {t}
      BY <3>1 DEF TokenSafety, OneOpen, Pending
    <3>3. Cardinality({t}) = 1
      BY FS_Singleton
    <3> QED BY <3>2, <3>3 DEF OneOpenChallenge
  <2> QED BY <2>1, <2>2
<1> QED BY <1>1, Safe, PTL
-----------------------------------------------------------------------------
(* Links survive: what closes one *)

NewerLinks(t) == {u \in Newer(t, Tokens) : u <= last /\ token[u].mode = "LINK"}
Enough(t) == Cardinality(NewerLinks(t)) >= MaxLive - 1

\* A link that was closed, or is about to be, has its reason.
LinkInv ==
    /\ LinkSurvives
    /\ \A c \in Callers : call[c].pc = "exhaust" => token[call[c].id].attempts >= MaxAttempts
    /\ \A c \in Callers : \A t \in call[c].old : Enough(t)

\* What every step respects: links are only added, attempts only grow, and a
\* link is closed from the list of superfluous ones or by its last attempt.
Respects ==
    /\ last <= last' /\ \A u \in Tokens : u <= last => token'[u].mode = token[u].mode
    /\ \A u \in Tokens : token'[u].attempts >= token[u].attempts
    /\ \A u \in Tokens : token'[u].status = "EXPIRED" /\ token'[u].mode = "LINK" =>
         /\ token[u].mode = "LINK"
         /\ \/ token[u].status = "EXPIRED"
            \/ \E c \in Callers : u \in call[c].old
            \/ \E c \in Callers : call[c].pc = "exhaust" /\ call[c].id = u
    /\ \A c \in Callers : \A t \in call'[c].old : t \in call[c].old \/ (t \in Tokens /\ Enough(t))
    /\ \A c \in Callers : call'[c].pc = "exhaust" =>
         \/ token'[call'[c].id].attempts >= MaxAttempts
         \/ call[c].pc = "exhaust" /\ call'[c].id = call[c].id

\* Steps that write no row.
LEMMA CallRespects ==
  ASSUME TokenSafety, UNCHANGED <<last, token>>, NEW c \in Callers,
         \A d \in Callers \ {c} : call'[d] = call[d],
         \A t \in call'[c].old : t \in call[c].old \/ (t \in Tokens /\ Enough(t)),
         call'[c].pc # "exhaust"
  PROVE  Respects
<1>1. last \in Nat /\ \A u \in Tokens : token[u].attempts \in Nat
  BY VerificationAssumption DEF TokenSafety, TypeOK, Token
<1> QED BY <1>1 DEF Respects

\* The superfluous links are those with enough newer ones.
LEMMA CapRespects == ASSUME TokenSafety, NEW c \in Callers, CapLinks(c) PROVE Respects
<1> DEFINE many == {t \in Pending("LINK") : Cardinality(Newer(t, Pending("LINK"))) >= MaxLive - 1}
<1>1. ASSUME NEW t \in many PROVE t \in Tokens /\ Enough(t)
  <2>1. Newer(t, Pending("LINK")) \subseteq NewerLinks(t) /\ t \in Tokens
    BY DEF Newer, Pending, NewerLinks, TokenSafety, TokenInv, TypeOK, Tokens
  <2>2. IsFiniteSet(NewerLinks(t))
    <3>1. IsFiniteSet(Tokens)
      BY VerificationAssumption, FS_Interval DEF Tokens
    <3> QED BY <3>1, FS_Subset DEF NewerLinks, Newer
  <2>3. /\ Cardinality(Newer(t, Pending("LINK"))) <= Cardinality(NewerLinks(t))
        /\ Cardinality(Newer(t, Pending("LINK"))) \in Nat /\ Cardinality(NewerLinks(t)) \in Nat
    BY <2>1, <2>2, FS_Subset, FS_CardinalityType
  <2> QED BY <2>1, <2>3, VerificationAssumption DEF Enough
<1>2. call' = [call EXCEPT ![c].pc = "expire", ![c].old = many] /\ UNCHANGED <<last, token>>
  BY DEF CapLinks
<1> HIDE DEF many
<1>3. call'[c].old = many /\ call'[c].pc = "expire" /\ \A d \in Callers \ {c} : call'[d] = call[d]
  BY <1>2 DEF TokenSafety, TypeOK, Call
<1> QED BY <1>1, <1>2, <1>3, CallRespects

\* Steps that write one row.
LEMMA RowRespects ==
  ASSUME TokenSafety, last' = last, NEW t \in Tokens, NEW row \in Token,
         token' = [token EXCEPT ![t] = row],
         row.mode = token[t].mode, row.attempts >= token[t].attempts,
         row.status = "EXPIRED" => \/ token[t].status = "EXPIRED"
                                   \/ \E c \in Callers : call[c].pc = "exhaust" /\ call[c].id = t,
         \A d \in Callers : \/ call'[d] = call[d]
                            \/ /\ call'[d].old \subseteq call[d].old
                               /\ call'[d].pc = "exhaust" => call'[d].id = t /\ row.attempts >= MaxAttempts
  PROVE  Respects
<1>1. last \in Nat /\ \A u \in Tokens : token[u].attempts \in Nat
  BY VerificationAssumption DEF TokenSafety, TypeOK, Token
<1>2. token' \in [Tokens -> Token] /\ token'[t] = row /\ \A u \in Tokens \ {t} : token'[u] = token[u]
  BY RowWritten DEF TokenSafety, TypeOK
<1> QED BY <1>1, <1>2 DEF Respects

\* The same, for one row and the request that writes it.
LEMMA WriterRespects ==
  ASSUME TokenSafety, last' = last, NEW t \in Tokens, NEW row \in Token,
         token' = [token EXCEPT ![t] = row], NEW c \in Callers,
         row.mode = token[t].mode,
         row.attempts = token[t].attempts \/ row.attempts = token[t].attempts + 1,
         row.status = "EXPIRED" => \/ token[t].status = "EXPIRED"
                                   \/ call[c].pc = "exhaust" /\ call[c].id = t,
         \A d \in Callers \ {c} : call'[d] = call[d], call'[c].old \subseteq call[c].old,
         call'[c].pc = "exhaust" => call'[c].id = t /\ row.attempts >= MaxAttempts
  PROVE  Respects
<1>1. row.attempts >= token[t].attempts
  <2>1. token[t].attempts \in Nat
    BY DEF TokenSafety, TypeOK, Token
  <2> QED BY <2>1
<1>2. \A d \in Callers : \/ call'[d] = call[d]
                         \/ /\ call'[d].old \subseteq call[d].old
                            /\ call'[d].pc = "exhaust" => call'[d].id = t /\ row.attempts >= MaxAttempts
  OBVIOUS
<1>3. row.status = "EXPIRED" => \/ token[t].status = "EXPIRED"
                                \/ \E d \in Callers : call[d].pc = "exhaust" /\ call[d].id = t
  OBVIOUS
<1> QED BY <1>1, <1>2, <1>3, RowRespects

\* Issuing.
LEMMA IssueRespects == ASSUME TokenSafety, NEW c \in Callers, Issue(c) PROVE Respects
<1>0. last \in Nat /\ \A u \in Tokens : token[u].attempts \in Nat /\ token[u] \in Token
  BY VerificationAssumption DEF TokenSafety, TypeOK, Token
<1>1. CASE BeginIssue(c)
  <2>1. PICK m \in Modes : call' = [call EXCEPT ![c] = [Idle EXCEPT !.pc = "close", !.mode = m]]
    BY <1>1 DEF BeginIssue
  <2> QED BY <1>1, <2>1, IssueEffect, CallRespects DEF BeginIssue, TokenSafety, TypeOK
<1>2. CASE CloseChallenge(c)
  <2>1. /\ \A d \in Callers \ {c} : call'[d] = call[d]
        /\ call'[c].old = call[c].old /\ call'[c].pc # "exhaust"
    BY <1>2, GotoEffect DEF CloseChallenge, TokenSafety, TypeOK, PCs, Issuing
  <2>2. /\ \A t \in Tokens : token'[t].mode = token[t].mode /\ token'[t].attempts = token[t].attempts
        /\ \A t \in Tokens \ Pending("CHAT") : token'[t] = token[t]
    BY <1>2, StatusesWritten DEF CloseChallenge, TokenSafety, TypeOK, Pending
  <2>3. \A t \in Tokens : token'[t].mode = "LINK" => token'[t] = token[t]
    BY <2>2 DEF Pending
  <2>4. last' = last
    BY <1>2 DEF CloseChallenge
  <2> QED BY <1>0, <2>1, <2>2, <2>3, <2>4 DEF Respects
<1>3. CASE CapLinks(c)
  BY <1>3, CapRespects
<1>4. CASE ExpireOld(c)
  <2>1. call[c].old \subseteq Tokens /\ [call[c] EXCEPT !.pc = "create", !.old = {}] \in Call
    BY DEF TokenSafety, TypeOK, Call, Issuing
  <2>2. /\ \A d \in Callers \ {c} : call'[d] = call[d]
        /\ call'[c].old = {} /\ call'[c].pc # "exhaust"
    BY <1>4, <2>1 DEF ExpireOld, TokenSafety, TypeOK, Call
  <2>3. /\ \A t \in Tokens : token'[t].mode = token[t].mode /\ token'[t].attempts = token[t].attempts
        /\ \A t \in Tokens \ call[c].old : token'[t] = token[t]
    BY <1>4, <2>1, StatusesWritten DEF ExpireOld, TokenSafety, TypeOK
  <2>4. last' = last
    BY <1>4 DEF ExpireOld
  <2> QED BY <1>0, <2>2, <2>3, <2>4 DEF Respects
<1>5. CASE Create(c)
  <2> DEFINE row == [token[last + 1] EXCEPT !.status = "PENDING", !.mode = call[c].mode]
  <2>1. last + 1 \in Tokens /\ last' = last + 1
    BY <1>5, VerificationAssumption DEF Create, TokenSafety, TypeOK, Tokens
  <2>2. call'[c].old = {} /\ call'[c].pc # "exhaust" /\ \A d \in Callers \ {c} : call'[d] = call[d]
    BY <1>5, EndEffect DEF Create, TokenSafety, TypeOK
  <2>3. row.status = "PENDING" /\ row.attempts = token[last + 1].attempts
    BY <1>0, <2>1 DEF Token
  <2>4. token' = [token EXCEPT ![last + 1] = row]
    BY <1>5, <2>1 DEF Create, TokenSafety, TypeOK, Token
  <2> HIDE DEF row
  <2>5. token'[last + 1] = row /\ \A u \in Tokens \ {last + 1} : token'[u] = token[u]
    BY <2>1, <2>4 DEF TokenSafety, TypeOK
  <2> QED BY <1>0, <2>1, <2>2, <2>3, <2>5 DEF Respects
<1> QED BY <1>1, <1>2, <1>3, <1>4, <1>5 DEF Issue

\* A request that stops.
LEMMA StopRespects ==
  ASSUME TokenSafety, NEW c \in Callers, End(c), UNCHANGED <<last, token>> PROVE Respects
  BY EndEffect, CallRespects DEF TokenSafety, TypeOK

\* A request that goes on to anything but its last attempt.
LEMMA GoRespects ==
  ASSUME TokenSafety, NEW c \in Callers, NEW p \in PCs \ {"exhaust"}, Goto(c, p),
         UNCHANGED <<last, token>>
  PROVE  Respects
  BY GotoEffect, CallRespects DEF TokenSafety, TypeOK

\* Verifying: only the last attempt closes a capability.
LEMMA VerifyRespects == ASSUME TokenSafety, NEW c \in Callers, Verify(c) PROVE Respects
<1> DEFINE t == call[c].id
<1>0. t \in Tokens /\ token[t] \in Token /\ token[t].attempts \in Nat
  BY DEF TokenSafety, TypeOK, Call, Token
<1>1. ASSUME NEW u \in Tokens, SubmitLink(c, u) \/ SendPhoto(c, u) PROVE Respects
  <2>1. /\ \A d \in Callers \ {c} : call'[d] = call[d]
        /\ call'[c].old = call[c].old /\ call'[c].pc = "claim"
    <3>1. call \in [Callers -> Call]
      BY DEF TokenSafety, TypeOK
    <3>2. CASE SubmitLink(c, u)
      BY <3>1, <3>2, ClaimEffect DEF SubmitLink
    <3>3. CASE SendPhoto(c, u)
      BY <3>1, <3>3, PhotoEffect DEF SendPhoto
    <3> QED BY <1>1, <3>2, <3>3
  <2>2. UNCHANGED <<last, token>>
    BY <1>1 DEF SubmitLink, SendPhoto
  <2> QED BY <2>1, <2>2, CallRespects
<1>2. CASE Claim(c)
  <2> DEFINE row == [token[t] EXCEPT !.status = "CONSUMED"]
  <2>1. CASE End(c) /\ UNCHANGED token
    BY <1>2, <2>1, StopRespects DEF Claim
  <2>2. CASE Goto(c, "claimed") /\ token' = [token EXCEPT ![t] = row]
    <3>1. /\ row \in Token /\ row.status = "CONSUMED" /\ row.mode = token[t].mode
          /\ row.attempts = token[t].attempts
      BY <1>0, StatusIsRow
    <3> HIDE DEF row
    <3>2. call'[c].old = call[c].old /\ call'[c].pc # "exhaust" /\ \A d \in Callers \ {c} : call'[d] = call[d]
      BY <2>2, GotoEffect DEF TokenSafety, TypeOK, PCs, Holding
    <3>3. last' = last
      BY <1>2 DEF Claim
    <3>4. call'[c].old \subseteq call[c].old
      BY <3>2
    <3> QED BY <1>0, <2>2, <3>1, <3>2, <3>3, <3>4, WriterRespects
  <2> QED BY <1>2, <2>1, <2>2 DEF Claim
<1>3. CASE GiveUp(c) \/ CheckProofs(c) \/ Punch(c) \/ AnswerLost(c)
  <2>1. PICK p \in {"release", "punch", "spend", "bump", "answer"} : Goto(c, p)
    BY <1>3 DEF GiveUp, CheckProofs, Punch, AnswerLost
  <2>2. UNCHANGED <<last, token>> /\ p \in PCs \ {"exhaust"}
    BY <1>3 DEF GiveUp, CheckProofs, Punch, AnswerLost, PCs, Holding
  <2> QED BY <2>1, <2>2, GoRespects
<1>4. CASE Answer(c)
  BY <1>4, StopRespects DEF Answer
<1>5. CASE BumpAttempts(c)
  <2> DEFINE row == [token[t] EXCEPT !.attempts = @ + 1]
             p == IF token[t].attempts + 1 >= MaxAttempts THEN "exhaust" ELSE "release"
  <2>1. /\ token' = [token EXCEPT ![t] = row] /\ last' = last /\ Goto(c, p)
        /\ call[c].pc = "bump" /\ call[c].pc \in Holding
    BY <1>0, <1>5 DEF BumpAttempts, TokenSafety, TypeOK, Token, Holding
  <2>2. token[t].attempts < MaxAttempts /\ token[t].status # "PENDING"
    BY <2>1, Held
  <2>3. /\ row \in Token /\ row.mode = token[t].mode /\ row.status = token[t].status
        /\ row.attempts = token[t].attempts + 1
    BY <1>0, <2>2, VerificationAssumption DEF Token
  <2>4. p \in PCs /\ (p = "exhaust" => token[t].attempts + 1 >= MaxAttempts)
    BY DEF PCs, Holding
  <2> HIDE DEF row, p
  <2>5. /\ call'[c].old = call[c].old /\ call'[c].pc = p /\ call'[c].id = t
        /\ \A d \in Callers \ {c} : call'[d] = call[d]
    BY <2>1, <2>4, GotoEffect DEF TokenSafety, TypeOK
  <2>6. call'[c].old \subseteq call[c].old
    BY <2>3, <2>4, <2>5
  <2>7. row.attempts = token[t].attempts \/ row.attempts = token[t].attempts + 1
    BY <2>3, <2>4, <2>5
  <2>8. row.status = "EXPIRED" => \/ token[t].status = "EXPIRED"
                                  \/ call[c].pc = "exhaust" /\ call[c].id = t
    BY <2>3, <2>4, <2>5
  <2>9. call'[c].pc = "exhaust" => call'[c].id = t /\ row.attempts >= MaxAttempts
    BY <2>3, <2>4, <2>5
  <2>10. /\ last' = last /\ token' = [token EXCEPT ![t] = row] /\ t \in Tokens
         /\ row \in Token /\ row.mode = token[t].mode
         /\ \A d \in Callers \ {c} : call'[d] = call[d]
    BY <1>0, <2>1, <2>3, <2>4, <2>5
  <2> HIDE DEF t
  <2> QED BY <2>6, <2>7, <2>8, <2>9, <2>10, WriterRespects
<1>6. CASE Exhaust(c)
  <2> DEFINE row == [token[t] EXCEPT !.status = "EXPIRED"]
  <2>1. token' = [token EXCEPT ![t] = row] /\ last' = last /\ End(c) /\ call[c].pc = "exhaust"
    BY <1>6 DEF Exhaust
  <2>2. row \in Token /\ row.mode = token[t].mode /\ row.attempts = token[t].attempts
    BY <1>0, StatusIsRow
  <2> HIDE DEF row
  <2>3. call'[c].old = {} /\ call'[c].pc = "idle" /\ \A d \in Callers \ {c} : call'[d] = call[d]
    BY <2>1, EndEffect DEF TokenSafety, TypeOK
  <2>6. call'[c].old \subseteq call[c].old
    BY <2>3
  <2>7. row.attempts = token[t].attempts \/ row.attempts = token[t].attempts + 1
    BY <2>2
  <2>8. row.status = "EXPIRED" => \/ token[t].status = "EXPIRED"
                                  \/ call[c].pc = "exhaust" /\ call[c].id = t
    BY <2>1
  <2>9. call'[c].pc = "exhaust" => call'[c].id = t /\ row.attempts >= MaxAttempts
    BY <2>3
  <2>10. /\ last' = last /\ token' = [token EXCEPT ![t] = row] /\ t \in Tokens
         /\ row \in Token /\ row.mode = token[t].mode
         /\ \A d \in Callers \ {c} : call'[d] = call[d]
    BY <1>0, <2>1, <2>2, <2>3
  <2> HIDE DEF t
  <2> QED BY <2>6, <2>7, <2>8, <2>9, <2>10, WriterRespects
<1>7. CASE SpendFaceProof(c)
  <2> DEFINE spent == ~token[t].late /\ ~token[t].proofSpent
             row == [token[t] EXCEPT !.proofSpent = @ \/ spent]
             p == IF spent THEN "punch" ELSE "release"
  <2>1. token' = [token EXCEPT ![t] = row] /\ last' = last /\ Goto(c, p)
    BY <1>0, <1>7 DEF SpendFaceProof, TokenSafety, TypeOK, Token
  <2>2. /\ row \in Token /\ row.mode = token[t].mode /\ row.attempts = token[t].attempts
        /\ row.status = token[t].status
    BY <1>0 DEF Token
  <2>3. p \in PCs \ {"exhaust"}
    BY DEF PCs, Holding
  <2> HIDE DEF row, p
  <2>4. call'[c].old = call[c].old /\ call'[c].pc = p /\ \A d \in Callers \ {c} : call'[d] = call[d]
    BY <2>1, <2>3, GotoEffect DEF TokenSafety, TypeOK
  <2>6. call'[c].old \subseteq call[c].old
    BY <2>2, <2>3, <2>4
  <2>7. row.attempts = token[t].attempts \/ row.attempts = token[t].attempts + 1
    BY <2>2, <2>3, <2>4
  <2>8. row.status = "EXPIRED" => \/ token[t].status = "EXPIRED"
                                  \/ call[c].pc = "exhaust" /\ call[c].id = t
    BY <2>2, <2>3, <2>4
  <2>9. call'[c].pc = "exhaust" => call'[c].id = t /\ row.attempts >= MaxAttempts
    BY <2>2, <2>3, <2>4
  <2>10. /\ last' = last /\ token' = [token EXCEPT ![t] = row] /\ t \in Tokens
         /\ row \in Token /\ row.mode = token[t].mode
         /\ \A d \in Callers \ {c} : call'[d] = call[d]
    BY <1>0, <2>1, <2>2, <2>3, <2>4
  <2> HIDE DEF t
  <2> QED BY <2>6, <2>7, <2>8, <2>9, <2>10, WriterRespects
<1>8. CASE Release(c)
  <2> DEFINE back == [token[t] EXCEPT !.status = "PENDING", !.proofSpent = FALSE]
             row == IF token[t].status = "CONSUMED" /\ ~token[t].late THEN back ELSE token[t]
  <2>1. token' = [token EXCEPT ![t] = row] /\ last' = last /\ End(c)
    BY <1>8 DEF Release
  <2>2. /\ back \in Token /\ back.mode = token[t].mode /\ back.attempts = token[t].attempts
        /\ back.status = "PENDING"
    BY <1>0 DEF Token
  <2> HIDE DEF back
  <2>3. /\ row \in Token /\ row.mode = token[t].mode /\ row.attempts = token[t].attempts
        /\ row.status = "EXPIRED" => token[t].status = "EXPIRED"
    BY <1>0, <2>2
  <2> HIDE DEF row
  <2>4. call'[c].old = {} /\ call'[c].pc = "idle" /\ \A d \in Callers \ {c} : call'[d] = call[d]
    BY <2>1, EndEffect DEF TokenSafety, TypeOK
  <2>6. call'[c].old \subseteq call[c].old
    BY <2>3, <2>4
  <2>7. row.attempts = token[t].attempts \/ row.attempts = token[t].attempts + 1
    BY <2>3, <2>4
  <2>8. row.status = "EXPIRED" => \/ token[t].status = "EXPIRED"
                                  \/ call[c].pc = "exhaust" /\ call[c].id = t
    BY <2>3, <2>4
  <2>9. call'[c].pc = "exhaust" => call'[c].id = t /\ row.attempts >= MaxAttempts
    BY <2>3, <2>4
  <2>10. /\ last' = last /\ token' = [token EXCEPT ![t] = row] /\ t \in Tokens
         /\ row \in Token /\ row.mode = token[t].mode
         /\ \A d \in Callers \ {c} : call'[d] = call[d]
    BY <1>0, <2>1, <2>3, <2>4
  <2> HIDE DEF t
  <2> QED BY <2>6, <2>7, <2>8, <2>9, <2>10, WriterRespects
<1> QED BY <1>1, <1>2, <1>3, <1>4, <1>5, <1>6, <1>7, <1>8 DEF Verify

\* The other steps.
LEMMA StepRespects == ASSUME TokenSafety, [Next]_vars PROVE Respects
<1>1. ASSUME NEW c \in Callers, Die(c) PROVE Respects
  BY <1>1, StopRespects DEF Die
<1>2. ASSUME NEW t \in Tokens, PassExpiry(t) PROVE Respects
  <2> DEFINE row == [token[t] EXCEPT !.late = TRUE]
  <2>1. token' = [token EXCEPT ![t] = row] /\ last' = last /\ call' = call
    BY <1>2 DEF PassExpiry
  <2>2. /\ row \in Token /\ row.mode = token[t].mode /\ row.attempts = token[t].attempts
        /\ row.status = token[t].status
    <3>1. token[t] \in Token
      BY DEF TokenSafety, TypeOK
    <3> QED BY <3>1 DEF Token
  <2>3. token[t].attempts >= token[t].attempts
    BY DEF TokenSafety, TypeOK, Token
  <2> HIDE DEF row
  <2> QED BY <2>1, <2>2, <2>3, RowRespects
<1>3. CASE UNCHANGED vars
  <2>1. last \in Nat /\ \A u \in Tokens : token[u].attempts \in Nat
    BY VerificationAssumption DEF TokenSafety, TypeOK, Token
  <2> QED BY <1>3, <2>1 DEF vars, Respects
<1> QED BY <1>1, <1>2, <1>3, IssueRespects, VerifyRespects DEF Next

\* Once a link has enough newer ones it always has.
LEMMA EnoughStays ==
  ASSUME TokenSafety, TokenSafety', Respects, NEW t \in Tokens, Enough(t)
  PROVE  Enough(t)'
<1>1. NewerLinks(t) \subseteq NewerLinks(t)'
  BY VerificationAssumption DEF NewerLinks, Newer, Respects, TokenSafety, TypeOK, Tokens
<1>2. IsFiniteSet(NewerLinks(t)')
  <2>1. IsFiniteSet(Tokens)
    BY VerificationAssumption, FS_Interval DEF Tokens
  <2>2. NewerLinks(t)' \subseteq Tokens
    BY DEF NewerLinks, Newer
  <2> QED BY <2>1, <2>2, FS_Subset
<1>3. /\ Cardinality(NewerLinks(t)) <= Cardinality(NewerLinks(t)')
      /\ Cardinality(NewerLinks(t)) \in Nat /\ Cardinality(NewerLinks(t)') \in Nat
  BY <1>1, <1>2, FS_Subset, FS_CardinalityType
<1> QED BY <1>3, VerificationAssumption DEF Enough

\* LinkInv is kept by every step, given TokenSafety before and after it.
LEMMA LinkStep ==
  ASSUME TokenSafety, TokenSafety', LinkInv, Respects
  PROVE  LinkInv'
<1> USE DEF LinkInv
<1>1. \A c \in Callers : \A t \in call'[c].old : Enough(t)'
  <2> TAKE c \in Callers
  <2> TAKE t \in call'[c].old
  <2>1. t \in Tokens /\ Enough(t)
    BY DEF Respects, TokenSafety, TypeOK, Call
  <2> QED BY <2>1, EnoughStays
<1>2. \A c \in Callers : call'[c].pc = "exhaust" => token'[call'[c].id].attempts >= MaxAttempts
  <2> TAKE c \in Callers
  <2>1. call[c].id \in Tokens /\ \A u \in Tokens : token[u].attempts \in Nat /\ token'[u].attempts \in Nat
    BY DEF TokenSafety, TypeOK, Call, Token
  <2> QED BY <2>1, VerificationAssumption DEF Respects
<1>3. LinkSurvives'
  <2>0. \A t \in Tokens : token[t].mode = "LINK" /\ token[t].status = "EXPIRED"
                        => token[t].attempts >= MaxAttempts \/ Enough(t)
    BY DEF LinkSurvives, Enough, NewerLinks
  <2>1. ASSUME NEW t \in Tokens, token'[t].mode = "LINK", token'[t].status = "EXPIRED"
        PROVE  token'[t].attempts >= MaxAttempts \/ Enough(t)'
    <3>1. token[t].attempts \in Nat /\ token'[t].attempts \in Nat /\ token'[t].attempts >= token[t].attempts
      BY DEF TokenSafety, TypeOK, Token, Respects
    <3>2. token[t].attempts >= MaxAttempts \/ Enough(t)
      <4>1. \A c \in Callers : t \in call[c].old => Enough(t)
        OBVIOUS
      <4>2. \A c \in Callers : call[c].pc = "exhaust" /\ call[c].id = t => token[t].attempts >= MaxAttempts
        OBVIOUS
      <4>3. /\ token[t].mode = "LINK"
            /\ \/ token[t].status = "EXPIRED"
               \/ \E c \in Callers : t \in call[c].old
               \/ \E c \in Callers : call[c].pc = "exhaust" /\ call[c].id = t
        BY <2>1 DEF Respects
      <4> HIDE DEF LinkInv
      <4> QED BY <2>0, <4>1, <4>2, <4>3
    <3> QED BY <3>1, <3>2, EnoughStays, VerificationAssumption
  <2> QED BY <2>1 DEF LinkSurvives, Enough, NewerLinks
<1> QED BY <1>1, <1>2, <1>3

\* A link closes by its attempts, or by so many newer ones: never because
\* another one was asked for.
THEOREM LinksSurvive == Spec => []LinkSurvives
<1>1. Init => LinkInv
  BY DEF Init, LinkInv, LinkSurvives, Idle
<1>2. TokenSafety /\ TokenSafety' /\ LinkInv /\ [Next]_vars => LinkInv'
  BY StepRespects, LinkStep
<1>3. LinkInv => LinkSurvives
  BY DEF LinkInv
<1> QED BY <1>1, <1>2, <1>3, Safe, PTL DEF Spec
=============================================================================
