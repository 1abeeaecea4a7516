-------------------------------- MODULE Outbox --------------------------------
(***************************************************************************)
(* The WhatsApp outbox (whatsapp-outbox.service.ts): a table of messages   *)
(* that is queue, lock and delivery record at once.  A row is claimed by a *)
(* conditional update; every other update is by id alone.  One step is one *)
(* query or one call of the gateway.  drain() is run by the processes,     *)
(* each behind its own in-memory flag; a message of enqueueDirect() is     *)
(* also tried at once by the request that wrote it, outside that flag.     *)
(***************************************************************************)
EXTENDS Naturals, FiniteSets

CONSTANTS
    Messages,       \* rows of the table, each written at most once (dedupeKey)
    Direct,         \* those of enqueueDirect()
    Interactive,    \* those that go out with buttons first
    Processes,      \* backend processes that drain
    Batch,          \* drainBatchSize
    MaxAttempts,    \* maxAttempts of every row
    SlowSends,      \* may a send outlast SENDING_RECLAIM_MS?
    MaxMishaps,     \* bound: workers that die, errors, answers that are lost
    MaxRetries,     \* bound: retries by an admin
    MaxNights       \* bound: quiet hours

Workers == Processes \union Direct

ASSUME OutboxAssumption ==
    /\ Messages # {}
    /\ Direct \subseteq Messages /\ Interactive \subseteq Messages
    /\ Processes \intersect Messages = {}
    /\ Batch \in Nat \ {0} /\ MaxAttempts \in Nat \ {0}
    /\ SlowSends \in BOOLEAN
    /\ MaxMishaps \in Nat /\ MaxRetries \in Nat /\ MaxNights \in Nat

VARIABLES
    row,        \* [Messages -> Row]
    worker,     \* [Workers -> the local variables of drain() and deliverOne()]
    night,      \* are some recipients in their quiet hours?
    handed,     \* history: how often the gateway passed the message on
    mishaps, retries, nights

vars == <<row, worker, night, handed, mishaps, retries, nights>>
counters == <<mishaps, retries, nights>>

Settled == {"SENT", "FAILED", "SKIPPED"}
Row == [status : {"NONE", "QUEUED", "SENDING"} \union Settled,
        attempts : Nat,
        wait : {"none", "backoff", "dawn"},     \* what nextAttemptAt lies behind
        lock : {"none", "fresh", "old"},        \* lockedAt, old past the limit
        stale : BOOLEAN]                        \* createdAt past staleHours

\* "lost": the gateway passed the message on, but the answer did not arrive.
Answers == [handed : BOOLEAN, ok : BOOLEAN, retryable : BOOLEAN]
Sent == [handed |-> TRUE, ok |-> TRUE, retryable |-> FALSE]
Busy == [handed |-> FALSE, ok |-> FALSE, retryable |-> TRUE]
Rejected == [handed |-> FALSE, ok |-> FALSE, retryable |-> FALSE]
Lost == {[handed |-> TRUE, ok |-> FALSE, retryable |-> r] : r \in BOOLEAN}
Replies == {Sent, Busy, Rejected} \union Lost

Holding == {"read", "hold", "buttons", "text", "record"}
Worker == [pc : {"idle", "expire", "select", "next"} \union Holding,
           batch : SUBSET Messages, id : Messages, attempts : Nat, answer : Answers]

TypeOK ==
    /\ row \in [Messages -> Row]
    /\ worker \in [Workers -> Worker]
    /\ night \in BOOLEAN
    /\ handed \in [Messages -> Nat]
    /\ mishaps \in Nat /\ retries \in Nat /\ nights \in Nat

Holds(w, m) == worker[w].pc \in Holding /\ worker[w].id = m
Due == {m \in Messages : row[m].status = "QUEUED" /\ row[m].wait = "none"}

\* What is left of a worker between two rows; the flag is clear without a batch.
Rest(batch) == [pc |-> IF batch = {} THEN "idle" ELSE "next", batch |-> batch,
                id |-> CHOOSE m \in Messages : TRUE, attempts |-> 0, answer |-> Busy]
Idle == Rest({})

Goto(w, pc) == worker' = [worker EXCEPT ![w].pc = pc]
Finish(w) == worker' = [worker EXCEPT ![w] = Rest(@.batch)]

-----------------------------------------------------------------------------
(* Writing and putting back rows *)

\* enqueueFromNotifications(), and the same row in dry-run mode.  The drain it
\* starts is Reclaim, which is always possible.
Enqueue(m) ==
    /\ row[m].status = "NONE" /\ m \notin Direct
    /\ \E s \in {"QUEUED", "SKIPPED"} : row' = [row EXCEPT ![m].status = s]
    /\ UNCHANGED <<worker, night, handed, counters>>

EnqueueDirect(m) ==
    /\ row[m].status = "NONE" /\ m \in Direct
    /\ \/ /\ row' = [row EXCEPT ![m].status = "QUEUED"]
          /\ worker' = [worker EXCEPT ![m] = Rest({m})]
       \/ /\ row' = [row EXCEPT ![m].status = "SKIPPED"]
          /\ UNCHANGED worker
    /\ UNCHANGED <<night, handed, counters>>

Retry(m) ==
    /\ retries < MaxRetries
    /\ row[m].status \in {"FAILED", "SKIPPED"}
    /\ row' = [row EXCEPT ![m].status = "QUEUED", ![m].attempts = 0,
                          ![m].wait = "none", ![m].lock = "none"]
    /\ retries' = retries + 1
    /\ UNCHANGED <<worker, night, handed, mishaps, nights>>

-----------------------------------------------------------------------------
(* drain() *)

\* Seeded fault: rows of a process that died are not given back.
ReclaimNothing(p) ==
    /\ worker[p].pc = "idle"
    /\ Goto(p, "expire")
    /\ UNCHANGED <<row, night, handed, counters>>

Reclaim(p) ==
    /\ worker[p].pc = "idle"
    /\ row' = [m \in Messages |->
                 IF row[m].status = "SENDING" /\ row[m].lock = "old"
                 THEN [row[m] EXCEPT !.status = "QUEUED", !.lock = "none"] ELSE row[m]]
    /\ Goto(p, "expire")
    /\ UNCHANGED <<night, handed, counters>>

ExpireStale(p) ==
    /\ worker[p].pc = "expire"
    /\ row' = [m \in Messages |->
                 IF row[m].status = "QUEUED" /\ row[m].stale
                 THEN [row[m] EXCEPT !.status = "SKIPPED"] ELSE row[m]]
    /\ Goto(p, "select")
    /\ UNCHANGED <<night, handed, counters>>

\* Which rows come first, when more are due than a batch holds, is left open.
Select(p) ==
    /\ worker[p].pc = "select"
    /\ \E batch \in SUBSET Due :
         /\ Cardinality(batch) <= Batch
         /\ batch = Due \/ Cardinality(batch) = Batch
         /\ worker' = [worker EXCEPT ![p] = Rest(batch)]
    /\ UNCHANGED <<row, night, handed, counters>>

\* Both updates swallow their errors: the drain goes on without them.
SwallowedError(p) ==
    /\ mishaps < MaxMishaps
    /\ \/ worker[p].pc = "idle" /\ Goto(p, "expire")
       \/ worker[p].pc = "expire" /\ Goto(p, "select")
    /\ mishaps' = mishaps + 1
    /\ UNCHANGED <<row, night, handed, retries, nights>>

-----------------------------------------------------------------------------
(* deliverOne() *)

Claimed(m) == [row[m] EXCEPT !.status = "SENDING", !.lock = "fresh", !.attempts = @ + 1]
Claimant(w, m) == [Rest(worker[w].batch \ {m}) EXCEPT !.pc = "read", !.id = m]

\* Seeded fault: the claim does not look at the status.
ClaimUnconditional(w) ==
    /\ worker[w].pc = "next"
    /\ \E m \in worker[w].batch :
         /\ row' = [row EXCEPT ![m] = Claimed(m)]
         /\ worker' = [worker EXCEPT ![w] = Claimant(w, m)]
    /\ UNCHANGED <<night, handed, counters>>

Claim(w) ==
    /\ worker[w].pc = "next"
    /\ \E m \in worker[w].batch :
         IF row[m].status = "QUEUED"
         THEN /\ row' = [row EXCEPT ![m] = Claimed(m)]
              /\ worker' = [worker EXCEPT ![w] = Claimant(w, m)]
         ELSE /\ worker' = [worker EXCEPT ![w] = Rest(@.batch \ {m})]
              /\ UNCHANGED row
    /\ UNCHANGED <<night, handed, counters>>

\* The row is read back; at night it may have to be held.  Whether it is
\* depends on the zone of the recipient and on the exempted templates.
Read(w) ==
    LET m == worker[w].id IN
    /\ worker[w].pc = "read"
    /\ \E pc \in {IF m \in Interactive THEN "buttons" ELSE "text"}
                   \union (IF night THEN {"hold"} ELSE {}) :
         worker' = [worker EXCEPT ![w].pc = pc, ![w].attempts = row[m].attempts]
    /\ UNCHANGED <<row, night, handed, counters>>

HoldBack(w) ==
    /\ worker[w].pc = "hold"
    /\ row' = [row EXCEPT ![worker[w].id].status = "QUEUED",
                          ![worker[w].id].wait = IF night THEN "dawn" ELSE "none",
                          ![worker[w].id].lock = "none",
                          ![worker[w].id].attempts = @ - 1]
    /\ Finish(w)
    /\ UNCHANGED <<night, handed, counters>>

\* One call of the gateway.
Call(w, answer) ==
    /\ answer \in Lost => mishaps < MaxMishaps
    /\ mishaps' = IF answer \in Lost THEN mishaps + 1 ELSE mishaps
    /\ handed' = IF answer.handed THEN [handed EXCEPT ![worker[w].id] = @ + 1] ELSE handed
    /\ UNCHANGED <<row, night, retries, nights>>

\* Seeded fault: the text follows in any case.
SendButtonsAndText(w) ==
    /\ worker[w].pc = "buttons"
    /\ \E answer \in Replies : Call(w, answer) /\ Goto(w, "text")

\* Buttons that could not be sent are followed by the text, whatever the error.
SendButtons(w) ==
    /\ worker[w].pc = "buttons"
    /\ \E answer \in Replies :
         /\ Call(w, answer)
         /\ IF answer.ok
            THEN worker' = [worker EXCEPT ![w].pc = "record", ![w].answer = answer]
            ELSE Goto(w, "text")

SendText(w) ==
    /\ worker[w].pc = "text"
    /\ \E answer \in Replies :
         /\ Call(w, answer)
         /\ worker' = [worker EXCEPT ![w].pc = "record", ![w].answer = answer]

\* Seeded fault: one attempt too many.
IsTerminalLate(w) == ~worker[w].answer.retryable \/ worker[w].attempts > MaxAttempts

IsTerminal(w) == ~worker[w].answer.retryable \/ worker[w].attempts >= MaxAttempts

Record(w) ==
    LET m == worker[w].id IN
    /\ worker[w].pc = "record"
    /\ row' = [row EXCEPT
                 ![m].status = IF worker[w].answer.ok THEN "SENT"
                               ELSE IF IsTerminal(w) THEN "FAILED" ELSE "QUEUED",
                 ![m].wait = IF worker[w].answer.ok \/ IsTerminal(w) THEN @ ELSE "backoff",
                 ![m].lock = "none"]
    /\ Finish(w)
    /\ UNCHANGED <<night, handed, counters>>

-----------------------------------------------------------------------------
(* Time and failures *)

\* A query throws, or the process dies: the claim stays in the table.
Die(w) ==
    /\ mishaps < MaxMishaps
    /\ worker[w].pc # "idle"
    /\ worker' = [worker EXCEPT ![w] = Idle]
    /\ mishaps' = mishaps + 1
    /\ UNCHANGED <<row, night, handed, retries, nights>>

LockAges(m) ==
    /\ row[m].lock = "fresh"
    /\ SlowSends \/ \A w \in Workers : ~Holds(w, m)
    /\ row' = [row EXCEPT ![m].lock = "old"]
    /\ UNCHANGED <<worker, night, handed, counters>>

BackoffElapses(m) ==
    /\ row[m].wait = "backoff"
    /\ row' = [row EXCEPT ![m].wait = "none"]
    /\ UNCHANGED <<worker, night, handed, counters>>

\* Nothing asks for the age of a message while it is sent, or afterwards.
GrowsStale(m) ==
    /\ row[m].status \in {"QUEUED", "FAILED", "SKIPPED"} /\ ~row[m].stale
    /\ row' = [row EXCEPT ![m].stale = TRUE]
    /\ UNCHANGED <<worker, night, handed, counters>>

NightFalls ==
    /\ ~night /\ nights < MaxNights
    /\ night' = TRUE
    /\ nights' = nights + 1
    /\ UNCHANGED <<row, worker, handed, mishaps, retries>>

DayBreaks ==
    /\ night
    /\ night' = FALSE
    /\ row' = [m \in Messages |->
                 IF row[m].wait = "dawn" THEN [row[m] EXCEPT !.wait = "none"] ELSE row[m]]
    /\ UNCHANGED <<worker, handed, counters>>

-----------------------------------------------------------------------------
(* Specification *)

Init ==
    /\ row = [m \in Messages |-> [status |-> "NONE", attempts |-> 0, wait |-> "none",
                                  lock |-> "none", stale |-> FALSE]]
    /\ worker = [w \in Workers |-> Idle]
    /\ night = FALSE
    /\ handed = [m \in Messages |-> 0]
    /\ mishaps = 0 /\ retries = 0 /\ nights = 0

Deliver(w) ==
    \/ Claim(w) \/ Read(w) \/ HoldBack(w)
    \/ SendButtons(w) \/ SendText(w) \/ Record(w)

Drain(p) == Reclaim(p) \/ ExpireStale(p) \/ Select(p)

Admin(m) == Enqueue(m) \/ EnqueueDirect(m) \/ Retry(m)

Time(m) == LockAges(m) \/ BackoffElapses(m) \/ GrowsStale(m)

Next ==
    \/ \E p \in Processes : Drain(p) \/ SwallowedError(p)
    \/ \E w \in Workers : Deliver(w) \/ Die(w)
    \/ \E m \in Messages : Admin(m) \/ Time(m)
    \/ NightFalls \/ DayBreaks

Spec == Init /\ [][Next]_vars

\* The cron starts a drain every two minutes, a call of the gateway times out,
\* and time passes.
Fairness ==
    /\ \A p \in Processes : WF_vars(Drain(p))
    /\ \A w \in Workers : WF_vars(Deliver(w))
    /\ \A m \in Messages : WF_vars(LockAges(m)) /\ WF_vars(BackoffElapses(m))
    /\ WF_vars(DayBreaks)

FairSpec == Spec /\ Fairness
-----------------------------------------------------------------------------
(* Properties *)

\* "count===1 means we own the row": no two workers deliver the same message at
\* the same time, as long as no send outlasts the reclaim limit.
OneHolder ==
    \A v, w \in Workers, m \in Messages : Holds(v, m) /\ Holds(w, m) => v = w

\* Nobody gets a message twice unless a worker died or an answer was lost:
\* every extra copy is paid for by one of these.
ExtraCopiesExplained == \A m \in Messages : handed[m] <= 1 + mishaps

\* A process that dies burns one attempt: a row is claimed at most maxAttempts
\* times, and once more for each worker that died on it.
AttemptsBounded == \A m \in Messages : row[m].attempts <= MaxAttempts + mishaps

\* No message is left behind: whatever dies, and however long the gateway is
\* down, a message that was written is sent, given up or expires.
EventuallySettled ==
    \A m \in Messages : row[m].status \in {"QUEUED", "SENDING"} ~> row[m].status \in Settled

-----------------------------------------------------------------------------
(* The inductive invariant behind OneHolder, ExtraCopiesExplained and *)
(* AttemptsBounded, as long as no send outlasts the reclaim limit *)

Held(m) == \E w \in Workers : Holds(w, m)

\* Whoever delivers a message owns its claim, and knows its attempts.
HolderInv ==
    \A w \in Workers : worker[w].pc \in Holding =>
        LET r == row[worker[w].id] IN
        /\ r.status = "SENDING" /\ r.lock = "fresh" /\ r.attempts >= 1
        /\ worker[w].pc # "read" => worker[w].attempts = r.attempts

\* The one copy that needs no mishap.
Delivered(m) ==
    \/ row[m].status = "SENT"
    \/ \E w \in Workers : Holds(w, m) /\ worker[w].pc = "record" /\ worker[w].answer.ok

CopiesInv == \A m \in Messages : handed[m] <= mishaps + (IF Delivered(m) THEN 1 ELSE 0)

\* A row that can be claimed again has an attempt left, or a mishap to show.
Claimable(m) ==
    \/ row[m].status \in {"NONE", "QUEUED"}
    \/ row[m].status = "SENDING" /\ ~Held(m)

AttemptsInv ==
    \A m \in Messages :
        /\ row[m].attempts <= MaxAttempts + mishaps
        /\ Claimable(m) => row[m].attempts < MaxAttempts + mishaps

DirectInv == \A m \in Direct : row[m].status = "NONE" => worker[m].pc = "idle"

OutboxInv == TypeOK /\ OneHolder /\ HolderInv /\ CopiesInv /\ AttemptsInv /\ DirectInv
=============================================================================
