----------------------------- MODULE OutboxProofs -----------------------------
(***************************************************************************)
(* OutboxInv is inductive for any number of messages, processes and direct *)
(* sends, as long as no send outlasts the reclaim limit.                   *)
(*                                                                         *)
(* Most steps are quiet: no worker takes or gives up a message, and a row  *)
(* only changes while nobody delivers it.  QuietStep deals with all of     *)
(* them; the steps of deliverOne() have a lemma each.                      *)
(***************************************************************************)
EXTENDS Outbox, TLAPS

USE OutboxAssumption

\* An idle worker, and one between two rows, is a worker.
LEMMA RestType == ASSUME NEW b \in SUBSET Messages
                  PROVE  Rest(b) \in Worker /\ Rest(b).batch = b
                         /\ Rest(b).pc \in {"idle", "next"} /\ (b = {} => Rest(b).pc = "idle")
<1>1. (CHOOSE m \in Messages : TRUE) \in Messages
  OBVIOUS
<1>2. QED  BY <1>1 DEF Rest, Worker, Answers, Busy

\* What a quiet step may do to a row: leave what the invariant is about alone,
\* or settle or requeue a message nobody delivers.
Untouched(m) ==
    /\ row'[m].status = row[m].status /\ row'[m].attempts = row[m].attempts
    /\ row'[m].lock = row[m].lock \/ ~Held(m)
PutBack(m) ==
    /\ ~Held(m) /\ row[m].status # "SENT"
    /\ row'[m].status \in {"QUEUED", "FAILED", "SKIPPED"}
    /\ \/ Claimable(m) /\ row'[m].attempts = row[m].attempts
       \/ row'[m].attempts = 0

\* A quiet step preserves what the workers and the rows know of each other.
LEMMA QuietStep ==
    ASSUME OutboxInv, TypeOK',
           \A w \in Workers : \/ worker'[w] = worker[w]
                              \/ worker[w].pc \notin Holding /\ worker'[w].pc \notin Holding,
           \A m \in Messages : Untouched(m) \/ PutBack(m),
           handed' = handed, mishaps' >= mishaps
    PROVE  OneHolder' /\ HolderInv' /\ CopiesInv' /\ AttemptsInv'
<1>1. \A w \in Workers, m \in Messages : Holds(w, m)' <=> Holds(w, m)
  BY DEF Holds
<1>2. OneHolder'
  BY <1>1 DEF OutboxInv, OneHolder
<1>3. HolderInv'
  <2> SUFFICES ASSUME NEW w \in Workers, worker'[w].pc \in Holding
               PROVE  LET r == row'[worker'[w].id] IN
                      /\ r.status = "SENDING" /\ r.lock = "fresh" /\ r.attempts >= 1
                      /\ worker'[w].pc # "read" => worker'[w].attempts = r.attempts
    BY DEF HolderInv
  <2>1. worker'[w] = worker[w] /\ worker[w].id \in Messages
    BY DEF OutboxInv, TypeOK, Worker
  <2>2. Held(worker[w].id)
    BY <2>1 DEF Held, Holds
  <2>3. Untouched(worker[w].id)
    BY <2>1, <2>2 DEF PutBack
  <2>4. QED  BY <2>1, <2>2, <2>3 DEF OutboxInv, HolderInv, Untouched
<1>4. \A m \in Messages : Delivered(m) => Delivered(m)'
  BY <1>1 DEF Delivered, Untouched, PutBack, Holds, Holding
<1>5. CopiesInv'
  BY <1>4 DEF OutboxInv, CopiesInv, TypeOK
<1>6. \A m \in Messages : Held(m)' <=> Held(m)
  BY <1>1 DEF Held
<1>7. AttemptsInv'
  <2> SUFFICES ASSUME NEW m \in Messages
               PROVE  /\ row'[m].attempts <= MaxAttempts + mishaps'
                      /\ Claimable(m)' => row'[m].attempts < MaxAttempts + mishaps'
    BY DEF AttemptsInv
  <2>1. row[m].attempts \in Nat /\ row'[m].attempts \in Nat /\ mishaps \in Nat /\ mishaps' \in Nat
    BY DEF OutboxInv, TypeOK, Row
  <2>2. CASE Untouched(m)
    BY <2>1, <2>2, <1>6 DEF OutboxInv, AttemptsInv, Untouched, Claimable
  <2>3. CASE PutBack(m)
    BY <2>1, <2>3 DEF OutboxInv, AttemptsInv, PutBack
  <2>4. QED  BY <2>2, <2>3
<1>8. QED  BY <1>2, <1>3, <1>5, <1>7

\* A row that is written for the first time becomes one nobody delivers.
LEMMA WrittenRow ==
    ASSUME OutboxInv, NEW m \in Messages, NEW s \in {"QUEUED", "SKIPPED"},
           row[m].status = "NONE", row' = [row EXCEPT ![m].status = s]
    PROVE  \A n \in Messages : Untouched(n) \/ PutBack(n)
<1>1. row[m] \in Row /\ row \in [Messages -> Row]
  BY DEF OutboxInv, TypeOK
<1>2. row'[m].status = s /\ row'[m].attempts = row[m].attempts
  BY <1>1 DEF Row
<1>3. \A n \in Messages : n # m => row'[n] = row[n]
  BY <1>1
<1>4. ~Held(m)
  BY DEF OutboxInv, HolderInv, Held, Holds
<1>5. PutBack(m)
  BY <1>2, <1>4 DEF PutBack, Claimable
<1>6. QED  BY <1>3, <1>5 DEF Untouched

\* The writing of rows and the retry are quiet.
LEMMA AdminStep ==
    ASSUME OutboxInv, NEW m \in Messages, Admin(m)
    PROVE  OutboxInv'
<1>1. \A n \in Messages : Held(n) => row[n].status = "SENDING"
  BY DEF OutboxInv, HolderInv, Held, Holds
<1>2. CASE Enqueue(m)
  <2>1. TypeOK'
    BY <1>2 DEF OutboxInv, TypeOK, Enqueue, Row, counters, Settled
  <2>2. \A n \in Messages : Untouched(n) \/ PutBack(n)
    <3>1. PICK s \in {"QUEUED", "SKIPPED"} :
            row[m].status = "NONE" /\ row' = [row EXCEPT ![m].status = s]
      BY <1>2 DEF Enqueue
    <3>2. QED  BY <3>1, WrittenRow
  <2>3. DirectInv'
    BY <1>2 DEF OutboxInv, DirectInv, TypeOK, Enqueue
  <2>4. OneHolder' /\ HolderInv' /\ CopiesInv' /\ AttemptsInv'
    BY <1>2, <2>1, <2>2, QuietStep DEF OutboxInv, TypeOK, Enqueue, counters
  <2>5. QED  BY <2>1, <2>3, <2>4 DEF OutboxInv
<1>3. CASE EnqueueDirect(m)
  <2>1. Rest({m}) \in Worker /\ Rest({m}).pc \in {"idle", "next"} /\ m \in Workers
    BY <1>3, RestType DEF EnqueueDirect, Workers
  <2>2. TypeOK'
    BY <1>3, <2>1 DEF OutboxInv, TypeOK, EnqueueDirect, Row, counters, Settled
  <2>3. \A n \in Messages : Untouched(n) \/ PutBack(n)
    <3>1. PICK s \in {"QUEUED", "SKIPPED"} :
            row[m].status = "NONE" /\ row' = [row EXCEPT ![m].status = s]
      BY <1>3 DEF EnqueueDirect
    <3>2. QED  BY <3>1, WrittenRow
  <2>4. \A w \in Workers : \/ worker'[w] = worker[w]
                           \/ worker[w].pc \notin Holding /\ worker'[w].pc \notin Holding
    BY <1>3, <2>1 DEF OutboxInv, TypeOK, DirectInv, EnqueueDirect, Holding
  <2>5. DirectInv'
    <3>1. \A n \in Messages : row'[n].status = "NONE" => row[n].status = "NONE" /\ n # m
      BY <1>3 DEF OutboxInv, TypeOK, EnqueueDirect, Row
    <3>2. \A n \in Direct : n # m => worker'[n] = worker[n]
      BY <1>3 DEF OutboxInv, TypeOK, EnqueueDirect, Workers
    <3>3. QED  BY <3>1, <3>2 DEF OutboxInv, DirectInv
  <2>6. OneHolder' /\ HolderInv' /\ CopiesInv' /\ AttemptsInv'
    BY <1>3, <2>2, <2>3, <2>4, QuietStep DEF OutboxInv, TypeOK, EnqueueDirect, counters
  <2>7. QED  BY <2>2, <2>5, <2>6 DEF OutboxInv
<1>4. CASE Retry(m)
  <2>1. TypeOK'
    <3>1. row[m] \in Row
      BY DEF OutboxInv, TypeOK
    <3>2. [row[m] EXCEPT !.status = "QUEUED", !.attempts = 0, !.wait = "none", !.lock = "none"] \in Row
      BY <3>1 DEF Row
    <3>3. row' \in [Messages -> Row]
      BY <1>4, <3>2 DEF OutboxInv, TypeOK, Retry
    <3>4. QED  BY <1>4, <3>3 DEF OutboxInv, TypeOK, Retry
  <2>2. \A n \in Messages : Untouched(n) \/ PutBack(n)
    BY <1>1, <1>4 DEF OutboxInv, TypeOK, Retry, Row, Untouched, PutBack, Claimable
  <2>3. DirectInv'
    BY <1>4 DEF OutboxInv, DirectInv, TypeOK, Retry
  <2>4. OneHolder' /\ HolderInv' /\ CopiesInv' /\ AttemptsInv'
    BY <1>4, <2>1, <2>2, QuietStep DEF OutboxInv, TypeOK, Retry, counters
  <2>5. QED  BY <2>1, <2>3, <2>4 DEF OutboxInv
<1>5. QED  BY <1>2, <1>3, <1>4 DEF Admin

\* So are the three queries of drain() before the loop.
LEMMA DrainStep ==
    ASSUME OutboxInv, NEW p \in Processes, Drain(p) \/ SwallowedError(p)
    PROVE  OutboxInv'
<1>0. p \in Workers /\ p \notin Direct
  BY DEF Workers
<1>1. \A n \in Messages : Held(n) => row[n].status = "SENDING" /\ row[n].lock = "fresh"
  BY DEF OutboxInv, HolderInv, Held, Holds
<1>10. ASSUME NEW pc \in {"expire", "select"}, Goto(p, pc), worker[p].pc \notin Holding
      PROVE  /\ worker' \in [Workers -> Worker]
             /\ \A w \in Workers : \/ worker'[w] = worker[w]
                                   \/ worker[w].pc \notin Holding /\ worker'[w].pc \notin Holding
  <2>1. worker \in [Workers -> Worker] /\ worker[p] \in Worker
    BY <1>0 DEF OutboxInv, TypeOK
  <2>2. [worker[p] EXCEPT !.pc = pc] \in Worker /\ [worker[p] EXCEPT !.pc = pc].pc = pc
    BY <2>1 DEF Worker
  <2>3. worker' = [worker EXCEPT ![p] = [worker[p] EXCEPT !.pc = pc]]
    BY <1>10 DEF Goto
  <2>4. worker' \in [Workers -> Worker]
    BY <1>0, <2>1, <2>2, <2>3
  <2>5. worker'[p].pc = pc /\ \A w \in Workers : w # p => worker'[w] = worker[w]
    BY <1>0, <2>1, <2>2, <2>3
  <2>6. pc \notin Holding
    BY DEF Holding
  <2>7. \A w \in Workers : \/ worker'[w] = worker[w]
                           \/ worker[w].pc \notin Holding /\ worker'[w].pc \notin Holding
    <3> TAKE w \in Workers
    <3>1. CASE w = p
      <4>1. worker[p].pc \notin Holding
        BY <1>10
      <4>2. worker'[p].pc \notin Holding
        BY <2>5, <2>6
      <4>3. QED  BY <3>1, <4>1, <4>2
    <3>2. CASE w # p
      BY <2>5, <3>2
    <3>3. QED  BY <3>1, <3>2
  <2>8. QED  BY <2>4, <2>7
<1>2. TypeOK'
  <2>1. CASE Reclaim(p)
    <3>1. ASSUME NEW m \in Messages
          PROVE  [row[m] EXCEPT !.status = "QUEUED", !.lock = "none"] \in Row
      <4>1. row[m] \in Row
        BY DEF OutboxInv, TypeOK
      <4>2. QED  BY <4>1 DEF Row
    <3>2. row' \in [Messages -> Row]
      BY <2>1, <3>1 DEF OutboxInv, TypeOK, Reclaim
    <3>3. QED  BY <1>10, <2>1, <3>2 DEF OutboxInv, TypeOK, Reclaim, counters, Holding
  <2>2. CASE ExpireStale(p)
    <3>1. ASSUME NEW m \in Messages
          PROVE  [row[m] EXCEPT !.status = "SKIPPED"] \in Row
      <4>1. row[m] \in Row
        BY DEF OutboxInv, TypeOK
      <4>2. QED  BY <4>1 DEF Row, Settled
    <3>2. row' \in [Messages -> Row]
      BY <2>2, <3>1 DEF OutboxInv, TypeOK, ExpireStale
    <3>3. QED  BY <1>10, <2>2, <3>2 DEF OutboxInv, TypeOK, ExpireStale, counters, Holding
  <2>3. CASE Select(p)
    <3>1. PICK b \in SUBSET Due : worker' = [worker EXCEPT ![p] = Rest(b)]
      BY <2>3 DEF Select
    <3>2. Rest(b) \in Worker
      BY RestType DEF Due
    <3>3. QED  BY <1>0, <2>3, <3>1, <3>2 DEF OutboxInv, TypeOK, Select, counters
  <2>4. CASE SwallowedError(p)
    BY <1>10, <2>4 DEF OutboxInv, TypeOK, SwallowedError, Holding
  <2>5. QED  BY <2>1, <2>2, <2>3, <2>4 DEF Drain
<1>3. \A n \in Messages : Untouched(n) \/ PutBack(n)
  <2>1. CASE Reclaim(p)
    <3> SUFFICES ASSUME NEW n \in Messages PROVE Untouched(n) \/ PutBack(n)
      OBVIOUS
    <3>1. row[n] \in Row
      BY DEF OutboxInv, TypeOK
    <3>2. CASE row[n].status = "SENDING" /\ row[n].lock = "old"
      <4>1. row'[n].status = "QUEUED" /\ row'[n].attempts = row[n].attempts
        BY <2>1, <3>1, <3>2 DEF Reclaim, Row
      <4>2. QED  BY <1>1, <3>2, <4>1 DEF PutBack, Claimable
    <3>3. CASE ~(row[n].status = "SENDING" /\ row[n].lock = "old")
      BY <2>1, <3>3 DEF Reclaim, Untouched
    <3>4. QED  BY <3>2, <3>3
  <2>2. CASE ExpireStale(p)
    BY <1>1, <2>2 DEF OutboxInv, TypeOK, ExpireStale, Row, Untouched, PutBack, Claimable
  <2>3. CASE Select(p) \/ SwallowedError(p)
    BY <2>3 DEF Select, SwallowedError, Untouched
  <2>4. QED  BY <2>1, <2>2, <2>3 DEF Drain
<1>4. \A w \in Workers : \/ worker'[w] = worker[w]
                         \/ worker[w].pc \notin Holding /\ worker'[w].pc \notin Holding
  <2>1. CASE Select(p)
    <3>1. PICK b \in SUBSET Due : worker' = [worker EXCEPT ![p] = Rest(b)]
      BY <2>1 DEF Select
    <3>2. Rest(b).pc \in {"idle", "next"}
      BY RestType DEF Due
    <3>3. QED  BY <1>0, <2>1, <3>1, <3>2 DEF OutboxInv, TypeOK, Select, Holding
  <2>2. CASE Reclaim(p) \/ ExpireStale(p) \/ SwallowedError(p)
    BY <1>10, <2>2 DEF Reclaim, ExpireStale, SwallowedError, Holding
  <2>3. QED  BY <2>1, <2>2 DEF Drain
<1>5. handed' = handed /\ mishaps' >= mishaps
  <2>1. mishaps \in Nat
    BY DEF OutboxInv, TypeOK
  <2>2. CASE SwallowedError(p)
    BY <2>1, <2>2 DEF SwallowedError
  <2>3. CASE Drain(p)
    <3>1. UNCHANGED <<handed, counters>>
      BY <2>3 DEF Drain, Reclaim, ExpireStale, Select
    <3>2. QED  BY <2>1, <3>1 DEF counters
  <2>4. QED  BY <2>2, <2>3
<1>6. OneHolder' /\ HolderInv' /\ CopiesInv' /\ AttemptsInv'
  BY <1>2, <1>3, <1>4, <1>5, QuietStep
<1>7. DirectInv'
  <2>1. \A n \in Messages : row'[n].status = "NONE" => row[n].status = "NONE"
    BY <1>3 DEF Untouched, PutBack
  <2>2. \A n \in Direct : worker'[n] = worker[n]
    BY <1>0 DEF OutboxInv, TypeOK, Workers, Drain, Reclaim, ExpireStale, Select, SwallowedError, Goto
  <2>3. QED  BY <2>1, <2>2 DEF OutboxInv, DirectInv
<1>8. QED  BY <1>2, <1>6, <1>7 DEF OutboxInv

\* Time passes quietly, unless a send is slow.
LEMMA TimeStep ==
    ASSUME OutboxInv, ~SlowSends, (\E m \in Messages : Time(m)) \/ NightFalls \/ DayBreaks
    PROVE  OutboxInv'
<1> DEFINE Passes == /\ TypeOK'
                     /\ \A n \in Messages : Untouched(n)
                     /\ worker' = worker /\ handed' = handed /\ mishaps' = mishaps
<1>1. Passes
  <2>1. CASE NightFalls
    BY <2>1 DEF OutboxInv, TypeOK, NightFalls, Untouched
  <2>2. CASE DayBreaks
    <3>1. ASSUME NEW n \in Messages
          PROVE  /\ row'[n] \in Row /\ row'[n].status = row[n].status
                 /\ row'[n].attempts = row[n].attempts /\ row'[n].lock = row[n].lock
      <4>1. row[n] \in Row
        BY DEF OutboxInv, TypeOK
      <4>2. row'[n] = IF row[n].wait = "dawn" THEN [row[n] EXCEPT !.wait = "none"] ELSE row[n]
        BY <2>2 DEF DayBreaks
      <4>3. QED  BY <4>1, <4>2 DEF Row
    <3>2. row' \in [Messages -> Row]
      BY <2>2, <3>1 DEF DayBreaks
    <3>3. QED  BY <2>2, <3>1, <3>2 DEF OutboxInv, TypeOK, DayBreaks, counters, Untouched
  <2>3. ASSUME NEW m \in Messages, LockAges(m)
        PROVE  Passes
    <3>1. ~Held(m)
      BY <2>3 DEF LockAges, Held
    <3>2. QED  BY <2>3, <3>1 DEF OutboxInv, TypeOK, LockAges, Row, counters, Untouched
  <2>4. ASSUME NEW m \in Messages, BackoffElapses(m)
        PROVE  Passes
    <3>1. row[m] \in Row
      BY DEF OutboxInv, TypeOK
    <3>2. /\ [row[m] EXCEPT !.wait = "none"] \in Row
          /\ [row[m] EXCEPT !.wait = "none"].status = row[m].status
          /\ [row[m] EXCEPT !.wait = "none"].attempts = row[m].attempts
          /\ [row[m] EXCEPT !.wait = "none"].lock = row[m].lock
      BY <3>1 DEF Row
    <3>3. row' = [row EXCEPT ![m] = [row[m] EXCEPT !.wait = "none"]]
      BY <2>4 DEF BackoffElapses
    <3>4. QED  BY <2>4, <3>2, <3>3 DEF OutboxInv, TypeOK, BackoffElapses, counters, Untouched
  <2>5. ASSUME NEW m \in Messages, GrowsStale(m)
        PROVE  Passes
    <3>1. row[m] \in Row
      BY DEF OutboxInv, TypeOK
    <3>2. /\ [row[m] EXCEPT !.stale = TRUE] \in Row
          /\ [row[m] EXCEPT !.stale = TRUE].status = row[m].status
          /\ [row[m] EXCEPT !.stale = TRUE].attempts = row[m].attempts
          /\ [row[m] EXCEPT !.stale = TRUE].lock = row[m].lock
      BY <3>1 DEF Row
    <3>3. row' = [row EXCEPT ![m] = [row[m] EXCEPT !.stale = TRUE]]
      BY <2>5 DEF GrowsStale
    <3>4. QED  BY <2>5, <3>2, <3>3 DEF OutboxInv, TypeOK, GrowsStale, counters, Untouched
  <2>6. QED  BY <2>1, <2>2, <2>3, <2>4, <2>5 DEF Time
<1>2. OneHolder' /\ HolderInv' /\ CopiesInv' /\ AttemptsInv'
  BY <1>1, QuietStep DEF OutboxInv, TypeOK
<1>3. DirectInv'
  BY <1>1 DEF OutboxInv, DirectInv, Untouched
<1>4. QED  BY <1>1, <1>2, <1>3 DEF OutboxInv

\* The worker w alone moves, and goes on delivering the same message.
LEMMA Advancing ==
    ASSUME OutboxInv, NEW w \in Workers, row' = row,
           worker[w].pc \in Holding, worker'[w].pc \in Holding,
           worker'[w].id = worker[w].id,
           \A v \in Workers : v # w => worker'[v] = worker[v]
    PROVE  /\ \A v \in Workers, m \in Messages : Holds(v, m)' <=> Holds(v, m)
           /\ OneHolder' /\ DirectInv'
           /\ mishaps' \in Nat /\ mishaps' >= mishaps => AttemptsInv'
<1>1. \A v \in Workers, m \in Messages : Holds(v, m)' <=> Holds(v, m)
  BY DEF Holds
<1>2. OneHolder'
  BY <1>1 DEF OutboxInv, OneHolder
<1>3. DirectInv'
  <2> SUFFICES ASSUME NEW m \in Direct, row[m].status = "NONE"
               PROVE  worker'[m].pc = "idle"
    BY DEF DirectInv
  <2>1. worker[m].pc = "idle" /\ m \in Workers
    BY DEF OutboxInv, DirectInv, Workers
  <2>2. m # w
    BY <2>1 DEF Holding
  <2>3. QED  BY <2>1, <2>2
<1>4. ASSUME mishaps' \in Nat, mishaps' >= mishaps
      PROVE  AttemptsInv'
  <2>1. \A m \in Messages : Claimable(m)' <=> Claimable(m)
    BY <1>1 DEF Claimable, Held
  <2>2. \A m \in Messages : row[m].attempts \in Nat /\ mishaps \in Nat
    BY DEF OutboxInv, TypeOK, Row
  <2>3. QED  BY <1>4, <2>1, <2>2 DEF OutboxInv, AttemptsInv
<1>5. QED  BY <1>1, <1>2, <1>3, <1>4

\* The row is read back: from here on its attempts are known.
LEMMA ReadStep ==
    ASSUME OutboxInv, NEW w \in Workers, Read(w)
    PROVE  OutboxInv'
<1> DEFINE m == worker[w].id
<1>1. PICK pc \in {"hold", "buttons", "text"} :
        worker' = [worker EXCEPT ![w] = [worker[w] EXCEPT !.pc = pc, !.attempts = row[m].attempts]]
  BY DEF Read
<1>2. worker[w] \in Worker /\ row[m].attempts \in Nat /\ mishaps \in Nat
  BY DEF OutboxInv, TypeOK, Worker, Row
<1>3. [worker[w] EXCEPT !.pc = pc, !.attempts = row[m].attempts] \in Worker
  BY <1>2 DEF Worker, Holding
<1>4. UNCHANGED <<row, night, handed, mishaps, retries, nights>>
  BY DEF Read, counters
<1>5. /\ worker'[w].pc = pc /\ worker'[w].id = m /\ worker'[w].attempts = row[m].attempts
      /\ \A v \in Workers : v # w => worker'[v] = worker[v]
  BY <1>1, <1>2 DEF OutboxInv, TypeOK, Worker
<1>6. worker[w].pc \in Holding /\ pc \in Holding /\ worker[w].pc = "read"
  BY DEF Read, Holding
<1>7. TypeOK'
  BY <1>1, <1>3, <1>4 DEF OutboxInv, TypeOK
<1>8. /\ \A v \in Workers, n \in Messages : Holds(v, n)' <=> Holds(v, n)
      /\ OneHolder' /\ DirectInv' /\ AttemptsInv'
  BY <1>2, <1>4, <1>5, <1>6, Advancing
<1>9. HolderInv'
  BY <1>4, <1>5, <1>6 DEF OutboxInv, HolderInv
<1>10. \A n \in Messages : Delivered(n) => Delivered(n)'
  BY <1>4, <1>5, <1>6, <1>8 DEF Delivered
<1>11. CopiesInv'
  BY <1>4, <1>10 DEF OutboxInv, CopiesInv, TypeOK
<1>12. QED  BY <1>7, <1>8, <1>9, <1>11 DEF OutboxInv

\* A message is handed to the gateway by the one worker that holds it.
LEMMA CallStep ==
    ASSUME OutboxInv, NEW w \in Workers, NEW answer \in Replies, NEW pc \in {"text", "record"},
           worker[w].pc \in {"buttons", "text"}, Call(w, answer),
           \/ worker' = [worker EXCEPT ![w] = [worker[w] EXCEPT !.pc = pc, !.answer = answer]]
           \/ /\ worker' = [worker EXCEPT ![w] = [worker[w] EXCEPT !.pc = pc]]
              /\ ~answer.ok,
           pc = "text" => ~answer.ok
    PROVE  OutboxInv'
<1> DEFINE m == worker[w].id
<1>1. /\ worker[w] \in Worker /\ m \in Messages /\ mishaps \in Nat
      /\ handed \in [Messages -> Nat] /\ worker \in [Workers -> Worker]
      /\ answer \in Answers /\ answer.handed \in BOOLEAN /\ answer.ok \in BOOLEAN
      /\ answer.handed /\ ~answer.ok => answer \in Lost
  <2>1. handed \in [Messages -> Nat] /\ worker \in [Workers -> Worker] /\ mishaps \in Nat
    BY DEF OutboxInv, TypeOK
  <2>2. worker[w] \in Worker
    BY <2>1
  <2>3. m \in Messages
    BY <2>2 DEF Worker
  <2>4. /\ answer \in Answers /\ answer.handed \in BOOLEAN /\ answer.ok \in BOOLEAN
        /\ answer.handed /\ ~answer.ok => answer \in Lost
    <3>1. CASE answer \in Lost
      <4>1. PICK b \in BOOLEAN : answer = [handed |-> TRUE, ok |-> FALSE, retryable |-> b]
        BY <3>1 DEF Lost
      <4>2. QED  BY <3>1, <4>1 DEF Answers
    <3>2. CASE answer = Sent
      BY <3>2 DEF Answers, Sent
    <3>3. CASE answer = Busy
      BY <3>3 DEF Answers, Busy
    <3>4. CASE answer = Rejected
      BY <3>4 DEF Answers, Rejected
    <3>5. QED  BY <3>1, <3>2, <3>3, <3>4 DEF Replies
  <2>5. QED  BY <2>1, <2>2, <2>3, <2>4
<1>2. /\ [worker[w] EXCEPT !.pc = pc, !.answer = answer] \in Worker
      /\ [worker[w] EXCEPT !.pc = pc] \in Worker
  BY <1>1 DEF Worker, Holding
<1>3. /\ row' = row /\ night' = night /\ retries' = retries /\ nights' = nights
      /\ mishaps' = IF answer \in Lost THEN mishaps + 1 ELSE mishaps
      /\ handed' = IF answer.handed THEN [handed EXCEPT ![m] = @ + 1] ELSE handed
  BY DEF Call
<1>4. mishaps' \in Nat /\ mishaps' >= mishaps /\ handed' \in [Messages -> Nat]
  BY <1>1, <1>3
<1>5. worker' \in [Workers -> Worker]
  BY <1>1, <1>2
<1>6. TypeOK'
  BY <1>3, <1>4, <1>5 DEF OutboxInv, TypeOK
<1>7. /\ worker'[w].pc = pc /\ worker'[w].id = m /\ worker'[w].attempts = worker[w].attempts
      /\ answer.ok => worker'[w].answer = answer
      /\ \A v \in Workers : v # w => worker'[v] = worker[v]
  <2>1. CASE worker' = [worker EXCEPT ![w] = [worker[w] EXCEPT !.pc = pc, !.answer = answer]]
    BY <1>1, <2>1 DEF Worker
  <2>2. CASE /\ worker' = [worker EXCEPT ![w] = [worker[w] EXCEPT !.pc = pc]]
             /\ ~answer.ok
    BY <1>1, <2>2 DEF Worker
  <2>3. QED  BY <2>1, <2>2
<1>8. worker[w].pc \in Holding /\ pc \in Holding /\ worker[w].pc \notin {"read", "record"}
  BY DEF Holding
<1>9. /\ \A v \in Workers, n \in Messages : Holds(v, n)' <=> Holds(v, n)
      /\ OneHolder' /\ DirectInv' /\ AttemptsInv'
  BY <1>3, <1>4, <1>7, <1>8, Advancing
<1>10. HolderInv'
  BY <1>3, <1>7, <1>8 DEF OutboxInv, HolderInv
<1>11. CopiesInv'
  <2> SUFFICES ASSUME NEW n \in Messages
               PROVE  handed'[n] <= mishaps' + (IF Delivered(n)' THEN 1 ELSE 0)
    BY DEF CopiesInv
  <2>1. handed[n] <= mishaps + (IF Delivered(n) THEN 1 ELSE 0) /\ handed[n] \in Nat
    BY <1>1 DEF OutboxInv, CopiesInv
  <2>2. Delivered(n) => Delivered(n)'
    BY <1>3, <1>7, <1>8, <1>9 DEF Delivered
  <2>3. CASE n # m \/ ~answer.handed
    <3>1. handed'[n] = handed[n]
      BY <1>1, <1>3, <2>3
    <3>2. QED  BY <1>1, <1>4, <2>1, <2>2, <3>1
  <2>4. CASE n = m /\ answer.handed
    <3>1. handed'[n] = handed[n] + 1
      BY <1>1, <1>3, <2>4
    <3>2. Holds(w, m)
      BY <1>8 DEF Holds
    <3>3. ~Delivered(n)
      BY <1>8, <2>4, <3>2 DEF OutboxInv, OneHolder, HolderInv, Delivered
    <3>4. CASE answer.ok
      <4>1. pc = "record"
        BY <3>4
      <4>2. Delivered(n)'
        BY <1>7, <1>9, <2>4, <3>2, <3>4, <4>1 DEF Delivered
      <4>3. QED  BY <1>1, <1>4, <2>1, <3>1, <3>3, <4>2
    <3>5. CASE ~answer.ok
      <4>1. mishaps' = mishaps + 1
        BY <1>1, <1>3, <2>4, <3>5
      <4>2. QED  BY <1>1, <2>1, <3>1, <3>3, <4>1
    <3>6. QED  BY <3>4, <3>5
  <2>5. QED  BY <2>3, <2>4
<1>12. QED  BY <1>6, <1>9, <1>10, <1>11 DEF OutboxInv

\* A worker gives up its message, with its row settled, requeued or orphaned.
LEMMA Releasing ==
    ASSUME OutboxInv, TypeOK', NEW w \in Workers, NEW m \in Messages,
           Holds(w, m), worker'[w].pc \notin Holding,
           \A v \in Workers : v # w => worker'[v] = worker[v],
           \A n \in Messages : n # m => row'[n] = row[n],
           handed' = handed, mishaps' >= mishaps, row'[m].status # "NONE",
           row'[m].attempts <= MaxAttempts + mishaps',
           row'[m].status \in {"QUEUED", "SENDING"} => row'[m].attempts < MaxAttempts + mishaps',
           handed[m] <= mishaps' + (IF row'[m].status = "SENT" THEN 1 ELSE 0)
    PROVE  OutboxInv'
<1>1. \A v \in Workers, n \in Messages : Holds(v, n)' <=> Holds(v, n) /\ v # w
  BY DEF Holds
<1>2. \A v \in Workers : v # w => ~Holds(v, m)
  BY DEF OutboxInv, OneHolder
<1>3. OneHolder'
  BY <1>1 DEF OutboxInv, OneHolder
<1>4. HolderInv'
  <2> SUFFICES ASSUME NEW v \in Workers, worker'[v].pc \in Holding
               PROVE  LET r == row'[worker'[v].id] IN
                      /\ r.status = "SENDING" /\ r.lock = "fresh" /\ r.attempts >= 1
                      /\ worker'[v].pc # "read" => worker'[v].attempts = r.attempts
    BY DEF HolderInv
  <2>1. v # w /\ worker'[v] = worker[v] /\ worker[v].id \in Messages
    BY DEF OutboxInv, TypeOK, Worker
  <2>2. worker[v].id # m
    BY <1>2, <2>1 DEF Holds
  <2>3. QED  BY <2>1, <2>2 DEF OutboxInv, HolderInv
<1>5. DirectInv'
  <2> SUFFICES ASSUME NEW n \in Direct, row'[n].status = "NONE"
               PROVE  worker'[n].pc = "idle"
    BY DEF DirectInv
  <2>1. n # m /\ row[n].status = "NONE" /\ n \in Workers
    BY DEF Workers
  <2>2. worker[n].pc = "idle"
    BY <2>1 DEF OutboxInv, DirectInv
  <2>3. QED  BY <2>1, <2>2 DEF Holds, Holding
<1>6. \A n \in Messages : mishaps \in Nat /\ mishaps' \in Nat /\ handed[n] \in Nat /\ row[n].attempts \in Nat
  BY DEF OutboxInv, TypeOK, Row
<1>7. CopiesInv'
  <2> SUFFICES ASSUME NEW n \in Messages
               PROVE  handed'[n] <= mishaps' + (IF Delivered(n)' THEN 1 ELSE 0)
    BY DEF CopiesInv
  <2>1. CASE n = m
    BY <1>6, <2>1 DEF Delivered
  <2>2. CASE n # m
    <3>1. ~Holds(w, n)
      BY <2>2 DEF Holds
    <3>2. Delivered(n) => Delivered(n)'
      BY <1>1, <2>2, <3>1 DEF Delivered
    <3>3. QED  BY <1>6, <3>2 DEF OutboxInv, CopiesInv
  <2>3. QED  BY <2>1, <2>2
<1>8. AttemptsInv'
  <2> SUFFICES ASSUME NEW n \in Messages
               PROVE  /\ row'[n].attempts <= MaxAttempts + mishaps'
                      /\ Claimable(n)' => row'[n].attempts < MaxAttempts + mishaps'
    BY DEF AttemptsInv
  <2>1. CASE n = m
    BY <2>1 DEF Claimable
  <2>2. CASE n # m
    <3>1. ~Holds(w, n)
      BY <2>2 DEF Holds
    <3>2. Claimable(n)' => Claimable(n)
      BY <1>1, <2>2, <3>1 DEF Claimable, Held
    <3>3. QED  BY <1>6, <2>2, <3>2 DEF OutboxInv, AttemptsInv
  <2>3. QED  BY <2>1, <2>2
<1>9. QED  BY <1>3, <1>4, <1>5, <1>7, <1>8 DEF OutboxInv

\* A held message goes back to the queue, with its attempt.
LEMMA HoldBackStep ==
    ASSUME OutboxInv, NEW w \in Workers, HoldBack(w)
    PROVE  OutboxInv'
<1> DEFINE m == worker[w].id
           new == [row[m] EXCEPT !.status = "QUEUED", !.wait = IF night THEN "dawn" ELSE "none",
                                 !.lock = "none", !.attempts = @ - 1]
<1>1. /\ worker[w] \in Worker /\ m \in Messages /\ row[m] \in Row /\ mishaps \in Nat
      /\ worker \in [Workers -> Worker] /\ row \in [Messages -> Row]
      /\ worker[w].batch \subseteq Messages /\ row[m].attempts \in Nat /\ handed[m] \in Nat
  BY DEF OutboxInv, TypeOK, Worker, Row
<1>2. /\ worker[w].pc = "hold"
      /\ row' = [row EXCEPT ![m] = new]
      /\ worker' = [worker EXCEPT ![w] = Rest(worker[w].batch)]
      /\ UNCHANGED <<night, handed, mishaps, retries, nights>>
  BY DEF HoldBack, Finish, counters
<1>3. Rest(worker[w].batch) \in Worker /\ Rest(worker[w].batch).pc \notin Holding
  BY <1>1, RestType DEF Holding
<1>4. row[m].status = "SENDING" /\ row[m].attempts >= 1 /\ Holds(w, m)
  BY <1>2 DEF OutboxInv, HolderInv, Holds, Holding
<1>5. new \in Row /\ new.status = "QUEUED" /\ new.attempts = row[m].attempts - 1
  <2>1. row[m].attempts - 1 \in Nat
    BY <1>1, <1>4
  <2>2. (IF night THEN "dawn" ELSE "none") \in {"none", "backoff", "dawn"}
    OBVIOUS
  <2>3. QED  BY <1>1, <2>1, <2>2 DEF Row
<1>6. TypeOK'
  BY <1>1, <1>2, <1>3, <1>5 DEF OutboxInv, TypeOK
<1>7. row[m].attempts <= MaxAttempts + mishaps
  BY <1>1 DEF OutboxInv, AttemptsInv
<1>8. ~Delivered(m)
  <2>1. \A v \in Workers : Holds(v, m) => v = w
    BY <1>1, <1>4 DEF OutboxInv, OneHolder
  <2>2. QED  BY <1>2, <1>4, <2>1 DEF Delivered
<1>9. handed[m] <= mishaps
  BY <1>1, <1>8 DEF OutboxInv, CopiesInv
<1>10. row'[m] = new /\ (\A n \in Messages : n # m => row'[n] = row[n])
  BY <1>1, <1>2
<1>11. worker'[w].pc \notin Holding /\ (\A v \in Workers : v # w => worker'[v] = worker[v])
  BY <1>1, <1>2, <1>3
<1>12. QED
  BY <1>1, <1>2, <1>4, <1>5, <1>6, <1>7, <1>9, <1>10, <1>11, Releasing

\* A message that was sent, refused or postponed is given up with its outcome.
LEMMA RecordStep ==
    ASSUME OutboxInv, NEW w \in Workers, Record(w)
    PROVE  OutboxInv'
<1> DEFINE m == worker[w].id
           ok == worker[w].answer.ok
           status == IF ok THEN "SENT" ELSE IF IsTerminal(w) THEN "FAILED" ELSE "QUEUED"
           new == [row[m] EXCEPT !.status = status,
                                 !.wait = IF ok \/ IsTerminal(w) THEN @ ELSE "backoff",
                                 !.lock = "none"]
<1>1. /\ worker[w] \in Worker /\ m \in Messages /\ row[m] \in Row /\ mishaps \in Nat
      /\ worker \in [Workers -> Worker] /\ row \in [Messages -> Row]
      /\ worker[w].batch \subseteq Messages /\ row[m].attempts \in Nat /\ handed[m] \in Nat
  BY DEF OutboxInv, TypeOK, Worker, Row
<1>2. /\ worker[w].pc = "record"
      /\ row' = [row EXCEPT ![m] = new]
      /\ worker' = [worker EXCEPT ![w] = Rest(worker[w].batch)]
      /\ UNCHANGED <<night, handed, mishaps, retries, nights>>
  BY DEF Record, Finish, counters
<1>3. Rest(worker[w].batch) \in Worker /\ Rest(worker[w].batch).pc \notin Holding
  BY <1>1, RestType DEF Holding
<1>4. row[m].attempts = worker[w].attempts /\ row[m].status = "SENDING" /\ Holds(w, m)
  BY <1>2 DEF OutboxInv, HolderInv, Holds, Holding
<1>5. new \in Row /\ new.status = status /\ new.attempts = row[m].attempts
  BY <1>1 DEF Row, Settled
<1>6. TypeOK'
  BY <1>1, <1>2, <1>3, <1>5 DEF OutboxInv, TypeOK
<1>7. row[m].attempts <= MaxAttempts + mishaps
  BY <1>1 DEF OutboxInv, AttemptsInv
<1>8. status = "QUEUED" => row[m].attempts < MaxAttempts + mishaps
  BY <1>1, <1>4 DEF IsTerminal
<1>9. ~ok => ~Delivered(m)
  <2>1. \A v \in Workers : Holds(v, m) => v = w
    BY <1>1, <1>4 DEF OutboxInv, OneHolder
  <2>2. QED  BY <1>4, <2>1 DEF Delivered
<1>10. handed[m] <= mishaps + (IF status = "SENT" THEN 1 ELSE 0)
  BY <1>1, <1>9 DEF OutboxInv, CopiesInv
<1>11. row'[m] = new /\ (\A n \in Messages : n # m => row'[n] = row[n])
  BY <1>1, <1>2
<1>12. worker'[w].pc \notin Holding /\ (\A v \in Workers : v # w => worker'[v] = worker[v])
  BY <1>1, <1>2, <1>3
<1>13. status \in {"SENT", "FAILED", "QUEUED"}
  OBVIOUS
<1>14. QED
  <2> HIDE DEF new, status
  <2>1. /\ row'[m].status = status /\ row'[m].attempts = row[m].attempts
        /\ handed' = handed /\ mishaps' = mishaps
    BY <1>2, <1>5, <1>11
  <2>2. QED
    BY <1>1, <1>4, <1>6, <1>7, <1>8, <1>10, <1>11, <1>12, <1>13, <2>1, Releasing

\* A worker that dies leaves its claim behind, and a mishap to pay for it.
LEMMA DieStep ==
    ASSUME OutboxInv, NEW w \in Workers, Die(w)
    PROVE  OutboxInv'
<1>1. /\ worker[w] \in Worker /\ mishaps \in Nat /\ worker \in [Workers -> Worker]
  BY DEF OutboxInv, TypeOK
<1>2. Idle \in Worker /\ Idle.pc = "idle"
  BY RestType DEF Idle
<1>3. /\ worker' = [worker EXCEPT ![w] = Idle] /\ mishaps' = mishaps + 1
      /\ UNCHANGED <<row, night, handed, retries, nights>>
  BY DEF Die
<1>4. TypeOK'
  BY <1>1, <1>2, <1>3 DEF OutboxInv, TypeOK
<1>5. worker'[w].pc = "idle" /\ (\A v \in Workers : v # w => worker'[v] = worker[v])
  BY <1>1, <1>2, <1>3
<1>6. CASE worker[w].pc \in Holding
  <2> DEFINE m == worker[w].id
  <2>1. m \in Messages /\ Holds(w, m) /\ row[m].attempts \in Nat /\ handed[m] \in Nat
    BY <1>6 DEF OutboxInv, TypeOK, Worker, Row, Holds
  <2>2. row[m].status = "SENDING"
    BY <1>6 DEF OutboxInv, HolderInv
  <2>3. row[m].attempts <= MaxAttempts + mishaps
    BY <2>1 DEF OutboxInv, AttemptsInv
  <2>4. handed[m] <= mishaps + 1
    BY <1>1, <2>1 DEF OutboxInv, CopiesInv
  <2>5. QED
    BY <1>1, <1>3, <1>4, <1>5, <2>1, <2>2, <2>3, <2>4, Releasing DEF Holding
<1>7. CASE worker[w].pc \notin Holding
  <2>1. \A v \in Workers : \/ worker'[v] = worker[v]
                           \/ worker[v].pc \notin Holding /\ worker'[v].pc \notin Holding
    BY <1>5, <1>7 DEF Holding
  <2>2. OneHolder' /\ HolderInv' /\ CopiesInv' /\ AttemptsInv'
    BY <1>1, <1>3, <1>4, <2>1, QuietStep DEF Untouched
  <2>3. DirectInv'
    BY <1>3, <1>5 DEF OutboxInv, DirectInv, Workers
  <2>4. QED  BY <1>4, <2>2, <2>3 DEF OutboxInv
<1>8. QED  BY <1>6, <1>7

\* A claim succeeds on a row that is QUEUED, so that nobody holds it.
LEMMA ClaimStep ==
    ASSUME OutboxInv, NEW w \in Workers, Claim(w)
    PROVE  OutboxInv'
<1>1. PICK m \in worker[w].batch :
        IF row[m].status = "QUEUED"
        THEN /\ row' = [row EXCEPT ![m] = Claimed(m)]
             /\ worker' = [worker EXCEPT ![w] = Claimant(w, m)]
        ELSE /\ worker' = [worker EXCEPT ![w] = Rest(worker[w].batch \ {m})]
             /\ UNCHANGED row
  BY DEF Claim
<1>2. /\ worker[w] \in Worker /\ m \in Messages /\ row[m] \in Row /\ mishaps \in Nat
      /\ worker \in [Workers -> Worker] /\ row \in [Messages -> Row]
      /\ worker[w].batch \subseteq Messages /\ row[m].attempts \in Nat
  BY DEF OutboxInv, TypeOK, Worker, Row
<1>3. /\ worker[w].pc = "next" /\ worker[w].pc \notin Holding
      /\ UNCHANGED <<night, handed, mishaps, retries, nights>>
  BY DEF Claim, Holding, counters
<1> DEFINE rest == Rest(worker[w].batch \ {m})
<1>4. rest \in Worker /\ rest.pc \in {"idle", "next"}
  BY <1>2, RestType
<1>5. CASE row[m].status # "QUEUED"
  <2>1. worker' = [worker EXCEPT ![w] = rest] /\ UNCHANGED row
    BY <1>1, <1>5
  <2>2. TypeOK'
    BY <1>2, <1>3, <1>4, <2>1 DEF OutboxInv, TypeOK
  <2>3. \A v \in Workers : \/ worker'[v] = worker[v]
                           \/ worker[v].pc \notin Holding /\ worker'[v].pc \notin Holding
    BY <1>2, <1>3, <1>4, <2>1 DEF Holding
  <2>4. OneHolder' /\ HolderInv' /\ CopiesInv' /\ AttemptsInv'
    BY <1>2, <1>3, <2>1, <2>2, <2>3, QuietStep DEF Untouched
  <2>5. DirectInv'
    <3>1. \A n \in Direct : row[n].status = "NONE" => n # w
      BY <1>3 DEF OutboxInv, DirectInv
    <3>2. QED  BY <1>2, <2>1, <3>1 DEF OutboxInv, DirectInv, Workers
  <2>6. QED  BY <2>2, <2>4, <2>5 DEF OutboxInv
<1>6. CASE row[m].status = "QUEUED"
  <2>1. /\ row' = [row EXCEPT ![m] = Claimed(m)]
        /\ worker' = [worker EXCEPT ![w] = Claimant(w, m)]
    BY <1>1, <1>6
  <2>2. /\ Claimed(m) \in Row /\ Claimed(m).status = "SENDING" /\ Claimed(m).lock = "fresh"
        /\ Claimed(m).attempts = row[m].attempts + 1
    <3>1. row[m].attempts + 1 \in Nat
      BY <1>2
    <3>2. Claimed(m) = [row[m] EXCEPT !.status = "SENDING", !.lock = "fresh",
                                      !.attempts = row[m].attempts + 1]
      BY DEF Claimed
    <3>3. QED  BY <1>2, <3>1, <3>2 DEF Row
  <2>3. Claimant(w, m) \in Worker /\ Claimant(w, m).pc = "read" /\ Claimant(w, m).id = m
    BY <1>2, <1>4 DEF Claimant, Worker, Holding
  <2>4. row'[m] = Claimed(m) /\ (\A n \in Messages : n # m => row'[n] = row[n])
    BY <1>2, <2>1
  <2>5. worker'[w] = Claimant(w, m) /\ (\A v \in Workers : v # w => worker'[v] = worker[v])
    BY <1>2, <2>1
  <2>6. TypeOK'
    BY <1>2, <1>3, <2>1, <2>2, <2>3 DEF OutboxInv, TypeOK
  <2>7. \A v \in Workers : ~Holds(v, m)
    BY <1>6 DEF OutboxInv, HolderInv, Holds
  <2>8. \A v \in Workers, n \in Messages :
          Holds(v, n)' <=> IF v = w THEN n = m ELSE Holds(v, n)
    BY <2>3, <2>5 DEF Holds, Holding
  <2>9. \A n \in Messages : ~Holds(w, n)
    BY <1>3 DEF Holds
  <2>10. OneHolder'
    BY <2>7, <2>8 DEF OutboxInv, OneHolder
  <2>11. HolderInv'
    <3> SUFFICES ASSUME NEW v \in Workers, worker'[v].pc \in Holding
                 PROVE  LET r == row'[worker'[v].id] IN
                        /\ r.status = "SENDING" /\ r.lock = "fresh" /\ r.attempts >= 1
                        /\ worker'[v].pc # "read" => worker'[v].attempts = r.attempts
      BY DEF HolderInv
    <3>1. CASE v = w
      BY <1>2, <2>2, <2>3, <2>4, <2>5, <3>1
    <3>2. CASE v # w
      <4>1. worker'[v] = worker[v] /\ worker[v].id \in Messages
        BY <2>5, <3>2 DEF OutboxInv, TypeOK, Worker
      <4>2. worker[v].id # m
        BY <2>7, <4>1 DEF Holds
      <4>3. QED  BY <2>4, <4>1, <4>2 DEF OutboxInv, HolderInv
    <3>3. QED  BY <3>1, <3>2
  <2>12. \A n \in Messages : Delivered(n) => Delivered(n)'
    <3> SUFFICES ASSUME NEW n \in Messages, Delivered(n)
                 PROVE  Delivered(n)'
      OBVIOUS
    <3>1. n # m
      BY <1>6, <2>7 DEF Delivered
    <3>2. CASE row[n].status = "SENT"
      BY <2>4, <3>1, <3>2 DEF Delivered
    <3>3. CASE row[n].status # "SENT"
      <4>1. PICK v \in Workers : Holds(v, n) /\ worker[v].pc = "record" /\ worker[v].answer.ok
        BY <3>3 DEF Delivered
      <4>2. v # w /\ Holds(v, n)'
        BY <2>8, <2>9, <4>1
      <4>3. QED  BY <2>5, <4>1, <4>2 DEF Delivered
    <3>4. QED  BY <3>2, <3>3
  <2>13. CopiesInv'
    BY <1>3, <2>12 DEF OutboxInv, CopiesInv, TypeOK
  <2>14. AttemptsInv'
    <3> SUFFICES ASSUME NEW n \in Messages
                 PROVE  /\ row'[n].attempts <= MaxAttempts + mishaps'
                        /\ Claimable(n)' => row'[n].attempts < MaxAttempts + mishaps'
      BY DEF AttemptsInv
    <3>1. CASE n = m
      <4>1. row[m].attempts < MaxAttempts + mishaps
        BY <1>2, <1>6 DEF OutboxInv, AttemptsInv, Claimable
      <4>2. ~Claimable(m)'
        <5>1. Holds(w, m)'
          BY <1>2, <2>8
        <5>2. Held(m)' /\ row'[m].status = "SENDING"
          BY <2>2, <2>4, <5>1 DEF Held
        <5>3. QED  BY <5>2 DEF Claimable
      <4>3. QED  BY <1>2, <1>3, <2>2, <2>4, <3>1, <4>1, <4>2
    <3>2. CASE n # m
      <4>1. Claimable(n)' => Claimable(n)
        BY <2>4, <2>8, <2>9, <3>2 DEF Claimable, Held
      <4>2. QED  BY <1>3, <2>4, <3>2, <4>1 DEF OutboxInv, AttemptsInv
    <3>3. QED  BY <3>1, <3>2
  <2>15. DirectInv'
    <3> SUFFICES ASSUME NEW n \in Direct, row'[n].status = "NONE"
                 PROVE  worker'[n].pc = "idle"
      BY DEF DirectInv
    <3>1. n # m /\ row[n].status = "NONE" /\ n \in Workers
      BY <2>2, <2>4 DEF Workers
    <3>2. worker[n].pc = "idle" /\ n # w
      BY <1>3, <3>1 DEF OutboxInv, DirectInv
    <3>3. QED  BY <2>5, <3>1, <3>2
  <2>16. QED  BY <2>6, <2>10, <2>11, <2>13, <2>14, <2>15 DEF OutboxInv
<1>7. QED  BY <1>5, <1>6

\* The gateway is asked with the buttons first, or with the text at once.
LEMMA SendStep ==
    ASSUME OutboxInv, NEW w \in Workers, SendButtons(w) \/ SendText(w)
    PROVE  OutboxInv'
<1>1. CASE SendButtons(w)
  <2>1. PICK answer \in Replies :
          /\ Call(w, answer)
          /\ IF answer.ok
             THEN worker' = [worker EXCEPT ![w] = [worker[w] EXCEPT !.pc = "record", !.answer = answer]]
             ELSE worker' = [worker EXCEPT ![w] = [worker[w] EXCEPT !.pc = "text"]]
    BY <1>1 DEF SendButtons, Goto
  <2>2. worker[w].pc = "buttons"
    BY <1>1 DEF SendButtons
  <2>3. CASE answer.ok
    BY <2>1, <2>2, <2>3, CallStep
  <2>4. CASE ~answer.ok
    BY <2>1, <2>2, <2>4, CallStep
  <2>5. QED  BY <2>3, <2>4
<1>2. CASE SendText(w)
  <2>1. PICK answer \in Replies :
          /\ Call(w, answer)
          /\ worker' = [worker EXCEPT ![w] = [worker[w] EXCEPT !.pc = "record", !.answer = answer]]
    BY <1>2 DEF SendText
  <2>2. worker[w].pc = "text"
    BY <1>2 DEF SendText
  <2>3. QED  BY <2>1, <2>2, CallStep
<1>3. QED  BY <1>1, <1>2

-----------------------------------------------------------------------------

\* An empty table and idle workers.
LEMMA OutboxInit == Init => OutboxInv
<1> SUFFICES ASSUME Init PROVE OutboxInv
  OBVIOUS
<1>1. Idle \in Worker /\ Idle.pc = "idle"
  BY RestType DEF Idle
<1>2. \A w \in Workers : worker[w].pc = "idle"
  BY <1>1 DEF Init
<1>3. TypeOK
  BY <1>1 DEF Init, TypeOK, Row
<1>4. \A w \in Workers, m \in Messages : ~Holds(w, m)
  BY <1>2 DEF Holds, Holding
<1>5. OneHolder
  BY <1>4 DEF OneHolder
<1>6. HolderInv
  BY <1>2 DEF HolderInv, Holding
<1>7. CopiesInv
  BY DEF Init, CopiesInv
<1>8. AttemptsInv
  BY DEF Init, AttemptsInv
<1>9. DirectInv
  BY <1>2 DEF DirectInv, Workers
<1>10. QED  BY <1>3, <1>5, <1>6, <1>7, <1>8, <1>9 DEF OutboxInv

\* Every step of every worker keeps OutboxInv.
LEMMA OutboxNext == OutboxInv /\ ~SlowSends /\ [Next]_vars => OutboxInv'
<1> SUFFICES ASSUME OutboxInv, ~SlowSends, [Next]_vars
             PROVE  OutboxInv'
  OBVIOUS
<1>1. CASE \E p \in Processes : Drain(p) \/ SwallowedError(p)
  BY <1>1, DrainStep
<1>2. CASE \E w \in Workers : Deliver(w) \/ Die(w)
  BY <1>2, ClaimStep, ReadStep, HoldBackStep, SendStep, RecordStep, DieStep DEF Deliver
<1>3. CASE \E m \in Messages : Admin(m)
  BY <1>3, AdminStep
<1>4. CASE (\E m \in Messages : Time(m)) \/ NightFalls \/ DayBreaks
  BY <1>4, TimeStep
<1>5. CASE UNCHANGED vars
  BY <1>5 DEF vars, OutboxInv, TypeOK, OneHolder, HolderInv, CopiesInv, AttemptsInv, DirectInv,
              Holds, Held, Delivered, Claimable
<1>6. QED  BY <1>1, <1>2, <1>3, <1>4, <1>5 DEF Next

\* The outbox invariant holds of every execution in which no send outlasts the
\* limit after which drain() takes a claim back.
THEOREM OutboxCorrect == ~SlowSends => (Spec => []OutboxInv)
<1>1. SUFFICES ASSUME ~SlowSends PROVE Spec => []OutboxInv
  OBVIOUS
<1>2. OutboxInv /\ [Next]_vars => OutboxInv'
  BY <1>1, OutboxNext
<1>3. QED  BY <1>2, OutboxInit, PTL DEF Spec

\* deliverOne(): two workers never deliver the same message at the same time.
THEOREM ClaimIsExclusive == ~SlowSends => (Spec => []OneHolder)
<1>1. OutboxInv => OneHolder
  BY DEF OutboxInv
<1>2. QED  BY <1>1, OutboxCorrect, PTL

\* However many messages, processes and retries: there are never more copies of
\* a message than one, plus the workers that died and the answers that got lost.
THEOREM CopiesAreExplained == ~SlowSends => (Spec => []ExtraCopiesExplained)
<1>1. OutboxInv => ExtraCopiesExplained
  BY DEF OutboxInv, CopiesInv, TypeOK, ExtraCopiesExplained
<1>2. QED  BY <1>1, OutboxCorrect, PTL

\* A row is claimed at most maxAttempts times, and once more per mishap.
THEOREM AttemptsAreBounded == ~SlowSends => (Spec => []AttemptsBounded)
<1>1. OutboxInv => AttemptsBounded
  BY DEF OutboxInv, AttemptsInv, AttemptsBounded
<1>2. QED  BY <1>1, OutboxCorrect, PTL
=============================================================================
