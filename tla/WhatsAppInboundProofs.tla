------------------------ MODULE WhatsAppInboundProofs ------------------------
(***************************************************************************)
(* Proofs about WhatsAppInbound: for any number of messages, questions,    *)
(* attempts, actions and faults, the arguments of a token are given out    *)
(* once, a confirmed action runs once, one action at most waits for a YES  *)
(* as long as no expiry failed, no message is run more often than the job  *)
(* allows, and every run of a tool that is not confirmed, but the first,   *)
(* is owed to a fault or to a slow run.                                    *)
(***************************************************************************)
EXTENDS WhatsAppInbound, FiniteSetTheorems, WellFoundedInduction, TLAPS

Queued == {"wait"} \union Locked

\* The chain is a lock: nobody is in it twice, and only its head is at work.
LockInv ==
    /\ \A i, j \in 1..Len(chain) : chain[i] = chain[j] => i = j
    /\ \A r \in Runs : run[r].pc \in Queued <=> \E i \in 1..Len(chain) : chain[i] = r
    /\ \A r \in Runs : run[r].pc \in Locked => chain[1] = r

\* A run and its row: the claim is taken once by the webhook, and by the job only
\* when an attempt is left.
RowInv ==
    /\ \A m \in Messages :
         /\ run[m].pc # "idle" => run[m].m = m
         /\ row[m].status = "NONE" => run[m].pc = "idle"
         /\ row[m].status \in {"NONE", "RECEIVED"} => row[m].attempts = 0
         /\ run[m].pc = "claim" => row[m].status = "RECEIVED"
    /\ run[Cron].pc = "claim" => /\ row[run[Cron].m].status \notin {"NONE", "RECEIVED"}
                                 /\ row[run[Cron].m].attempts < MaxAttempts
    /\ \A r \in Runs : run[r].pc \notin {"idle", "claim"} =>
                         row[run[r].m].status \notin {"NONE", "RECEIVED"}

\* What is taken is taken once; what is created is alone, or beside what an expiry left.
ActionInv ==
    /\ handed = IF token = "PENDING" THEN 0 ELSE 1
    /\ \A i \in Actions : /\ executed[i] \in {0, 1}
                          /\ executed[i] = 1 => action[i] = "CONFIRMED"
    /\ \A r \in Runs : run[r].pc = "tool" => /\ action[run[r].id] = "CONFIRMED"
                                             /\ executed[run[r].id] = 0
    /\ Cardinality(Waiting) <= 1 + skipped
    /\ \A r \in Runs : run[r].pc = "create" => Cardinality(Waiting) <= skipped

InboundInv == TypeOK /\ LockInv /\ RowInv /\ ActionInv

-----------------------------------------------------------------------------
(* What a run that has the lock does to the runs and to the lock *)

\* The actions of a run in its turn.
Handle(r) ==
    \/ StartFlow(r) \/ FlowTimedOut(r) \/ AnswerRefused(r) \/ AnswerStep(r) \/ AnswerLast(r)
    \/ StepBack(r) \/ NothingDone(r) \/ Consume(r) \/ Execute(r) \/ Cancel(r)
    \/ ExpirePending(r) \/ CreatePending(r) \/ Confirm(r) \/ NothingWaiting(r) \/ RunTool(r)
    \/ Reply(r)

HasTurn(r) == run[r].pc \in Queued /\ chain # <<>> /\ chain[1] = r

\* The other runs see no more of it than an older version.
Alone(r) == \A q \in Runs \ {r} :
    run'[q].pc = run[q].pc /\ run'[q].m = run[q].m /\ run'[q].id = run[q].id

Departs(r) == /\ HasTurn(r) /\ Alone(r) /\ chain' = Tail(chain)
              /\ run'[r].pc = "finish" /\ run'[r].m = run[r].m
Works(r) == /\ HasTurn(r) /\ Alone(r) /\ chain' = chain
            /\ run'[r].pc \in Locked /\ run'[r].m = run[r].m

\* The lock is given on: who stood behind the head moves up.
LEMMA TailOf ==
  ASSUME NEW s \in Seq(Runs), s # <<>>
  PROVE  /\ Head(s) = s[1] /\ Tail(s) \in Seq(Runs) /\ Len(s) \in Nat /\ Len(s) >= 1
         /\ Len(Tail(s)) = Len(s) - 1
         /\ \A i \in 1..Len(s) - 1 : Tail(s)[i] = s[i + 1]
  OBVIOUS

\* A run arrives at the lock: it stands behind all the others.
LEMMA AppendOf ==
  ASSUME NEW s \in Seq(Runs), NEW r \in Runs
  PROVE  /\ Append(s, r) \in Seq(Runs) /\ Len(s) \in Nat
         /\ Len(Append(s, r)) = Len(s) + 1
         /\ \A i \in 1..Len(s) : Append(s, r)[i] = s[i]
         /\ Append(s, r)[Len(s) + 1] = r
  OBVIOUS

\* A run that is not under way.
LEMMA IdleIsRun == IdleRun \in Run /\ IdleRun.pc = "idle"
<1>1. (CHOOSE m \in Messages : TRUE) \in Messages
  BY InboundAssumption
<1>2. 1 \in Actions /\ 0 \in 0..Late
  BY InboundAssumption DEF Actions, Late
<1> QED BY <1>1, <1>2 DEF IdleRun, Run

\* Who is at work, or finds itself at the head, has the lock.
LEMMA TurnOf ==
  ASSUME TypeOK, LockInv, NEW r \in Runs, run[r].pc \in Queued,
         run[r].pc \in Locked \/ Head(chain) = r
  PROVE  HasTurn(r)
<1>1. chain \in Seq(Runs)
  BY DEF TypeOK
<1>2. PICK i \in 1..Len(chain) : chain[i] = r
  BY DEF LockInv
<1>3. chain # <<>>
  BY <1>1, <1>2
<1>4. chain[1] = r
  BY <1>1, <1>3, TailOf DEF LockInv
<1> QED BY <1>3, <1>4 DEF HasTurn

\* A run that goes on, or leaves the lock with its message yet to be closed.
LEMMA AtIsRun ==
  ASSUME TypeOK, NEW r \in Runs, NEW p \in {"finish"} \union Locked
  PROVE  /\ At(r, p) \in Run /\ At(r, p).pc = p /\ At(r, p).m = run[r].m
         /\ Left(r) \in Run /\ Left(r).pc = "finish" /\ Left(r).m = run[r].m
  BY IdleIsRun DEF At, Left, Run, TypeOK

\* A write of the session goes on as its own run, and makes the copies of others old.
LEMMA WroteEffect ==
  ASSUME TypeOK, NEW r \in Runs, NEW next \in Run, run' = Wrote(r, next)
  PROVE  /\ run' \in [Runs -> Run] /\ run'[r] = next /\ Alone(r)
  BY DEF Wrote, TypeOK, Run, Alone

\* A turn that goes on with a write of the session.
LEMMA PatchWorks ==
  ASSUME TypeOK, NEW r \in Runs, HasTurn(r), NEW step \in 0..Late, NEW p \in Locked,
         Patch(r, step, p)
  PROVE  /\ Works(r) /\ run' \in [Runs -> Run] /\ flowStep' \in 0..Late
         /\ row' = row /\ faults' = faults /\ run'[r].pc = p
<1>1. At(r, p) \in Run /\ At(r, p).pc = p /\ At(r, p).m = run[r].m
  BY AtIsRun
<1>2. run' \in [Runs -> Run] /\ run'[r] = At(r, p) /\ Alone(r)
  BY <1>1, WroteEffect DEF Patch
<1>3. flowStep' \in 0..Late
  BY DEF Patch, Patched, TypeOK
<1> QED BY <1>1, <1>2, <1>3 DEF Patch, Works

\* A change of the pc within the turn.
LEMMA GotoWorks ==
  ASSUME TypeOK, NEW r \in Runs, HasTurn(r), NEW p \in Locked, Goto(r, p), chain' = chain
  PROVE  Works(r) /\ run' \in [Runs -> Run] /\ run'[r].pc = p
  BY AtIsRun DEF Goto, Works, Alone, TypeOK

\* The values of the open question.
LEMMA StepsAre == 0 \in 0..Late /\ 1 \in 0..Late /\ Steps \in 0..Late /\ Late \in 0..Late
  BY InboundAssumption DEF Late

\* A bounded set of numbers that is not empty has a largest one.
LEMMA Largest ==
  ASSUME NEW n \in Nat, NEW S \in SUBSET (0..n), S # {}
  PROVE  \E i \in S : \A j \in S : j <= i
<1> DEFINE T == {n - i : i \in S}
<1>1. T \subseteq Nat /\ T # {}
  <2>1. \A i \in S : n - i \in Nat
    OBVIOUS
  <2>2. PICK i \in S : TRUE
    OBVIOUS
  <2> QED BY <2>1, <2>2
<1>2. PICK x \in T : \A y \in T : ~ (<<y, x>> \in OpToRel(<, Nat))
  BY <1>1, NatLessThanWellFounded, WFMin
<1>3. \A y \in T : ~ (y < x)
  BY <1>1, <1>2 DEF OpToRel
<1>4. PICK i \in S : x = n - i
  OBVIOUS
<1>5. ASSUME NEW j \in S PROVE j <= i
  <2>1. n - j \in T
    OBVIOUS
  <2>2. ~ (n - j < n - i)
    BY <1>3, <1>4, <2>1
  <2> QED BY <2>2
<1> QED BY <1>5

\* What a YES confirms, and NO rejects: the newest of what waits.
LEMMA TheNewest ==
  ASSUME Waiting # {}
  PROVE  LET i == CHOOSE i \in Waiting : \A j \in Waiting : j <= i
         IN  i \in Actions /\ action[i] = "PENDING"
<1>1. MaxActions \in Nat /\ Waiting \in SUBSET (0..MaxActions)
  BY InboundAssumption DEF Waiting, Actions
<1>2. \E i \in Waiting : \A j \in Waiting : j <= i
  BY <1>1, Largest
<1>3. (CHOOSE i \in Waiting : \A j \in Waiting : j <= i) \in Waiting
  BY <1>2
<1> QED BY <1>3 DEF Waiting

\* Every action of a turn ends it or goes on with it, and leaves the rows alone.
LEMMA HandleEffect ==
  ASSUME TypeOK, LockInv, NEW r \in Runs, Handle(r)
  PROVE  /\ Departs(r) \/ Works(r)
         /\ run' \in [Runs -> Run] /\ flowStep' \in 0..Late
         /\ row' = row /\ faults' \in 0..MaxFaults
<1>0. flowStep \in 0..Late /\ run \in [Runs -> Run] /\ faults \in 0..MaxFaults
  BY DEF TypeOK
<1>1. HasTurn(r)
  BY TurnOf DEF Handle, StartFlow, FlowTimedOut, AnswerRefused, AnswerStep, AnswerLast, StepBack,
                NothingDone, Consume, Execute, Cancel, ExpirePending, CreatePending, Confirm,
                NothingWaiting, RunTool, Reply, Turn, Queued, Locked
<1>2. ASSUME NEW step \in 0..Late, NEW p \in {"reply", "execute", "expire"}, Patch(r, step, p)
      PROVE  Works(r) /\ run' \in [Runs -> Run] /\ flowStep' \in 0..Late
             /\ row' = row /\ faults' = faults
  BY <1>1, <1>2, PatchWorks DEF Locked
<1>3. ASSUME NEW p \in Locked, Goto(r, p), chain' = chain
      PROVE  Works(r) /\ run' \in [Runs -> Run]
  BY <1>1, <1>3, GotoWorks
<1>4. run[r].step \in 0..Late
  BY <1>0 DEF Run
<1>5. CASE StartFlow(r) \/ FlowTimedOut(r) \/ AnswerLast(r) \/ Cancel(r)
  BY <1>0, <1>2, <1>5, StepsAre DEF StartFlow, FlowTimedOut, AnswerLast, Cancel
<1>6. CASE AnswerRefused(r)
  <2>1. PICK step \in {flowStep, 0} : Patch(r, step, "reply")
    BY <1>6 DEF AnswerRefused
  <2> QED BY <1>0, <1>2, <2>1, StepsAre
<1>7. CASE AnswerStep(r)
  <2>1. PICK step \in run[r].step + 1 .. Steps : Patch(r, step, "reply")
    BY <1>7 DEF AnswerStep
  <2>2. step \in 0..Late
    BY <1>4, InboundAssumption DEF Late
  <2> QED BY <1>0, <1>2, <2>1, <2>2
<1>8. CASE StepBack(r)
  <2> DEFINE step == IF flowStep = Late THEN Late
                     ELSE IF run[r].step = 1 THEN 1 ELSE run[r].step - 1
  <2>1. step \in 0..Late
    BY <1>4, <1>8, StepsAre, InboundAssumption DEF StepBack, Late, Open
  <2>2. Patch(r, step, "reply")
    BY <1>8 DEF StepBack
  <2> HIDE DEF step
  <2> QED BY <1>0, <1>2, <2>1, <2>2
<1>9. CASE NothingDone(r) \/ NothingWaiting(r) \/ CreatePending(r) \/ RunTool(r)
  <2>1. Goto(r, "reply") /\ chain' = chain
    BY <1>9 DEF NothingDone, NothingWaiting, CreatePending, RunTool
  <2>2. row' = row /\ flowStep' = flowStep /\ faults' = faults
    BY <1>9 DEF NothingDone, NothingWaiting, CreatePending, RunTool, acted
  <2> QED BY <1>0, <1>3, <2>1, <2>2 DEF Locked
<1>10. CASE Consume(r)
  <2>1. chain' = chain /\ \E p \in {"start", "execute", "reply"} : Goto(r, p)
    BY <1>10 DEF Consume
  <2> QED BY <1>0, <1>3, <1>10, <2>1 DEF Consume, Locked
<1>11. CASE Execute(r)
  <2>1. chain' = chain /\ \E p \in {"expire", "reply"} : Goto(r, p)
    BY <1>11 DEF Execute
  <2> QED BY <1>0, <1>3, <1>11, <2>1 DEF Execute, Locked, acted
<1>12. CASE ExpirePending(r)
  <2>1. chain' = chain /\ \E p \in {"create", "reply"} : Goto(r, p)
    BY <1>12 DEF ExpirePending
  <2>2. faults' \in 0..MaxFaults
    BY <1>0, <1>12, InboundAssumption DEF ExpirePending, Fault
  <2> QED BY <1>0, <1>3, <1>12, <2>1, <2>2 DEF ExpirePending, Locked
<1>13. CASE Confirm(r)
  <2> DEFINE i == CHOOSE i \in Waiting : \A j \in Waiting : j <= i
  <2>1. row' = row /\ flowStep' = flowStep /\ faults' = faults /\ chain' = chain
    BY <1>13 DEF Confirm
  <2>2. CASE KindOf(r) = "yes"
    <3>1. run' = [run EXCEPT ![r].pc = "tool", ![r].id = i]
      BY <1>13, <2>2 DEF Confirm
    <3>2. i \in Actions
      BY <1>13, TheNewest DEF Confirm
    <3> HIDE DEF i
    <3>3. run' \in [Runs -> Run] /\ Works(r)
      BY <1>0, <1>1, <2>1, <3>1, <3>2 DEF Run, Works, Alone, Locked
    <3> QED BY <1>0, <2>1, <3>3
  <2>3. CASE KindOf(r) # "yes"
    <3>1. Goto(r, "reply")
      BY <1>13, <2>3 DEF Confirm
    <3> QED BY <1>0, <1>3, <2>1, <3>1 DEF Locked
  <2> QED BY <2>2, <2>3
<1>14. CASE Reply(r)
  <2>1. chain' = Tail(chain) /\ row' = row /\ flowStep' = flowStep /\ faults' = faults
    BY <1>14 DEF Reply, acted
  <2>2. Left(r) \in Run /\ Left(r).pc = "finish" /\ Left(r).m = run[r].m
    BY AtIsRun
  <2>3. run' \in [Runs -> Run] /\ run'[r] = Left(r) /\ Alone(r)
    <3>1. CASE run' = Wrote(r, Left(r))
      BY <2>2, <3>1, WroteEffect
    <3>2. CASE run' = [run EXCEPT ![r] = Left(r)]
      BY <1>0, <2>2, <3>2 DEF Alone
    <3> QED BY <1>14, <3>1, <3>2 DEF Reply
  <2> QED BY <1>0, <1>1, <2>1, <2>2, <2>3 DEF Departs
<1> QED BY <1>0, <1>5, <1>6, <1>7, <1>8, <1>9, <1>10, <1>11, <1>12, <1>13, <1>14 DEF Handle

-----------------------------------------------------------------------------
(* The lock *)

\* Two runs that have the lock are one.
LEMMA OneAtWork ==
  ASSUME LockInv, NEW r \in Runs, HasTurn(r), NEW q \in Runs \ {r}
  PROVE  run[q].pc \notin Locked
  BY DEF LockInv, HasTurn

\* The pc of nobody goes into the lock, out of it, or to work.
LEMMA LockKept ==
  ASSUME TypeOK, LockInv, chain' = chain,
         \A q \in Runs : /\ run'[q].pc \in Queued <=> run[q].pc \in Queued
                         /\ run'[q].pc \in Locked => run[q].pc \in Locked \/ HasTurn(q)
  PROVE  LockInv'
<1>1. \A i, j \in 1..Len(chain') : chain'[i] = chain'[j] => i = j
  BY DEF LockInv
<1>2. \A q \in Runs : run'[q].pc \in Queued <=> \E i \in 1..Len(chain') : chain'[i] = q
  BY DEF LockInv
<1>3. \A q \in Runs : run'[q].pc \in Locked => chain'[1] = q
  BY DEF LockInv, HasTurn
<1> QED BY <1>1, <1>2, <1>3 DEF LockInv

\* A run arrives: behind the others, or as the head of an empty lock.
LEMMA LockEntered ==
  ASSUME TypeOK, LockInv, NEW r \in Runs, run[r].pc = "claim", run'[r].pc = "wait",
         Alone(r), chain' = Append(chain, r)
  PROVE  LockInv'
<1> DEFINE n == Len(chain)
<1>1. /\ chain \in Seq(Runs) /\ n \in Nat /\ Len(chain') = n + 1
      /\ \A i \in 1..n : chain'[i] = chain[i] /\ chain[i] \in Runs
      /\ chain'[n + 1] = r
  BY AppendOf DEF TypeOK
<1>2. \A i \in 1..n : chain[i] # r
  BY <1>1 DEF LockInv, Queued, Locked
<1>3. \A i, j \in 1..Len(chain') : chain'[i] = chain'[j] => i = j
  <2> TAKE i, j \in 1..Len(chain')
  <2>1. (i \in 1..n \/ i = n + 1) /\ (j \in 1..n \/ j = n + 1)
    BY <1>1
  <2> QED BY <1>1, <1>2, <2>1 DEF LockInv
<1>4. \A q \in Runs : run'[q].pc \in Queued <=> \E i \in 1..Len(chain') : chain'[i] = q
  <2> TAKE q \in Runs
  <2>1. CASE q = r
    BY <1>1, <2>1 DEF Queued
  <2>2. CASE q # r
    <3>1. run'[q].pc \in Queued <=> \E i \in 1..n : chain[i] = q
      BY <2>2 DEF LockInv, Alone
    <3>2. (\E i \in 1..n : chain[i] = q) <=> \E i \in 1..Len(chain') : chain'[i] = q
      <4>1. \A i \in 1..Len(chain') : i \in 1..n \/ i = n + 1
        BY <1>1
      <4>2. \A i \in 1..n : i \in 1..Len(chain')
        BY <1>1
      <4> QED BY <1>1, <2>2, <4>1, <4>2
    <3> QED BY <3>1, <3>2
  <2> QED BY <2>1, <2>2
<1>5. \A q \in Runs : run'[q].pc \in Locked => chain'[1] = q
  <2> SUFFICES ASSUME NEW q \in Runs, run'[q].pc \in Locked PROVE chain'[1] = q
    OBVIOUS
  <2>1. q # r /\ run[q].pc \in Locked
    BY DEF Locked, Alone
  <2>2. PICK i \in 1..n : chain[i] = q
    BY <2>1 DEF LockInv, Queued
  <2>3. 1 \in 1..n
    BY <1>1, <2>2
  <2> QED BY <1>1, <2>1, <2>3 DEF LockInv
<1> QED BY <1>3, <1>4, <1>5 DEF LockInv

\* The head leaves: nobody else was at work, and nobody is.
LEMMA LockLeft ==
  ASSUME TypeOK, LockInv, NEW r \in Runs, HasTurn(r), Alone(r), chain' = Tail(chain),
         run'[r].pc \in {"finish", "idle"}
  PROVE  LockInv'
<1> DEFINE n == Len(chain) - 1
<1>1. /\ n \in Nat /\ Len(chain) = n + 1 /\ Len(chain') = n
      /\ \A i \in 1..n : chain'[i] = chain[i + 1]
  BY TailOf DEF TypeOK, HasTurn
<1>2. chain[1] = r
  BY DEF HasTurn
<1>3. \A i, j \in 1..Len(chain') : chain'[i] = chain'[j] => i = j
  <2> TAKE i, j \in 1..Len(chain')
  <2>1. i + 1 \in 1..Len(chain) /\ j + 1 \in 1..Len(chain) /\ i \in Int /\ j \in Int
    BY <1>1
  <2> QED BY <1>1, <2>1 DEF LockInv
<1>4. \A q \in Runs : run'[q].pc \in Queued <=> \E i \in 1..Len(chain') : chain'[i] = q
  <2> TAKE q \in Runs
  <2>1. CASE q = r
    <3>1. \A i \in 1..n : i + 1 \in 1..Len(chain) /\ i + 1 # 1
      BY <1>1
    <3>2. 1 \in 1..Len(chain)
      BY <1>1
    <3>3. \A i \in 1..n : chain[i + 1] # r
      BY <1>2, <3>1, <3>2 DEF LockInv
    <3> QED BY <1>1, <2>1, <3>3 DEF Queued, Locked
  <2>2. CASE q # r
    <3>1. run'[q].pc \in Queued <=> \E i \in 1..Len(chain) : chain[i] = q
      BY <2>2 DEF LockInv, Alone
    <3>2. ASSUME NEW i \in 1..Len(chain), chain[i] = q
          PROVE  \E j \in 1..Len(chain') : chain'[j] = q
      <4>1. i # 1
        BY <1>2, <2>2, <3>2
      <4>2. i - 1 \in 1..n /\ (i - 1) + 1 = i
        BY <1>1, <4>1
      <4> QED BY <1>1, <3>2, <4>2
    <3>3. ASSUME NEW j \in 1..Len(chain'), chain'[j] = q
          PROVE  \E i \in 1..Len(chain) : chain[i] = q
      <4>1. j + 1 \in 1..Len(chain) /\ chain[j + 1] = q
        BY <1>1, <3>3
      <4> QED BY <4>1
    <3> QED BY <3>1, <3>2, <3>3
  <2> QED BY <2>1, <2>2
<1>5. \A q \in Runs : run'[q].pc \notin Locked
  BY OneAtWork DEF Alone, Locked
<1> QED BY <1>3, <1>4, <1>5 DEF LockInv

\* A turn keeps the lock in order.
LEMMA HandleLock ==
  ASSUME TypeOK, LockInv, ActionInv, NEW r \in Runs, Handle(r)
  PROVE  LockInv'
<1>1. CASE Departs(r)
  BY <1>1, LockLeft DEF Departs
<1>2. CASE Works(r)
  <2>1. \A q \in Runs : /\ run'[q].pc \in Queued <=> run[q].pc \in Queued
                        /\ run'[q].pc \in Locked => run[q].pc \in Locked \/ HasTurn(q)
    BY <1>2 DEF Works, Alone, HasTurn, Queued
  <2> QED BY <1>2, <2>1, LockKept DEF Works
<1> QED BY <1>1, <1>2, HandleEffect

-----------------------------------------------------------------------------
(* The token and the actions *)

\* What waits is a finite set.
LEMMA WaitingFinite ==
  /\ IsFiniteSet(Actions)
  /\ \A S \in SUBSET Actions : IsFiniteSet(S) /\ Cardinality(S) \in Nat
  /\ Waiting \in SUBSET Actions
<1>1. IsFiniteSet(Actions)
  BY FS_Interval, InboundAssumption DEF Actions
<1>2. \A S \in SUBSET Actions : IsFiniteSet(S) /\ Cardinality(S) \in Nat
  BY <1>1, FS_Subset, FS_CardinalityType
<1> QED BY <1>1, <1>2 DEF Waiting

\* What waits becomes less, or one more.
LEMMA WaitingLess ==
  ASSUME NEW S \in SUBSET Waiting
  PROVE  Cardinality(S) <= Cardinality(Waiting)
  BY WaitingFinite, FS_Subset

\* A turn takes a token once and runs an action once.
LEMMA HandleActions ==
  ASSUME TypeOK, LockInv, ActionInv, NEW r \in Runs, Handle(r)
  PROVE  /\ ActionInv'
         /\ token' \in {"PENDING", "CONSUMED"} /\ handed' \in Nat /\ skipped' \in Nat
         /\ action' \in [Actions -> {"NONE", "PENDING", "CONFIRMED", "REJECTED", "EXPIRED"}]
         /\ executed' \in [Actions -> Nat]
<1>0. /\ token \in {"PENDING", "CONSUMED"} /\ handed \in Nat /\ skipped \in Nat
      /\ action \in [Actions -> {"NONE", "PENDING", "CONFIRMED", "REJECTED", "EXPIRED"}]
      /\ executed \in [Actions -> Nat] /\ run \in [Runs -> Run]
      /\ Cardinality(Waiting) \in Nat
  BY WaitingFinite DEF TypeOK
<1>1. HasTurn(r) /\ Alone(r)
  BY HandleEffect DEF Departs, Works
<1>2. \A q \in Runs \ {r} : run'[q].pc \notin {"tool", "create"}
  BY <1>1, OneAtWork DEF Alone, Locked
<1>3. ASSUME NEW p \in Locked, Goto(r, p) PROVE run'[r].pc = p
  BY <1>0, <1>3, AtIsRun DEF Goto
<1>4. ASSUME NEW step, NEW p \in {"reply", "execute", "expire"}, Patch(r, step, p)
      PROVE  run'[r].pc = p
  BY <1>0, <1>4, AtIsRun, WroteEffect DEF Patch, Locked
<1>5. CASE /\ UNCHANGED <<token, action, handed, executed, skipped>>
           /\ run'[r].pc \notin {"tool", "create"}
  BY <1>0, <1>2, <1>5 DEF ActionInv, Waiting
<1>6. CASE StartFlow(r) \/ FlowTimedOut(r) \/ AnswerRefused(r) \/ AnswerStep(r)
           \/ AnswerLast(r) \/ StepBack(r) \/ Cancel(r)
  <2>1. PICK p \in {"reply", "execute", "expire"} : \E step : Patch(r, step, p)
    BY <1>6 DEF StartFlow, FlowTimedOut, AnswerRefused, AnswerStep, AnswerLast, StepBack, Cancel
  <2>2. UNCHANGED <<token, action, handed, executed, skipped>>
    BY <2>1 DEF Patch, history
  <2>3. run'[r].pc \notin {"tool", "create"}
    BY <1>4, <2>1
  <2> QED BY <1>5, <2>2, <2>3
<1>7. CASE NothingDone(r) \/ NothingWaiting(r) \/ Execute(r)
  <2>1. PICK p \in {"reply", "expire"} : Goto(r, p)
    BY <1>7 DEF NothingDone, NothingWaiting, Execute
  <2>2. UNCHANGED <<token, action, handed, executed, skipped>>
    BY <1>7 DEF NothingDone, NothingWaiting, Execute, acted, history
  <2>3. run'[r].pc \notin {"tool", "create"}
    BY <1>3, <2>1 DEF Locked
  <2> QED BY <1>5, <2>2, <2>3
<1>8. CASE Reply(r)
  <2>1. UNCHANGED <<token, action, handed, executed, skipped>>
    BY <1>8 DEF Reply, acted, history
  <2>2. run'[r].pc \notin {"tool", "create"}
    BY <1>0, <1>8, AtIsRun, WroteEffect DEF Reply, Locked
  <2> QED BY <1>5, <2>1, <2>2
<1>9. CASE Consume(r)
  <2>1. action' = action /\ executed' = executed /\ skipped' = skipped
    BY <1>9 DEF Consume
  <2>2. PICK p \in {"start", "execute", "reply"} : Goto(r, p)
    BY <1>9 DEF Consume
  <2>3. run'[r].pc \notin {"tool", "create"}
    BY <1>3, <2>2 DEF Locked
  <2>4. /\ token' \in {"PENDING", "CONSUMED"} /\ handed' \in Nat
        /\ handed' = IF token' = "PENDING" THEN 0 ELSE 1
    BY <1>0, <1>9 DEF Consume, ActionInv
  <2> QED BY <1>0, <1>2, <2>1, <2>3, <2>4 DEF ActionInv, Waiting
<1>10. CASE ExpirePending(r)
  <2>1. token' = token /\ handed' = handed /\ executed' = executed
    BY <1>10 DEF ExpirePending
  <2>2. PICK p \in {"create", "reply"} : Goto(r, p)
    BY <1>10 DEF ExpirePending
  <2>3. run'[r].pc # "tool"
    BY <1>3, <2>2 DEF Locked
  <2>4. CASE action' = Expired(Waiting) /\ skipped' = skipped
    <3>1. /\ action' \in [Actions -> {"NONE", "PENDING", "CONFIRMED", "REJECTED", "EXPIRED"}]
          /\ \A i \in Actions : /\ action'[i] # "PENDING"
                                /\ action[i] = "CONFIRMED" => action'[i] = "CONFIRMED"
      BY <1>0, <2>4 DEF Expired, Waiting
    <3>2. Waiting' = {}
      BY <3>1 DEF Waiting
    <3>3. Cardinality(Waiting') = 0
      BY <3>2, FS_EmptySet
    <3>4. Cardinality(Waiting') <= 1 + skipped' /\ Cardinality(Waiting') <= skipped'
      BY <1>0, <2>4, <3>3
    <3> QED BY <1>0, <1>2, <2>1, <2>3, <2>4, <3>1, <3>4 DEF ActionInv
  <2>5. CASE skipped' = skipped + 1 /\ action' = action
    <3>1. Waiting' = Waiting
      BY <2>5 DEF Waiting
    <3>2. Cardinality(Waiting) <= 1 + skipped
      BY DEF ActionInv
    <3>3. Cardinality(Waiting') <= 1 + skipped' /\ Cardinality(Waiting') <= skipped'
      BY <1>0, <2>5, <3>1, <3>2
    <3> QED BY <1>0, <1>2, <2>1, <2>3, <2>5, <3>3 DEF ActionInv
  <2> QED BY <1>10, <2>4, <2>5 DEF ExpirePending
<1>11. CASE CreatePending(r)
  <2>1. token' = token /\ handed' = handed /\ executed' = executed /\ skipped' = skipped
    BY <1>11 DEF CreatePending, history
  <2>2. run'[r].pc \notin {"tool", "create"}
    BY <1>3, <1>11 DEF CreatePending, Locked
  <2>3. PICK i \in Actions : action[i] = "NONE" /\ action' = [action EXCEPT ![i] = "PENDING"]
    BY <1>11 DEF CreatePending
  <2>4. Waiting' = Waiting \union {i} /\ i \notin Waiting
    BY <1>0, <2>3 DEF Waiting
  <2>5. Cardinality(Waiting') = Cardinality(Waiting) + 1
    BY <2>4, WaitingFinite, FS_AddElement
  <2>6. Cardinality(Waiting) <= skipped
    BY <1>11 DEF CreatePending, ActionInv
  <2>7. Cardinality(Waiting') <= 1 + skipped'
    BY <1>0, <2>1, <2>5, <2>6
  <2> QED BY <1>0, <1>2, <2>1, <2>2, <2>3, <2>7 DEF ActionInv
<1>12. CASE Confirm(r)
  <2> DEFINE i == CHOOSE i \in Waiting : \A j \in Waiting : j <= i
  <2>1. i \in Actions /\ action[i] = "PENDING"
    BY <1>12, TheNewest DEF Confirm
  <2>2. /\ token' = token /\ handed' = handed /\ executed' = executed /\ skipped' = skipped
        /\ \/ /\ action' = [action EXCEPT ![i] = "CONFIRMED"]
              /\ run' = [run EXCEPT ![r].pc = "tool", ![r].id = i]
           \/ action' = [action EXCEPT ![i] = "REJECTED"] /\ Goto(r, "reply")
    BY <1>12 DEF Confirm, history
  <2> HIDE DEF i
  <2>3. executed[i] = 0
    BY <1>0, <2>1 DEF ActionInv
  <2>4. Waiting' \in SUBSET Waiting
    BY <1>0, <2>1, <2>2 DEF Waiting
  <2>5. Cardinality(Waiting') <= 1 + skipped'
    <3>1. Cardinality(Waiting') <= Cardinality(Waiting)
      BY <2>4, WaitingLess
    <3>2. Cardinality(Waiting') \in Nat
      BY <2>4, WaitingFinite
    <3> QED BY <1>0, <2>2, <3>1, <3>2 DEF ActionInv
  <2>6. CASE /\ action' = [action EXCEPT ![i] = "CONFIRMED"]
             /\ run' = [run EXCEPT ![r].pc = "tool", ![r].id = i]
    <3>1. run'[r].pc = "tool" /\ run'[r].id = i
      BY <1>0, <2>6 DEF Run
    <3> QED BY <1>0, <1>2, <2>1, <2>2, <2>3, <2>5, <2>6, <3>1 DEF ActionInv
  <2>7. CASE action' = [action EXCEPT ![i] = "REJECTED"] /\ Goto(r, "reply")
    <3>1. run'[r].pc = "reply"
      BY <1>3, <2>7 DEF Locked
    <3> QED BY <1>0, <1>2, <2>1, <2>2, <2>3, <2>5, <2>7, <3>1 DEF ActionInv
  <2> QED BY <2>2, <2>6, <2>7
<1>13. CASE RunTool(r)
  <2>1. /\ token' = token /\ handed' = handed /\ action' = action /\ skipped' = skipped
        /\ executed' = [executed EXCEPT ![run[r].id] = @ + 1]
    BY <1>13 DEF RunTool, acted
  <2>2. run'[r].pc \notin {"tool", "create"}
    BY <1>3, <1>13 DEF RunTool, Locked
  <2>3. run[r].id \in Actions /\ action[run[r].id] = "CONFIRMED" /\ executed[run[r].id] = 0
    BY <1>0, <1>13 DEF RunTool, ActionInv, Run
  <2> QED BY <1>0, <1>2, <2>1, <2>2, <2>3 DEF ActionInv, Waiting
<1> QED BY <1>6, <1>7, <1>8, <1>9, <1>10, <1>11, <1>12, <1>13 DEF Handle

\* Steps that touch neither the token nor an action.
LEMMA ActionsKept ==
  ASSUME ActionInv, UNCHANGED <<token, action, handed, executed, skipped>>,
         \A q \in Runs : run'[q].pc \in {"tool", "create"} =>
                           run'[q].pc = run[q].pc /\ run'[q].id = run[q].id
  PROVE  ActionInv'
<1>1. \A q \in Runs : run'[q].pc = "tool" => /\ action'[run'[q].id] = "CONFIRMED"
                                             /\ executed'[run'[q].id] = 0
  BY DEF ActionInv
<1>2. Waiting' = Waiting
  BY DEF Waiting
<1>3. \A q \in Runs : run'[q].pc = "create" => Cardinality(Waiting') <= skipped'
  BY <1>2 DEF ActionInv
<1> QED BY <1>1, <1>2, <1>3 DEF ActionInv

-----------------------------------------------------------------------------
(* The rows of the messages *)

\* A turn leaves the claims of the messages as they are.
LEMMA HandleRow ==
  ASSUME TypeOK, LockInv, RowInv, ActionInv, NEW r \in Runs, Handle(r)
  PROVE  RowInv'
<1>1. row' = row /\ Alone(r) /\ run[r].pc \in Queued
  BY HandleEffect DEF Departs, Works, HasTurn
<1>2. run'[r].pc \in {"finish"} \union Locked /\ run'[r].m = run[r].m
  BY HandleEffect DEF Departs, Works
<1>3. run[r].pc \notin {"idle", "claim"} /\ run'[r].pc # "claim"
  BY <1>1, <1>2 DEF Queued, Locked
<1>4. ASSUME NEW m \in Messages
      PROVE  /\ run'[m].pc # "idle" => run'[m].m = m
             /\ row'[m].status = "NONE" => run'[m].pc = "idle"
             /\ row'[m].status \in {"NONE", "RECEIVED"} => row'[m].attempts = 0
             /\ run'[m].pc = "claim" => row'[m].status = "RECEIVED"
  <2>1. m \in Runs
    BY DEF Runs
  <2>2. CASE m = r
    BY <1>1, <1>2, <1>3, <2>1, <2>2 DEF RowInv
  <2>3. CASE m # r
    BY <1>1, <2>1, <2>3 DEF RowInv, Alone
  <2> QED BY <2>2, <2>3
<1>5. run'[Cron].pc = "claim" => /\ row'[run'[Cron].m].status \notin {"NONE", "RECEIVED"}
                                 /\ row'[run'[Cron].m].attempts < MaxAttempts
  BY <1>1, <1>3 DEF RowInv, Alone, Runs
<1>6. ASSUME NEW q \in Runs, run'[q].pc \notin {"idle", "claim"}
      PROVE  row'[run'[q].m].status \notin {"NONE", "RECEIVED"}
  <2>1. CASE q = r
    BY <1>1, <1>2, <1>3, <1>6, <2>1 DEF RowInv
  <2>2. CASE q # r
    BY <1>1, <1>6, <2>2 DEF RowInv, Alone
  <2> QED BY <2>1, <2>2
<1> QED BY <1>4, <1>5, <1>6 DEF RowInv

\* A turn runs a tool that is not confirmed at most once, and is then past it.
LEMMA HandleRan ==
  ASSUME TypeOK, LockInv, NEW r \in Runs, Handle(r)
  PROVE  /\ slow' = slow /\ ran' \in [Messages -> Nat]
         /\ run'[r].pc \in {"wait", "execute"} => run[r].pc \in {"wait", "execute"}
         /\ \/ ran' = ran /\ (faults' = faults \/ Fault)
            \/ /\ ran' = [ran EXCEPT ![run[r].m] = @ + 1] /\ faults' = faults
               /\ run[r].pc \in {"wait", "execute"} /\ run'[r].pc = "reply"
<1>0. ran \in [Messages -> Nat] /\ run \in [Runs -> Run] /\ run[r].m \in Messages
  BY DEF TypeOK, Run
<1>1. ASSUME NEW p \in Locked, Goto(r, p) PROVE run'[r].pc = p
  BY <1>0, <1>1, AtIsRun DEF Goto
<1>2. CASE Execute(r)
  <2>1. slow' = slow /\ faults' = faults /\ run[r].pc \in {"wait", "execute"}
    BY <1>2 DEF Execute, Turn
  <2>2. \/ ran' = ran
        \/ ran' = [ran EXCEPT ![run[r].m] = @ + 1] /\ Goto(r, "reply")
    BY <1>2 DEF Execute
  <2> QED BY <1>0, <1>1, <2>1, <2>2 DEF Locked
<1>3. CASE AnswerLast(r) \/ Consume(r)
  <2>1. run[r].pc = "wait" /\ slow' = slow /\ ran' = ran /\ faults' = faults
    BY <1>3 DEF AnswerLast, Consume, Turn, Patch, history
  <2> QED BY <1>0, <2>1
<1>4. CASE StartFlow(r) \/ FlowTimedOut(r) \/ AnswerRefused(r) \/ AnswerStep(r)
           \/ StepBack(r) \/ Cancel(r)
  <2>1. PICK p \in {"reply", "expire"} : \E step : Patch(r, step, p)
    BY <1>4 DEF StartFlow, FlowTimedOut, AnswerRefused, AnswerStep, StepBack, Cancel
  <2>2. run'[r].pc = p
    BY <1>0, <2>1, AtIsRun, WroteEffect DEF Patch, Locked
  <2>3. slow' = slow /\ ran' = ran /\ faults' = faults
    BY <2>1 DEF Patch, history
  <2> QED BY <1>0, <2>2, <2>3
<1>5. CASE NothingDone(r) \/ NothingWaiting(r) \/ CreatePending(r) \/ RunTool(r)
           \/ ExpirePending(r)
  <2>1. PICK p \in {"reply", "create"} : Goto(r, p)
    BY <1>5 DEF NothingDone, NothingWaiting, CreatePending, RunTool, ExpirePending
  <2>2. run'[r].pc = p
    BY <1>1, <2>1 DEF Locked
  <2>3. slow' = slow /\ ran' = ran /\ (faults' = faults \/ Fault)
    BY <1>5 DEF NothingDone, NothingWaiting, CreatePending, RunTool, ExpirePending, history
  <2> QED BY <1>0, <2>2, <2>3
<1>6. CASE Confirm(r)
  <2>1. slow' = slow /\ ran' = ran /\ faults' = faults
    BY <1>6 DEF Confirm, history
  <2>2. CASE Goto(r, "reply")
    <3>1. run'[r].pc = "reply"
      BY <1>1, <2>2 DEF Locked
    <3> QED BY <1>0, <2>1, <3>1
  <2>3. CASE \E i : run' = [run EXCEPT ![r].pc = "tool", ![r].id = i]
    <3>1. run'[r].pc = "tool"
      BY <1>0, <2>3 DEF Run
    <3> QED BY <1>0, <2>1, <3>1
  <2> QED BY <1>6, <2>2, <2>3 DEF Confirm
<1>7. CASE Reply(r)
  <2>1. slow' = slow /\ ran' = ran /\ faults' = faults
    BY <1>7 DEF Reply, history
  <2>2. run'[r].pc = "finish"
    BY <1>0, <1>7, AtIsRun, WroteEffect DEF Reply
  <2> QED BY <1>0, <2>1, <2>2
<1> QED BY <1>2, <1>3, <1>4, <1>5, <1>6, <1>7 DEF Handle

\* Every action of a turn keeps the invariant.
LEMMA HandleSafe ==
  ASSUME InboundInv, NEW r \in Runs, Handle(r)
  PROVE  InboundInv'
<1>1. TypeOK /\ LockInv /\ RowInv /\ ActionInv
  BY DEF InboundInv
<1>2. LockInv' /\ RowInv' /\ ActionInv'
  BY <1>1, HandleLock, HandleRow, HandleActions
<1>3. chain' \in Seq(Runs)
  BY <1>1, HandleEffect, TailOf DEF Departs, Works, HasTurn, TypeOK
<1>4. TypeOK'
  BY <1>1, <1>3, HandleEffect, HandleActions, HandleRan DEF TypeOK
<1> QED BY <1>2, <1>4 DEF InboundInv

-----------------------------------------------------------------------------
(* The webhook, the claims, the job *)

\* The webhook inserts a message once, and runs it.
LEMMA ReceiveSafe ==
  ASSUME InboundInv, NEW m \in Messages, Receive(m)
  PROVE  InboundInv'
<1>0. m \in Runs /\ m # Cron /\ row[m].status = "NONE" /\ run[m].pc = "idle" /\ row[m].attempts = 0
  BY InboundAssumption DEF Receive, InboundInv, RowInv, Runs
<1>1. row \in [Messages -> Row] /\ run \in [Runs -> Run]
  BY DEF InboundInv, TypeOK
<1> DEFINE next == [IdleRun EXCEPT !.pc = "claim", !.m = m]
<1>2. next \in Run /\ next.pc = "claim" /\ next.m = m
  BY IdleIsRun DEF Run
<1> HIDE DEF next
<1>3. /\ run' = [run EXCEPT ![m] = next] /\ run' \in [Runs -> Run]
      /\ run'[m] = next /\ \A q \in Runs \ {m} : run'[q] = run[q]
  BY <1>0, <1>1, <1>2 DEF Receive, next
<1>4. row' = [row EXCEPT ![m].status = "RECEIVED"]
  BY DEF Receive
<1>5. /\ row' \in [Messages -> Row] /\ row'[m].status = "RECEIVED" /\ row'[m].attempts = 0
      /\ \A o \in Messages \ {m} : row'[o] = row[o]
  BY <1>0, <1>1, <1>4 DEF Row
<1>6. TypeOK'
  BY <1>3, <1>5 DEF InboundInv, TypeOK, Receive, acted, history
<1>7. LockInv'
  BY <1>0, <1>2, <1>3, LockKept DEF InboundInv, Receive, Queued, Locked
<1>8. ActionInv'
  BY <1>0, <1>2, <1>3, ActionsKept DEF InboundInv, Receive, acted, history
<1>9. RowInv'
  <2>1. RowInv
    BY DEF InboundInv
  <2>2. \A o \in Messages : /\ run'[o].pc # "idle" => run'[o].m = o
                            /\ row'[o].status = "NONE" => run'[o].pc = "idle"
                            /\ row'[o].status \in {"NONE", "RECEIVED"} => row'[o].attempts = 0
                            /\ run'[o].pc = "claim" => row'[o].status = "RECEIVED"
    BY <1>2, <1>3, <1>5, <2>1 DEF RowInv, Runs
  <2>3. \A q \in Runs \ {m} : run'[q].pc # "idle" =>
            /\ run'[q] = run[q] /\ run[q].m \in Messages
            /\ run[q].m # m
    BY <1>0, <1>1, <1>3, <2>1 DEF RowInv, Runs, Run
  <2>4. run'[Cron].pc = "claim" => /\ row'[run'[Cron].m].status \notin {"NONE", "RECEIVED"}
                                   /\ row'[run'[Cron].m].attempts < MaxAttempts
    BY <1>0, <1>5, <2>1, <2>3 DEF RowInv, Runs
  <2>5. \A q \in Runs : run'[q].pc \notin {"idle", "claim"} =>
                          row'[run'[q].m].status \notin {"NONE", "RECEIVED"}
    BY <1>2, <1>3, <1>5, <2>1, <2>3 DEF RowInv
  <2> QED BY <2>2, <2>4, <2>5 DEF RowInv
<1> QED BY <1>6, <1>7, <1>8, <1>9 DEF InboundInv

\* What claims a message has an attempt left for it.
LEMMA ClaimHasAttempt ==
  ASSUME InboundInv, NEW r \in Runs, run[r].pc = "claim", MayRun(r)
  PROVE  /\ run[r].m \in Messages
         /\ row[run[r].m].attempts + 1 \in 0..MaxAttempts
         /\ \A q \in Runs \ {r} : run[q].pc = "claim" => run[q].m # run[r].m
<1>1. row \in [Messages -> Row] /\ run \in [Runs -> Run] /\ RowInv
  BY DEF InboundInv, TypeOK
<1>2. run[r].m \in Messages /\ row[run[r].m].attempts \in 0..MaxAttempts
  BY <1>1 DEF Run, Row
<1>3. row[run[r].m].attempts < MaxAttempts
  BY <1>1, InboundAssumption DEF RowInv, Runs
<1>4. ASSUME NEW q \in Runs \ {r}, run[q].pc = "claim" PROVE run[q].m # run[r].m
  BY <1>1, <1>4, InboundAssumption DEF RowInv, Runs
<1>5. row[run[r].m].attempts + 1 \in 0..MaxAttempts
  BY <1>2, <1>3, InboundAssumption
<1> QED BY <1>2, <1>4, <1>5

\* The row of one message moves on; the runs stay where they are, or end, or begin
\* the work on it.
LEMMA RowsMoved ==
  ASSUME TypeOK, RowInv, NEW o \in Messages,
         row'[o].status \notin {"NONE", "RECEIVED"},
         \A n \in Messages \ {o} : row'[n] = row[n],
         \A q \in Runs :
           \/ run'[q].pc = "idle"
           \/ /\ run'[q].pc = "claim" /\ run[q].pc = "claim" /\ run'[q].m = run[q].m
              /\ run[q].m = o => q = Cron /\ row'[o].attempts = row[o].attempts
           \/ /\ run'[q].pc \notin {"idle", "claim"} /\ run'[q].m = run[q].m
              /\ run[q].pc # "idle" /\ (run[q].pc = "claim" => run[q].m = o)
  PROVE  RowInv'
<1>1. \A q \in Runs : run[q].m \in Messages
  BY DEF TypeOK, Run
<1>2. ASSUME NEW m \in Messages
      PROVE  /\ run'[m].pc # "idle" => run'[m].m = m
             /\ row'[m].status = "NONE" => run'[m].pc = "idle"
             /\ row'[m].status \in {"NONE", "RECEIVED"} => row'[m].attempts = 0
             /\ run'[m].pc = "claim" => row'[m].status = "RECEIVED"
  <2>1. m \in Runs /\ m # Cron
    BY InboundAssumption DEF Runs
  <2>2. CASE m = o
    BY <2>1, <2>2 DEF RowInv
  <2>3. CASE m # o
    BY <2>1, <2>3 DEF RowInv
  <2> QED BY <2>2, <2>3
<1>3. run'[Cron].pc = "claim" => /\ row'[run'[Cron].m].status \notin {"NONE", "RECEIVED"}
                                 /\ row'[run'[Cron].m].attempts < MaxAttempts
  BY <1>1 DEF RowInv, Runs
<1>4. \A q \in Runs : run'[q].pc \notin {"idle", "claim"} =>
                        row'[run'[q].m].status \notin {"NONE", "RECEIVED"}
  BY <1>1 DEF RowInv
<1> QED BY <1>2, <1>3, <1>4 DEF RowInv

\* A run claims its message, reads the session and arrives at the lock.
LEMMA EnterSafe ==
  ASSUME InboundInv, NEW r \in Runs, Enter(r) \/ Ignore(r)
  PROVE  InboundInv'
<1>0. TypeOK /\ LockInv /\ RowInv /\ ActionInv
  BY DEF InboundInv
<1>1. row \in [Messages -> Row] /\ run \in [Runs -> Run] /\ chain \in Seq(Runs)
      /\ flowStep \in 0..Late
  BY <1>0 DEF TypeOK
<1> DEFINE o == run[r].m
<1>2. /\ run[r].pc = "claim" /\ o \in Messages /\ row[o].attempts + 1 \in 0..MaxAttempts
      /\ \A q \in Runs \ {r} : run[q].pc = "claim" => run[q].m # o
  BY ClaimHasAttempt DEF Enter, Ignore
<1> HIDE DEF o
<1>3. /\ row' \in [Messages -> Row] /\ row'[o].status \in {"PROCESSING", "IGNORED"}
      /\ row'[o].attempts = row[o].attempts + 1
      /\ \A n \in Messages \ {o} : row'[n] = row[n]
  BY <1>1, <1>2 DEF Enter, Ignore, Processing, Row, o
<1>4. /\ run' \in [Runs -> Run] /\ run'[r].m = run[r].m
      /\ \A q \in Runs \ {r} : run'[q] = run[q]
      /\ Enter(r) => run'[r].pc = "wait"
      /\ Ignore(r) => run'[r].pc = "finish"
  <2>1. CASE Enter(r)
    <3>1. run' = [run EXCEPT ![r].pc = "wait", ![r].step = flowStep, ![r].fresh = TRUE]
      BY <2>1 DEF Enter, Entered
    <3>2. ~Ignore(r)
      BY <1>0, <1>1, <3>1, AtIsRun DEF Ignore, Goto, Run
    <3> QED BY <1>1, <2>1, <3>1, <3>2 DEF Run
  <2>2. CASE Ignore(r)
    <3>1. run' = [run EXCEPT ![r] = At(r, "finish")]
      BY <2>2 DEF Ignore, Goto
    <3>2. At(r, "finish") \in Run /\ At(r, "finish").pc = "finish" /\ At(r, "finish").m = run[r].m
      BY <1>0, AtIsRun
    <3>3. ~Enter(r)
      BY <1>1, <3>1, <3>2 DEF Enter, Entered, Run
    <3> QED BY <1>1, <2>2, <3>1, <3>2, <3>3
  <2> QED BY <2>1, <2>2
<1>5. run'[r].pc \in {"wait", "finish"}
  BY <1>4
<1>6. TypeOK'
  <2>1. chain' \in Seq(Runs)
    BY <1>1, AppendOf DEF Enter, Ignore
  <2> QED BY <1>0, <1>3, <1>4, <2>1 DEF TypeOK, Enter, Ignore, acted, history
<1>7. LockInv'
  <2>1. CASE Enter(r)
    BY <1>0, <1>2, <1>4, <2>1, LockEntered DEF Alone, Enter
  <2>2. CASE Ignore(r)
    BY <1>0, <1>2, <1>4, <2>2, LockKept DEF Ignore, Queued, Locked
  <2> QED BY <2>1, <2>2
<1>8. ActionInv'
  BY <1>0, <1>4, <1>5, ActionsKept DEF Enter, Ignore, acted, history
<1>9. RowInv'
  <2>1. \A q \in Runs \ {r} : \/ run'[q].pc = "idle"
                              \/ /\ run'[q].pc = "claim" /\ run[q].pc = "claim"
                                 /\ run'[q].m = run[q].m /\ run[q].m # o
                              \/ /\ run'[q].pc \notin {"idle", "claim"} /\ run'[q].m = run[q].m
                                 /\ run[q].pc \notin {"idle", "claim"}
    BY <1>2, <1>4
  <2> QED BY <1>0, <1>2, <1>3, <1>4, <1>5, <2>1, RowsMoved DEF o
<1> QED BY <1>6, <1>7, <1>8, <1>9 DEF InboundInv

\* A run ends, its message done or put down as failed, in its turn or after it.
LEMMA EndSafe ==
  ASSUME InboundInv, NEW r \in Runs, Finish(r) \/ Throw(r)
  PROVE  InboundInv'
<1>0. TypeOK /\ LockInv /\ RowInv /\ ActionInv
  BY DEF InboundInv
<1>1. row \in [Messages -> Row] /\ run \in [Runs -> Run] /\ chain \in Seq(Runs)
  BY <1>0 DEF TypeOK
<1> DEFINE o == run[r].m
<1>2. /\ run[r].pc \in {"finish", "wait"} \union Locked /\ o \in Messages
      /\ row[o].status \notin {"NONE", "RECEIVED"}
  BY <1>0, <1>1 DEF Finish, Throw, RowInv, Run, Locked
<1> HIDE DEF o
<1>3. /\ row' \in [Messages -> Row] /\ row'[o].status \notin {"NONE", "RECEIVED"}
      /\ row'[o].attempts = row[o].attempts
      /\ \A n \in Messages \ {o} : row'[n] = row[n]
  <2>1. row' = row \/ \E x \in {"DONE", "FAILED"} : row' = [row EXCEPT ![o].status = x]
    BY DEF Finish, Throw, o
  <2> QED BY <1>1, <1>2, <2>1 DEF Row
<1>4. /\ run' \in [Runs -> Run] /\ run'[r].pc = "idle"
      /\ \A q \in Runs \ {r} : run'[q] = run[q]
  BY <1>1, IdleIsRun DEF Finish, Throw, End
<1>5. RowInv'
  <2>1. \A q \in Runs \ {r} : run[q].pc = "claim" /\ run[q].m = o => q = Cron
    BY <1>0, <1>2 DEF RowInv, Runs
  <2>2. \A q \in Runs \ {r} :
          \/ run'[q].pc = "idle"
          \/ /\ run'[q].pc = "claim" /\ run[q].pc = "claim" /\ run'[q].m = run[q].m
             /\ run[q].m = o => q = Cron /\ row'[o].attempts = row[o].attempts
          \/ /\ run'[q].pc \notin {"idle", "claim"} /\ run'[q].m = run[q].m
             /\ run[q].pc # "idle" /\ (run[q].pc = "claim" => run[q].m = o)
    BY <1>3, <1>4, <2>1
  <2> QED BY <1>0, <1>2, <1>3, <1>4, <2>2, RowsMoved
<1>6. CASE Finish(r)
  <2>1. TypeOK'
    <3>1. faults' \in 0..MaxFaults
      BY <1>0, <1>6, InboundAssumption DEF TypeOK, Finish, Fault
    <3> QED BY <1>0, <1>3, <1>4, <1>6, <3>1 DEF TypeOK, Finish, acted, history
  <2>2. LockInv'
    BY <1>0, <1>4, <1>6, LockKept DEF Finish, Queued, Locked
  <2>3. ActionInv'
    BY <1>0, <1>4, <1>6, ActionsKept DEF Finish, acted, history
  <2> QED BY <2>1, <2>2, <2>3, <1>5 DEF InboundInv
<1>7. CASE Throw(r)
  <2>1. HasTurn(r)
    BY <1>0, <1>7, TurnOf DEF Throw, Queued
  <2>2. chain' = Tail(chain) /\ chain' \in Seq(Runs)
    BY <1>1, <1>7, <2>1, TailOf DEF Throw, HasTurn
  <2>3. TypeOK'
    <3>1. faults' \in 0..MaxFaults
      BY <1>0, <1>7, InboundAssumption DEF TypeOK, Throw, Fault
    <3> QED BY <1>0, <1>3, <1>4, <1>7, <2>2, <3>1 DEF TypeOK, Throw, acted, history
  <2>4. LockInv'
    BY <1>0, <1>4, <2>1, <2>2, LockLeft DEF Alone
  <2>5. ActionInv'
    BY <1>0, <1>4, <1>7, ActionsKept DEF Throw, acted, history
  <2> QED BY <1>5, <2>3, <2>4, <2>5 DEF InboundInv
<1> QED BY <1>6, <1>7

\* A run finds itself at the head of the lock.
LEMMA PassSafe ==
  ASSUME InboundInv, NEW r \in Runs, Pass(r)
  PROVE  InboundInv'
<1>0. TypeOK /\ LockInv /\ RowInv /\ ActionInv
  BY DEF InboundInv
<1>1. /\ run' \in [Runs -> Run] /\ run'[r].pc = "idle" /\ run[r].pc = "claim"
      /\ \A q \in Runs \ {r} : run'[q] = run[q]
  BY <1>0, IdleIsRun DEF TypeOK, Pass, End
<1>2. TypeOK'
  BY <1>0, <1>1 DEF TypeOK, Pass, acted, history
<1>3. LockInv'
  BY <1>0, <1>1, LockKept DEF Pass, Queued, Locked
<1>4. ActionInv'
  BY <1>0, <1>1, ActionsKept DEF Pass, acted, history
<1>5. RowInv'
  BY <1>0, <1>1, InboundAssumption DEF RowInv, Pass, Runs
<1> QED BY <1>2, <1>3, <1>4, <1>5 DEF InboundInv

\* The retry job takes up a message that failed or was given up.
LEMMA JobSafe ==
  ASSUME InboundInv, NEW m \in Messages, Job(m)
  PROVE  InboundInv'
<1>0. TypeOK /\ LockInv /\ RowInv /\ ActionInv
  BY DEF InboundInv
<1>1. row \in [Messages -> Row] /\ run \in [Runs -> Run] /\ m \in Runs /\ m # Cron
      /\ Cron \in Runs
  BY <1>0, InboundAssumption DEF TypeOK, Runs
<1>2. CASE RecoverStuck(m)
  <2>1. /\ run' = run /\ row' \in [Messages -> Row] /\ row[m].status = "PROCESSING"
        /\ row'[m].status = "FAILED" /\ row'[m].attempts = row[m].attempts
        /\ \A n \in Messages \ {m} : row'[n] = row[n]
    BY <1>1, <1>2 DEF RecoverStuck, Row
  <2>2. TypeOK'
    <3>1. slow' \in [Messages -> Nat]
      BY <1>0, <1>2 DEF RecoverStuck, TypeOK
    <3> QED BY <1>0, <1>2, <2>1, <3>1 DEF TypeOK, RecoverStuck, acted
  <2>3. LockInv'
    BY <1>0, <1>2, <2>1, LockKept DEF RecoverStuck
  <2>4. ActionInv'
    BY <1>0, <1>2, <2>1, ActionsKept DEF RecoverStuck, acted
  <2>5. RowInv'
    <3>1. \A q \in Runs : run[q].pc = "claim" /\ run[q].m = m => q = Cron
      BY <1>0, <2>1 DEF RowInv, Runs
    <3> QED BY <1>0, <2>1, <3>1, RowsMoved
  <2> QED BY <2>2, <2>3, <2>4, <2>5 DEF InboundInv
<1>3. CASE Retry(m)
  <2> DEFINE next == [IdleRun EXCEPT !.pc = "claim", !.m = m]
  <2>1. next \in Run /\ next.pc = "claim" /\ next.m = m
    BY IdleIsRun DEF Run
  <2> HIDE DEF next
  <2>2. /\ row' = row /\ run[Cron].pc = "idle" /\ run' = [run EXCEPT ![Cron] = next]
        /\ row[m].status = "FAILED" /\ row[m].attempts < MaxAttempts
    BY <1>3 DEF Retry, next
  <2>3. /\ run' \in [Runs -> Run] /\ run'[Cron].pc = "claim" /\ run'[Cron].m = m
        /\ \A q \in Runs \ {Cron} : run'[q] = run[q]
    BY <1>1, <2>1, <2>2
  <2>4. TypeOK'
    BY <1>0, <1>3, <2>2, <2>3 DEF TypeOK, Retry, acted, history
  <2>5. LockInv'
    BY <1>0, <1>3, <2>2, <2>3, LockKept DEF Retry, Queued, Locked
  <2>6. ActionInv'
    BY <1>0, <1>3, <2>3, ActionsKept DEF Retry, acted, history
  <2>7. RowInv'
    BY <1>0, <2>2, <2>3, InboundAssumption DEF RowInv, Runs
  <2> QED BY <2>4, <2>5, <2>6, <2>7 DEF InboundInv
<1> QED BY <1>2, <1>3 DEF Job

\* The process dies: the runs and the lock are gone, the rows stay.
LEMMA CrashSafe ==
  ASSUME InboundInv, Crash
  PROVE  InboundInv'
<1>0. TypeOK /\ RowInv /\ ActionInv
  BY DEF InboundInv
<1>1. /\ run' \in [Runs -> Run] /\ \A q \in Runs : run'[q].pc = "idle"
      /\ row' = row /\ chain' = <<>>
  BY IdleIsRun DEF Crash
<1>2. TypeOK'
  BY <1>0, <1>1, InboundAssumption DEF TypeOK, Crash, Fault, acted, history
<1>3. LockInv'
  BY <1>1 DEF LockInv, Queued, Locked
<1>4. ActionInv'
  BY <1>0, <1>1, ActionsKept DEF Crash, acted, history
<1>5. RowInv'
  BY <1>0, <1>1 DEF RowInv, Runs
<1> QED BY <1>2, <1>3, <1>4, <1>5 DEF InboundInv

\* Time passes: the flow of the session expires.
LEMMA ExpirySafe ==
  ASSUME InboundInv, FlowExpires \/ UNCHANGED vars
  PROVE  InboundInv'
<1>0. TypeOK /\ LockInv /\ RowInv /\ ActionInv
  BY DEF InboundInv
<1>1. /\ UNCHANGED <<row, run, chain, token, action, faults, handed, executed, ran, slow, skipped>>
      /\ flowStep' \in {flowStep, Late}
  BY DEF FlowExpires, vars, acted, history
<1>2. Late \in 0..Late
  BY InboundAssumption DEF Late
<1>3. TypeOK'
  BY <1>0, <1>1, <1>2 DEF TypeOK
<1>4. LockInv' /\ ActionInv' /\ RowInv'
  BY <1>0, <1>1 DEF LockInv, ActionInv, RowInv, Waiting
<1> QED BY <1>3, <1>4 DEF InboundInv

\* The sweep: fewer wait.
LEMMA SweepSafe ==
  ASSUME InboundInv, NEW i \in Actions, Sweep(i)
  PROVE  InboundInv'
<1>0. TypeOK /\ LockInv /\ RowInv /\ ActionInv
  BY DEF InboundInv
<1>1. UNCHANGED <<row, run, chain, flowStep, token, faults, handed, executed, ran, slow, skipped>>
  BY DEF Sweep, history
<1>2. /\ action' \in [Actions -> {"NONE", "PENDING", "CONFIRMED", "REJECTED", "EXPIRED"}]
      /\ \A j \in Actions : action[j] = "CONFIRMED" => action'[j] = "CONFIRMED"
      /\ Waiting' \in SUBSET Waiting
  BY <1>0 DEF Sweep, Expired, Waiting, TypeOK
<1>3. Cardinality(Waiting') <= Cardinality(Waiting)
  BY <1>2, WaitingLess
<1>4. Cardinality(Waiting') \in Nat /\ Cardinality(Waiting) \in Nat /\ skipped \in Nat
  BY <1>0, <1>2, WaitingFinite DEF TypeOK
<1>5. /\ Cardinality(Waiting') <= 1 + skipped
      /\ Cardinality(Waiting) <= skipped => Cardinality(Waiting') <= skipped
  BY <1>0, <1>3, <1>4 DEF ActionInv
<1>6. ActionInv'
  <2>1. \A r \in Runs : run[r].pc = "tool" => run[r].id \in Actions
    BY <1>0 DEF TypeOK, Run
  <2> QED BY <1>0, <1>1, <1>2, <1>5, <2>1 DEF ActionInv
<1>7. TypeOK'
  BY <1>0, <1>1, <1>2 DEF TypeOK
<1>8. LockInv' /\ RowInv'
  BY <1>0, <1>1 DEF LockInv, RowInv
<1> QED BY <1>6, <1>7, <1>8 DEF InboundInv

-----------------------------------------------------------------------------
(* The theorems *)

\* No message has arrived.
LEMMA InvInit == Init => InboundInv
<1> SUFFICES ASSUME Init PROVE InboundInv
  OBVIOUS
<1>1. TypeOK
  <2>1. PICK c \in Chats :
          /\ row = [m \in Messages |-> [status |-> "NONE", kind |-> c.says[m], attempts |-> 0]]
          /\ flowStep = c.step
    BY DEF Init
  <2>2. c.says \in [Messages -> Kinds] /\ c.step \in 0..Late
    BY InboundAssumption DEF Chat, Late
  <2>3. row \in [Messages -> Row]
    BY <2>1, <2>2, InboundAssumption DEF Row
  <2> QED BY <2>1, <2>2, <2>3, IdleIsRun, InboundAssumption DEF Init, TypeOK
<1>2. LockInv
  BY IdleIsRun DEF Init, LockInv, Queued, Locked
<1>3. RowInv
  BY IdleIsRun DEF Init, RowInv, Runs
<1>4. ActionInv
  <2>1. Waiting = {}
    BY DEF Init, Waiting
  <2>2. Cardinality(Waiting) = 0
    BY <2>1, FS_EmptySet
  <2> QED BY <2>2, IdleIsRun DEF Init, ActionInv
<1> QED BY <1>1, <1>2, <1>3, <1>4 DEF InboundInv

\* Every step keeps the invariant.
LEMMA InvStep == InboundInv /\ [Next]_vars => InboundInv'
<1> SUFFICES ASSUME InboundInv, [Next]_vars PROVE InboundInv'
  OBVIOUS
<1>1. ASSUME NEW m \in Messages, Receive(m) \/ Job(m) PROVE InboundInv'
  BY <1>1, ReceiveSafe, JobSafe
<1>2. ASSUME NEW r \in Runs, Process(r) \/ Throw(r) PROVE InboundInv'
  BY <1>2, HandleSafe, EnterSafe, EndSafe, PassSafe DEF Process, Handle
<1> QED BY <1>1, <1>2, CrashSafe, ExpirySafe, SweepSafe DEF Next

\* Whatever arrives, fails, dies, is slow and is run again.
THEOREM InboundCorrect == Spec => []InboundInv
<1> QED BY InvInit, InvStep, PTL DEF Spec

\* Types, and with them the bound of the job: no message is run more often than
\* MaxAttempts.
THEOREM InboundTyped == Spec => []TypeOK
<1>1. InboundInv => TypeOK
  BY DEF InboundInv
<1> QED BY <1>1, InboundCorrect, PTL

\* The arguments of a token are given out once, a confirmed action runs once,
\* however often a message is delivered, sent or run.
THEOREM ActsOnce == Spec => []DecidedOnce
<1>1. InboundInv => DecidedOnce
  BY DEF InboundInv, ActionInv, DecidedOnce
<1> QED BY <1>1, InboundCorrect, PTL

\* A YES has one thing to confirm, and what failed expiries left.
THEOREM OneToConfirm == Spec => []OneWaiting
<1>1. InboundInv => OneWaiting
  BY DEF InboundInv, ActionInv, OneWaiting
<1> QED BY <1>1, InboundCorrect, PTL

-----------------------------------------------------------------------------
(* The attempts of a message *)

\* A claimed run that may yet run a tool that is not confirmed.
Unasked(r, m) == IF run[r].m = m /\ run[r].pc \in {"wait", "execute"} THEN 1 ELSE 0

\* What the attempts of a message are owed to.
Mishaps(m) == faults + slow[m]

\* The first attempt is free, the others are for mishaps; the one a message has ahead
\* of it was paid for before.  An attempt runs the tool once.
TriesInv == \A m \in Messages :
    /\ row[m].attempts <= 1 + Mishaps(m)
    /\ row[m].status = "FAILED" => row[m].attempts <= Mishaps(m)
    /\ row[m].status = "PROCESSING" /\ ~Running(m) => row[m].attempts <= Mishaps(m)
    /\ ran[m] + Unasked(m, m) + Unasked(Cron, m) <= row[m].attempts

\* The numbers it is about.
LEMMA TriesAreNumbers ==
  ASSUME TypeOK, NEW m \in Messages
  PROVE  /\ row[m].attempts \in Nat /\ ran[m] \in Nat /\ slow[m] \in Nat /\ faults \in Nat
         /\ \A r \in Runs : Unasked(r, m) \in {0, 1}
         /\ m \in Runs /\ Cron \in Runs /\ m # Cron
  BY InboundAssumption DEF TypeOK, Row, Unasked, Runs

\* A fault pays for the next attempt, whatever it leaves behind.
LEMMA TriesAfterFault ==
  ASSUME TypeOK, TypeOK', TriesInv, faults' = faults + 1, slow' = slow, ran' = ran,
         \A m \in Messages : row'[m].attempts = row[m].attempts,
         \A m \in Messages, r \in Runs : Unasked(r, m)' <= Unasked(r, m)
  PROVE  TriesInv'
<1> SUFFICES ASSUME NEW m \in Messages
             PROVE  /\ row'[m].attempts <= Mishaps(m)'
                    /\ row'[m].attempts <= 1 + Mishaps(m)'
                    /\ ran'[m] + Unasked(m, m)' + Unasked(Cron, m)' <= row'[m].attempts
  BY DEF TriesInv
<1>1. /\ row[m].attempts \in Nat /\ ran[m] \in Nat /\ slow[m] \in Nat /\ faults \in Nat
      /\ Unasked(m, m) \in {0, 1} /\ Unasked(Cron, m) \in {0, 1}
      /\ Unasked(m, m)' \in {0, 1} /\ Unasked(Cron, m)' \in {0, 1}
      /\ Unasked(m, m)' <= Unasked(m, m) /\ Unasked(Cron, m)' <= Unasked(Cron, m)
  BY TriesAreNumbers DEF Unasked
<1>2. /\ row[m].attempts <= 1 + (faults + slow[m])
      /\ ran[m] + Unasked(m, m) + Unasked(Cron, m) <= row[m].attempts
  BY DEF TriesInv, Mishaps
<1>3. row'[m].attempts <= faults' + slow'[m]
  BY <1>1, <1>2
<1>4. ran'[m] + Unasked(m, m)' + Unasked(Cron, m)' <= row'[m].attempts
  BY <1>1, <1>2
<1> QED BY <1>1, <1>3, <1>4 DEF Mishaps

\* Without a fault: no message fails or is left without a run.
LEMMA TriesKept ==
  ASSUME TypeOK, TypeOK', TriesInv, faults' = faults, slow' = slow,
         \A m \in Messages :
           /\ row'[m].attempts = row[m].attempts
           /\ row'[m].status \in {"FAILED", "PROCESSING"} => row'[m].status = row[m].status
           /\ row'[m].status = "PROCESSING" /\ Running(m) => Running(m)'
           /\ ran'[m] + Unasked(m, m)' + Unasked(Cron, m)' <=
                ran[m] + Unasked(m, m) + Unasked(Cron, m)
  PROVE  TriesInv'
<1> SUFFICES ASSUME NEW m \in Messages
             PROVE  /\ row'[m].attempts <= 1 + Mishaps(m)'
                    /\ row'[m].status = "FAILED" => row'[m].attempts <= Mishaps(m)'
                    /\ row'[m].status = "PROCESSING" /\ ~Running(m)'
                         => row'[m].attempts <= Mishaps(m)'
                    /\ ran'[m] + Unasked(m, m)' + Unasked(Cron, m)' <= row'[m].attempts
  BY DEF TriesInv
<1>1. /\ row[m].attempts \in Nat /\ ran[m] \in Nat /\ ran'[m] \in Nat
      /\ Unasked(m, m) \in {0, 1} /\ Unasked(Cron, m) \in {0, 1}
      /\ Unasked(m, m)' \in {0, 1} /\ Unasked(Cron, m)' \in {0, 1}
  BY TriesAreNumbers DEF Unasked, TypeOK
<1>2. Mishaps(m)' = Mishaps(m)
  BY DEF Mishaps
<1>3. ran'[m] + Unasked(m, m)' + Unasked(Cron, m)' <= row'[m].attempts
  <2>1. ran[m] + Unasked(m, m) + Unasked(Cron, m) <= row[m].attempts
    BY DEF TriesInv
  <2> QED BY <1>1, <2>1
<1> QED BY <1>2, <1>3 DEF TriesInv

\* A turn: its run stays with its message.
LEMMA HandleTries ==
  ASSUME InboundInv, InboundInv', TriesInv, NEW r \in Runs, Handle(r)
  PROVE  TriesInv'
<1>0. TypeOK /\ LockInv /\ RowInv /\ TypeOK' /\ run[r].m \in Messages
  BY DEF InboundInv, TypeOK, Run
<1>1. row' = row /\ Alone(r) /\ run[r].pc \in Queued
  BY <1>0, HandleEffect DEF Departs, Works, HasTurn
<1>2. run'[r].m = run[r].m /\ run'[r].pc \notin {"idle", "claim"}
  BY <1>0, HandleEffect DEF Departs, Works, Locked
<1>3. run[r].pc \notin {"idle", "claim"}
  BY <1>1 DEF Queued, Locked
<1>4. \A m \in Messages : Running(m)' <=> Running(m)
  BY <1>1, <1>2, <1>3 DEF Running, Alone
<1>5. /\ slow' = slow /\ ran' \in [Messages -> Nat] /\ ran \in [Messages -> Nat]
      /\ run'[r].pc \in {"wait", "execute"} => run[r].pc \in {"wait", "execute"}
      /\ \/ ran' = ran /\ (faults' = faults \/ Fault)
         \/ /\ ran' = [ran EXCEPT ![run[r].m] = @ + 1] /\ faults' = faults
            /\ run[r].pc \in {"wait", "execute"} /\ run'[r].pc = "reply"
  BY <1>0, HandleRan DEF TypeOK
<1>6. \A m \in Messages, q \in Runs \ {r} : Unasked(q, m)' = Unasked(q, m)
  BY <1>1 DEF Unasked, Alone
<1>7. \A m \in Messages : Unasked(r, m)' <= Unasked(r, m)
  BY <1>2, <1>5 DEF Unasked
<1>8. \A m \in Messages, q \in Runs : Unasked(q, m)' <= Unasked(q, m)
  <2> TAKE m \in Messages, q \in Runs
  <2>1. Unasked(q, m) \in {0, 1} /\ Unasked(q, m)' \in {0, 1}
    BY DEF Unasked
  <2> QED BY <1>6, <1>7, <2>1
<1>9. CASE ran' = ran /\ Fault
  BY <1>0, <1>1, <1>5, <1>8, <1>9, TriesAfterFault DEF Fault
<1>10. CASE ran' = ran /\ faults' = faults
  <2>1. ASSUME NEW m \in Messages
        PROVE  ran'[m] + Unasked(m, m)' + Unasked(Cron, m)' <=
                 ran[m] + Unasked(m, m) + Unasked(Cron, m)
    <3>1. /\ ran[m] \in Nat /\ m \in Runs /\ Cron \in Runs
          /\ Unasked(m, m) \in {0, 1} /\ Unasked(Cron, m) \in {0, 1}
          /\ Unasked(m, m)' \in {0, 1} /\ Unasked(Cron, m)' \in {0, 1}
      BY <1>0, TriesAreNumbers DEF Unasked
    <3>2. Unasked(m, m)' <= Unasked(m, m) /\ Unasked(Cron, m)' <= Unasked(Cron, m)
      BY <1>8, <3>1
    <3> QED BY <1>10, <3>1, <3>2
  <2> QED BY <1>0, <1>1, <1>4, <1>5, <1>10, <2>1, TriesKept
<1>11. CASE /\ ran' = [ran EXCEPT ![run[r].m] = @ + 1] /\ faults' = faults
            /\ run[r].pc \in {"wait", "execute"} /\ run'[r].pc = "reply"
  <2>1. ASSUME NEW m \in Messages
        PROVE  ran'[m] + Unasked(m, m)' + Unasked(Cron, m)' <=
                 ran[m] + Unasked(m, m) + Unasked(Cron, m)
    <3>1. /\ ran[m] \in Nat /\ m \in Runs /\ Cron \in Runs /\ m # Cron
          /\ Unasked(m, m) \in {0, 1} /\ Unasked(Cron, m) \in {0, 1}
          /\ Unasked(m, m)' \in {0, 1} /\ Unasked(Cron, m)' \in {0, 1}
      BY <1>0, TriesAreNumbers DEF Unasked
    <3>2. Unasked(m, m)' <= Unasked(m, m) /\ Unasked(Cron, m)' <= Unasked(Cron, m)
      BY <1>8, <3>1
    <3>3. CASE m # run[r].m
      <4>1. ran'[m] = ran[m]
        BY <1>5, <1>11, <3>3
      <4> QED BY <3>1, <3>2, <4>1
    <3>4. CASE m = run[r].m
      <4>1. ran'[m] = ran[m] + 1
        BY <1>5, <1>11, <3>4
      <4>2. r \in {m, Cron}
        BY <1>0, <1>3, <3>4 DEF RowInv, Runs
      <4>3. Unasked(r, m) = 1 /\ Unasked(r, m)' = 0
        BY <1>2, <1>11, <3>4 DEF Unasked
      <4>4. CASE r = m
        BY <3>1, <3>2, <4>1, <4>3, <4>4
      <4>5. CASE r = Cron
        BY <3>1, <3>2, <4>1, <4>3, <4>5
      <4> QED BY <4>2, <4>4, <4>5
    <3> QED BY <3>3, <3>4
  <2> QED BY <1>0, <1>1, <1>4, <1>5, <1>11, <2>1, TriesKept
<1> QED BY <1>5, <1>9, <1>10, <1>11

\* A claim: an attempt more, and a run that may run the tool.
LEMMA ClaimTries ==
  ASSUME InboundInv, InboundInv', TriesInv, NEW r \in Runs, Enter(r) \/ Ignore(r)
  PROVE  TriesInv'
<1>0. TypeOK /\ RowInv /\ TypeOK' /\ run \in [Runs -> Run] /\ row \in [Messages -> Row]
  BY DEF InboundInv, TypeOK
<1> DEFINE o == run[r].m
<1>1. /\ run[r].pc = "claim" /\ o \in Messages /\ row[o].status \in {"RECEIVED", "FAILED"}
      /\ faults' = faults /\ slow' = slow /\ ran' = ran
  BY <1>0 DEF Enter, Ignore, MayRun, history, Run
<1>2. /\ run'[r].m = o /\ run'[r].pc \in {"wait", "finish"}
      /\ \A q \in Runs \ {r} : run'[q] = run[q]
  BY <1>0, AtIsRun DEF Enter, Entered, Ignore, Goto, Run
<1>3. /\ row'[o].attempts = row[o].attempts + 1 /\ row'[o].status # "FAILED"
      /\ \A n \in Messages \ {o} : row'[n] = row[n]
  BY <1>0, <1>1 DEF Enter, Ignore, Processing, Row
<1> HIDE DEF o
<1>4. \A m \in Messages : Mishaps(m)' = Mishaps(m) /\ Mishaps(m) \in Nat
  BY <1>0, <1>1, TriesAreNumbers DEF Mishaps
<1> SUFFICES ASSUME NEW m \in Messages
             PROVE  /\ row'[m].attempts <= 1 + Mishaps(m)'
                    /\ row'[m].status = "FAILED" => row'[m].attempts <= Mishaps(m)'
                    /\ row'[m].status = "PROCESSING" /\ ~Running(m)'
                         => row'[m].attempts <= Mishaps(m)'
                    /\ ran'[m] + Unasked(m, m)' + Unasked(Cron, m)' <= row'[m].attempts
  BY DEF TriesInv
<1>5. /\ row[m].attempts \in Nat /\ ran[m] \in Nat /\ m \in Runs /\ Cron \in Runs /\ m # Cron
      /\ Unasked(m, m) \in {0, 1} /\ Unasked(Cron, m) \in {0, 1}
      /\ Unasked(m, m)' \in {0, 1} /\ Unasked(Cron, m)' \in {0, 1}
  BY <1>0, TriesAreNumbers DEF Unasked
<1>6. ran[m] + Unasked(m, m) + Unasked(Cron, m) <= row[m].attempts
  BY DEF TriesInv
<1>7. \A q \in Runs \ {r} : Unasked(q, m)' = Unasked(q, m)
  BY <1>2 DEF Unasked
<1>8. CASE m = o
  <2>1. row[m].attempts <= Mishaps(m)
    BY <1>0, <1>1, <1>4, <1>5, <1>8 DEF TriesInv, RowInv
  <2>2. Running(m)'
    BY <1>2, <1>8 DEF Running
  <2>3. r \in {m, Cron} /\ Unasked(r, m) = 0
    BY <1>0, <1>1, <1>8 DEF RowInv, Runs, Unasked, o
  <2>4. ran'[m] + Unasked(m, m)' + Unasked(Cron, m)' <= row'[m].attempts
    <3>1. CASE r = m
      BY <1>1, <1>3, <1>5, <1>6, <1>7, <1>8, <2>3, <3>1
    <3>2. CASE r = Cron
      BY <1>1, <1>3, <1>5, <1>6, <1>7, <1>8, <2>3, <3>2
    <3> QED BY <2>3, <3>1, <3>2
  <2> QED BY <1>3, <1>4, <1>5, <1>8, <2>1, <2>2, <2>4
<1>9. CASE m # o
  <2>1. Running(m)' <=> Running(m)
    BY <1>2, <1>9 DEF Running, o
  <2>2. Unasked(r, m)' = Unasked(r, m)
    BY <1>2, <1>9 DEF Unasked, o
  <2>3. ran'[m] + Unasked(m, m)' + Unasked(Cron, m)' <= row'[m].attempts
    <3>1. Unasked(m, m)' = Unasked(m, m) /\ Unasked(Cron, m)' = Unasked(Cron, m)
      BY <1>5, <1>7, <2>2
    <3> QED BY <1>1, <1>3, <1>6, <1>9, <3>1
  <2> QED BY <1>3, <1>4, <1>9, <2>1, <2>3 DEF TriesInv
<1> QED BY <1>8, <1>9

\* A run ends: with its message done, or by a fault.
LEMMA EndTries ==
  ASSUME InboundInv, InboundInv', TriesInv, NEW r \in Runs, Finish(r) \/ Throw(r) \/ Pass(r)
  PROVE  TriesInv'
<1>0. TypeOK /\ TypeOK' /\ run \in [Runs -> Run] /\ row \in [Messages -> Row]
  BY DEF InboundInv, TypeOK
<1> DEFINE o == run[r].m
<1>1. /\ o \in Messages /\ slow' = slow /\ ran' = ran
      /\ run'[r].pc = "idle" /\ \A q \in Runs \ {r} : run'[q] = run[q]
  BY <1>0, IdleIsRun DEF Finish, Throw, Pass, End, history, Run
<1>2. \A m \in Messages, q \in Runs : Unasked(q, m)' <= Unasked(q, m)
  <2> TAKE m \in Messages, q \in Runs
  <2>1. Unasked(q, m) \in {0, 1} /\ Unasked(q, m)' \in {0, 1}
    BY DEF Unasked
  <2>2. CASE q = r
    BY <1>1, <2>1, <2>2 DEF Unasked
  <2>3. CASE q # r
    BY <1>1, <2>1, <2>3 DEF Unasked
  <2> QED BY <2>2, <2>3
<1>3. \A m \in Messages : ran'[m] + Unasked(m, m)' + Unasked(Cron, m)' <=
                            ran[m] + Unasked(m, m) + Unasked(Cron, m)
  <2> TAKE m \in Messages
  <2>1. /\ ran[m] \in Nat /\ m \in Runs /\ Cron \in Runs
        /\ Unasked(m, m) \in {0, 1} /\ Unasked(Cron, m) \in {0, 1}
        /\ Unasked(m, m)' \in {0, 1} /\ Unasked(Cron, m)' \in {0, 1}
    BY <1>0, TriesAreNumbers DEF Unasked
  <2>2. Unasked(m, m)' <= Unasked(m, m) /\ Unasked(Cron, m)' <= Unasked(Cron, m)
    BY <1>2, <2>1
  <2> QED BY <1>1, <2>1, <2>2
<1>4. CASE Fault /\ row' \in {[row EXCEPT ![o].status = "FAILED"], row}
  <2>1. \A m \in Messages : row'[m].attempts = row[m].attempts
    BY <1>0, <1>1, <1>4 DEF Row
  <2> QED BY <1>0, <1>1, <1>2, <1>4, <2>1, TriesAfterFault DEF Fault
<1>5. CASE /\ row' = [row EXCEPT ![o].status = "DONE"] /\ faults' = faults
  <2>1. ASSUME NEW m \in Messages
        PROVE  /\ row'[m].attempts = row[m].attempts
               /\ row'[m].status \in {"FAILED", "PROCESSING"} =>
                    row'[m].status = row[m].status /\ m # o
    BY <1>0, <1>1, <1>5 DEF Row
  <2>2. \A m \in Messages : row'[m].status = "PROCESSING" /\ Running(m) => Running(m)'
    BY <1>1, <2>1 DEF Running
  <2> QED BY <1>0, <1>1, <1>3, <1>5, <2>1, <2>2, TriesKept
<1>6. CASE run[r].pc = "claim" /\ row' = row /\ faults' = faults
  <2>1. \A m \in Messages : Running(m) => Running(m)'
    BY <1>1, <1>6 DEF Running
  <2> QED BY <1>0, <1>1, <1>3, <1>6, <2>1, TriesKept
<1> QED BY <1>4, <1>5, <1>6 DEF Finish, Throw, Pass

\* The job gives up what is stuck, which is owed to a fault unless it still runs.
LEMMA JobTries ==
  ASSUME InboundInv, InboundInv', TriesInv, NEW m \in Messages, Job(m)
  PROVE  TriesInv'
<1>0. TypeOK /\ TypeOK' /\ row \in [Messages -> Row] /\ slow \in [Messages -> Nat]
      /\ run \in [Runs -> Run] /\ Cron \in Runs
  BY DEF InboundInv, TypeOK, Runs
<1>1. CASE RecoverStuck(m)
  <2>1. /\ row[m].status = "PROCESSING" /\ run' = run /\ faults' = faults /\ ran' = ran
        /\ row'[m].status = "FAILED" /\ \A n \in Messages : row'[n].attempts = row[n].attempts
        /\ \A n \in Messages \ {m} : row'[n] = row[n] /\ slow'[n] = slow[n]
        /\ slow'[m] = IF Running(m) THEN slow[m] + 1 ELSE slow[m]
    BY <1>0, <1>1 DEF RecoverStuck, Row
  <2> SUFFICES ASSUME NEW n \in Messages
               PROVE  /\ row'[n].attempts <= 1 + Mishaps(n)'
                      /\ row'[n].status = "FAILED" => row'[n].attempts <= Mishaps(n)'
                      /\ row'[n].status = "PROCESSING" /\ ~Running(n)'
                           => row'[n].attempts <= Mishaps(n)'
                      /\ ran'[n] + Unasked(n, n)' + Unasked(Cron, n)' <= row'[n].attempts
    BY DEF TriesInv
  <2>2. ran'[n] + Unasked(n, n)' + Unasked(Cron, n)' <= row'[n].attempts
    BY <2>1 DEF TriesInv, Unasked
  <2>3. /\ row[n].attempts \in Nat /\ slow[n] \in Nat /\ faults \in Nat
    BY <1>0, TriesAreNumbers
  <2>4. CASE n = m
    <3>1. row[n].attempts <= 1 + (faults + slow[n])
          /\ (~Running(n) => row[n].attempts <= faults + slow[n])
      BY <2>1, <2>4 DEF TriesInv, Mishaps
    <3>2. row'[n].attempts <= faults' + slow'[n] /\ faults' + slow'[n] \in Nat
      BY <2>1, <2>3, <2>4, <3>1
    <3>3. row'[n].attempts <= Mishaps(n)' /\ row'[n].attempts <= 1 + Mishaps(n)'
      BY <2>1, <2>3, <3>2 DEF Mishaps
    <3> QED BY <2>2, <3>3
  <2>5. CASE n # m
    <3>1. Mishaps(n)' = Mishaps(n) /\ (Running(n)' <=> Running(n))
      BY <2>1, <2>5 DEF Mishaps, Running
    <3> QED BY <2>1, <2>2, <2>5, <3>1 DEF TriesInv
  <2> QED BY <2>4, <2>5
<1>2. CASE Retry(m)
  <2>1. /\ row' = row /\ faults' = faults /\ slow' = slow /\ ran' = ran
        /\ run[Cron].pc = "idle" /\ run'[Cron].pc = "claim"
        /\ \A q \in Runs \ {Cron} : run'[q] = run[q]
    BY <1>0, <1>2, IdleIsRun DEF Retry, history, Run
  <2>2. \A n \in Messages : Running(n)' <=> Running(n)
    BY <2>1 DEF Running
  <2>3. ASSUME NEW n \in Messages
        PROVE  ran'[n] + Unasked(n, n)' + Unasked(Cron, n)' <=
                 ran[n] + Unasked(n, n) + Unasked(Cron, n)
    <3>1. ran[n] \in Nat /\ Unasked(n, n) \in {0, 1} /\ n \in Runs /\ n # Cron
      BY <1>0, TriesAreNumbers
    <3>2. Unasked(n, n)' = Unasked(n, n)
      BY <2>1, <3>1 DEF Unasked
    <3>3. Unasked(Cron, n)' = 0 /\ Unasked(Cron, n) = 0
      BY <2>1 DEF Unasked
    <3> QED BY <2>1, <3>1, <3>2, <3>3
  <2> QED BY <1>0, <2>1, <2>2, <2>3, TriesKept
<1> QED BY <1>1, <1>2 DEF Job

\* A message arrives; it has had no attempt.
LEMMA ReceiveTries ==
  ASSUME InboundInv, InboundInv', TriesInv, NEW m \in Messages, Receive(m)
  PROVE  TriesInv'
<1>0. TypeOK /\ TypeOK' /\ RowInv /\ row \in [Messages -> Row] /\ run \in [Runs -> Run]
  BY DEF InboundInv, TypeOK
<1>1. /\ m \in Runs /\ run[m].pc = "idle" /\ row[m].status = "NONE"
      /\ faults' = faults /\ slow' = slow /\ ran' = ran
      /\ run'[m].pc = "claim" /\ \A q \in Runs \ {m} : run'[q] = run[q]
  BY <1>0, IdleIsRun DEF Receive, RowInv, Runs, history, Run
<1>2. ASSUME NEW n \in Messages
      PROVE  /\ row'[n].attempts = row[n].attempts
             /\ row'[n].status \in {"FAILED", "PROCESSING"} => row'[n].status = row[n].status
    BY <1>0 DEF Receive, Row
<1>3. \A n \in Messages : Running(n)' <=> Running(n)
  BY <1>1 DEF Running
<1>4. ASSUME NEW n \in Messages, NEW q \in Runs PROVE Unasked(q, n)' = Unasked(q, n)
  <2>1. CASE q = m
    BY <1>1, <2>1 DEF Unasked
  <2>2. CASE q # m
    BY <1>1, <2>2 DEF Unasked
  <2> QED BY <2>1, <2>2
<1>5. ASSUME NEW n \in Messages
      PROVE  ran'[n] + Unasked(n, n)' + Unasked(Cron, n)' <=
               ran[n] + Unasked(n, n) + Unasked(Cron, n)
  <2>1. /\ ran[n] \in Nat /\ n \in Runs /\ Cron \in Runs
        /\ Unasked(n, n) \in {0, 1} /\ Unasked(Cron, n) \in {0, 1}
    BY <1>0, TriesAreNumbers
  <2>2. Unasked(n, n)' = Unasked(n, n) /\ Unasked(Cron, n)' = Unasked(Cron, n)
    BY <1>4, <2>1
  <2> QED BY <1>1, <2>1, <2>2
<1> QED BY <1>0, <1>1, <1>2, <1>3, <1>5, TriesKept

\* The process dies: no run is left, but a fault paid for it.
LEMMA CrashTries ==
  ASSUME InboundInv, InboundInv', TriesInv, Crash
  PROVE  TriesInv'
<1>1. /\ TypeOK /\ TypeOK' /\ faults' = faults + 1 /\ slow' = slow /\ ran' = ran /\ row' = row
      /\ \A q \in Runs : run'[q].pc = "idle"
  BY IdleIsRun DEF InboundInv, Crash, Fault, history
<1>2. \A m \in Messages, q \in Runs : Unasked(q, m)' <= Unasked(q, m)
  BY <1>1 DEF Unasked
<1> QED BY <1>1, <1>2, TriesAfterFault

\* Nothing happens to the messages and their runs.
LEMMA TriesUnchanged ==
  ASSUME InboundInv, TriesInv, UNCHANGED <<row, run, faults, slow, ran>>
  PROVE  TriesInv'
<1>1. \A m \in Messages : /\ Mishaps(m)' = Mishaps(m) /\ (Running(m)' <=> Running(m))
                          /\ Unasked(m, m)' = Unasked(m, m)
                          /\ Unasked(Cron, m)' = Unasked(Cron, m)
  BY DEF Mishaps, Running, Unasked
<1> QED BY <1>1 DEF TriesInv

\* Every step keeps the account of the attempts.
LEMMA TriesStep == InboundInv /\ InboundInv' /\ TriesInv /\ [Next]_vars => TriesInv'
<1> SUFFICES ASSUME InboundInv, InboundInv', TriesInv, [Next]_vars PROVE TriesInv'
  OBVIOUS
<1>1. ASSUME NEW m \in Messages, Receive(m) \/ Job(m) PROVE TriesInv'
  BY <1>1, ReceiveTries, JobTries
<1>2. ASSUME NEW r \in Runs, Process(r) \/ Throw(r) PROVE TriesInv'
  BY <1>2, HandleTries, ClaimTries, EndTries DEF Process, Handle
<1>3. ASSUME (\E i \in Actions : Sweep(i)) \/ FlowExpires \/ UNCHANGED vars PROVE TriesInv'
  <2>1. UNCHANGED <<row, run, faults, slow, ran>>
    BY <1>3 DEF Sweep, FlowExpires, vars, history
  <2> QED BY <2>1, TriesUnchanged
<1> QED BY <1>1, <1>2, <1>3, CrashTries DEF Next

\* A check-in, a check-out, whatever runs without being confirmed, runs once for its
\* message and once more at most for each fault and each time the job gave the message
\* up while it was at work.
THEOREM UnaskedExplained == Spec => []ImplicitExplained
<1>1. Init => TriesInv
  <2> SUFFICES ASSUME Init, NEW m \in Messages
               PROVE  /\ row[m].attempts = 0 /\ row[m].status = "NONE" /\ Mishaps(m) = 0
                      /\ ran[m] = 0 /\ Unasked(m, m) = 0 /\ Unasked(Cron, m) = 0
    BY DEF TriesInv
  <2> QED BY IdleIsRun DEF Init, Mishaps, Unasked, Runs
<1>2. InboundInv /\ TriesInv => ImplicitExplained
  <2> SUFFICES ASSUME InboundInv, TriesInv, NEW m \in Messages
               PROVE  ran[m] <= 1 + faults + slow[m]
    BY DEF ImplicitExplained
  <2>1. /\ row[m].attempts \in Nat /\ ran[m] \in Nat /\ slow[m] \in Nat /\ faults \in Nat
        /\ Unasked(m, m) \in {0, 1} /\ Unasked(Cron, m) \in {0, 1}
    BY TriesAreNumbers DEF InboundInv
  <2>2. /\ row[m].attempts <= 1 + (faults + slow[m])
        /\ ran[m] + Unasked(m, m) + Unasked(Cron, m) <= row[m].attempts
    BY DEF TriesInv, Mishaps
  <2> QED BY <2>1, <2>2
<1> QED BY <1>1, <1>2, TriesStep, InboundCorrect, PTL DEF Spec
=============================================================================
