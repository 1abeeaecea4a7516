--------------------------- MODULE WhatsAppInbound ---------------------------
(***************************************************************************)
(* The messages of one WhatsApp chat, from the webhook to the reply        *)
(* (whatsapp-inbound.service.ts), their retry (whatsapp-inbound.           *)
(* scheduler.ts), and what they act on: the conversation's row             *)
(* (whatsapp-session.service.ts, flow-engine.service.ts), the token of a   *)
(* notification's buttons (whatsapp-action-token.service.ts) and the       *)
(* actions that wait for a YES.  A message is run by the webhook that      *)
(* claimed it and, after an error, a crash or two minutes, by the          *)
(* scheduler; the runs of a chat queue for its lock.  One step is one      *)
(* query, the optimistic writes of one answer taken together.              *)
(* Left out: a PIN's count of wrong answers, the switches in front of an   *)
(* action (all refuse it, as execute() may), the menus' texts; STOP, which *)
(* ends the chat; the first message of a chat, whose patch binds it to its *)
(* user; and clearIdle(), which selects on lastMessageAt: touch() alone    *)
(* writes that column and nobody calls it, so no row is selected.          *)
(***************************************************************************)
EXTENDS Naturals, Sequences, FiniteSets

CONSTANTS
    Messages,       \* what the chat sends
    Cron,           \* the run of the retry job
    Steps,          \* number of questions of a flow
    Chats,          \* what the messages say, and the question the flow is at before
    MaxAttempts,    \* runs of one message the job allows
    MaxActions,     \* bound: actions put up for confirmation
    MaxFaults       \* bound: crashes of the process, queries and sends that fail

Kinds == {"approve", "reject", "direct", "command", "answer", "back", "yes", "no", "cancel"}
Runs == Messages \union {Cron}
Actions == 1..MaxActions
Open == 1..Steps
Late == Steps + 1     \* a flow past its flowExpiresAt
Chat == [says : [Messages -> Kinds], step : 0..Steps]

ASSUME InboundAssumption ==
    /\ Messages # {} /\ Cron \notin Messages /\ Chats \subseteq Chat
    /\ Steps \in Nat \ {0} /\ MaxAttempts \in Nat \ {0}
    /\ MaxActions \in Nat \ {0} /\ MaxFaults \in Nat

VARIABLES
    row,        \* [Messages -> Row]: whatsapp_inbound_messages
    run,        \* [Runs -> Run]: the calls of process() under way
    chain,      \* the runs in and behind the lock of the chat
    flowStep,   \* the question of the session's flow, 0 when none is open
    token,      \* the token of the approve and reject buttons
    action,     \* [Actions -> status]: whatsapp_pending_actions
    faults,
    handed,     \* history: how often the token gave out its arguments
    executed,   \* history: [Actions -> how often its tool ran with confirm]
    ran,        \* history: [Messages -> how often its tool ran unasked]
    slow,       \* history: [Messages -> how often it was given up while it ran]
    skipped     \* history: how often what waits was not expired

acted == <<flowStep, token, action>>
history == <<handed, executed, ran, slow, skipped>>
vars == <<row, run, chain, acted, faults, history>>

Row == [status : {"NONE", "RECEIVED", "PROCESSING", "FAILED", "IGNORED", "DONE"},
        kind : Kinds, attempts : 0..MaxAttempts]
Locked == {"start", "execute", "expire", "create", "tool", "reply"}
Run == [pc : {"idle", "claim", "wait", "finish"} \union Locked,
        m : Messages, step : 0..Late,   \* flowStep as it was read
        fresh : BOOLEAN,                \* the version it was read with is the row's
        id : Actions]                   \* the action being confirmed
IdleRun == [pc |-> "idle", m |-> CHOOSE m \in Messages : TRUE, step |-> 0, fresh |-> TRUE, id |-> 1]

TypeOK ==
    /\ row \in [Messages -> Row]
    /\ run \in [Runs -> Run]
    /\ chain \in Seq(Runs)
    /\ flowStep \in 0..Late
    /\ token \in {"PENDING", "CONSUMED"}
    /\ action \in [Actions -> {"NONE", "PENDING", "CONFIRMED", "REJECTED", "EXPIRED"}]
    /\ faults \in 0..MaxFaults
    /\ handed \in Nat /\ executed \in [Actions -> Nat]
    /\ ran \in [Messages -> Nat] /\ slow \in [Messages -> Nat] /\ skipped \in Nat

\* The run goes on; the step it read and the action it confirmed have served.
At(r, pc) == [IdleRun EXCEPT !.pc = pc, !.m = run[r].m, !.fresh = run[r].fresh]
Goto(r, pc) == run' = [run EXCEPT ![r] = At(r, pc)]
End(r) == run' = [run EXCEPT ![r] = IdleRun]
Fault == faults < MaxFaults /\ faults' = faults + 1
KindOf(r) == row[run[r].m].kind

\* The run r holds the lock and begins with a message of one of the kinds K.
Turn(r, K) ==
    /\ run[r].pc = "wait" /\ Head(chain) = r
    /\ KindOf(r) \in K /\ run[r].step # Late
Left(r) == [IdleRun EXCEPT !.pc = "finish", !.m = run[r].m]

-----------------------------------------------------------------------------
(* The webhook, the claims *)

\* claim(): the unique insert; a delivery that comes again changes nothing.
Receive(m) ==
    /\ row[m].status = "NONE"
    /\ row' = [row EXCEPT ![m].status = "RECEIVED"]
    /\ run' = [run EXCEPT ![m] = [IdleRun EXCEPT !.pc = "claim", !.m = m]]
    /\ UNCHANGED <<chain, acted, faults, history>>

\* The session is read with the turn still to come.
Entered(r) == [run EXCEPT ![r].pc = "wait", ![r].step = flowStep, ![r].fresh = TRUE]

MayRun(r) == row[run[r].m].status \in {"RECEIVED", "FAILED"}
Processing(m) == [row EXCEPT ![m].status = "PROCESSING", ![m].attempts = @ + 1]

\* Seeded fault: the runs of a chat do not wait for each other.
EnterUnlocked(r) ==
    /\ run[r].pc = "claim" /\ MayRun(r)
    /\ row' = Processing(run[r].m)
    /\ run' = Entered(r)
    /\ chain' = <<r>> \o chain
    /\ UNCHANGED <<acted, faults, history>>

\* process(): the claim of the row; handle(): getOrCreate(), withLock().
Enter(r) ==
    /\ run[r].pc = "claim" /\ MayRun(r)
    /\ row' = Processing(run[r].m)
    /\ run' = Entered(r)
    /\ chain' = Append(chain, r)
    /\ UNCHANGED <<acted, faults, history>>

\* Inbound messages are switched off, the sender is unknown, sends too much.
Ignore(r) ==
    /\ run[r].pc = "claim" /\ MayRun(r)
    /\ \E written \in {"IGNORED", "PROCESSING"} :
         row' = [Processing(run[r].m) EXCEPT ![run[r].m].status = written]
    /\ Goto(r, "finish")
    /\ UNCHANGED <<chain, acted, faults, history>>

Pass(r) ==
    /\ run[r].pc = "claim" /\ ~MayRun(r)
    /\ End(r)
    /\ UNCHANGED <<row, chain, acted, faults, history>>

\* Seeded fault: the message is not written down as done.
FinishForgotten(r) ==
    /\ run[r].pc = "finish"
    /\ End(r)
    /\ UNCHANGED <<row, chain, acted, faults, history>>

\* finish(): that its update failed is not looked at.
Finish(r) ==
    /\ run[r].pc = "finish"
    /\ \/ row' = [row EXCEPT ![run[r].m].status = "DONE"] /\ UNCHANGED faults
       \/ Fault /\ UNCHANGED row
    /\ End(r)
    /\ UNCHANGED <<chain, acted, history>>

-----------------------------------------------------------------------------
(* The session and its flow *)

\* patch(): written if the version is still the one that was read, which makes the
\* versions of the other runs old.
Patched(r, step) == IF run[r].fresh THEN step ELSE flowStep
Wrote(r, next) ==
    [q \in Runs |-> IF q = r THEN next ELSE [run[q] EXCEPT !.fresh = @ /\ ~run[r].fresh]]

Patch(r, step, pc) ==
    /\ flowStep' = Patched(r, step)
    /\ run' = Wrote(r, At(r, pc))
    /\ UNCHANGED <<row, chain, token, action, faults, history>>

\* flows.start(): the two patches; the question is asked whether they took or not.
StartFlow(r) ==
    /\ Turn(r, {"command"}) \/ run[r].pc = "start"
    /\ Patch(r, 1, "reply")

FlowExpires ==
    /\ flowStep \in Open /\ flowStep' = Late
    /\ UNCHANGED <<row, run, chain, token, action, faults, history>>

\* expireFlowIfStale(), before anything is made of the message.
FlowTimedOut(r) ==
    /\ run[r].pc = "wait" /\ Head(chain) = r /\ run[r].step = Late
    /\ Patch(r, 0, "reply")

\* A wrong answer is counted, a wrong PIN is not; or the flow is given up.
AnswerRefused(r) ==
    /\ Turn(r, {"answer"}) /\ run[r].step \in Open
    /\ \E step \in {flowStep, 0} : Patch(r, step, "reply")

\* advanceFlow(), past the questions the answer makes irrelevant.
AnswerStep(r) ==
    /\ Turn(r, {"answer"}) /\ run[r].step \in Open
    /\ \E step \in run[r].step + 1 .. Steps : Patch(r, step, "reply")

\* advanceFlow(), clearFlow(), execute(): neither result is looked at.
AnswerLast(r) ==
    /\ Turn(r, {"answer"}) /\ run[r].step \in Open
    /\ Patch(r, 0, "execute")

\* stepBack(): the question before, its time is not renewed.
StepBack(r) ==
    /\ Turn(r, {"back"}) /\ run[r].step \in Open
    /\ Patch(r, IF flowStep = Late THEN Late ELSE IF run[r].step = 1 THEN 1 ELSE run[r].step - 1,
             "reply")

\* No command and no flow; a flow that cannot go back, a PIN that is wrong or locked.
NothingDone(r) ==
    /\ Turn(r, {"answer", "back"})
    /\ Goto(r, "reply")
    /\ UNCHANGED <<row, chain, acted, faults, history>>

-----------------------------------------------------------------------------
(* Tokens and confirmations *)

\* Seeded fault: the token is not taken by a compare-and-set.
ConsumeAgain(r) ==
    /\ Turn(r, {"approve", "reject"})
    /\ token' = "CONSUMED" /\ handed' = handed + 1
    /\ Goto(r, IF KindOf(r) = "reject" THEN "start" ELSE "execute")
    /\ UNCHANGED <<row, chain, flowStep, action, faults, executed, ran, slow, skipped>>

\* consume(); or the token was given out before, its time is over, the action is off.
Consume(r) ==
    /\ Turn(r, {"approve", "reject"})
    /\ \/ /\ token = "PENDING" /\ token' = "CONSUMED" /\ handed' = handed + 1
          /\ Goto(r, IF KindOf(r) = "reject" THEN "start" ELSE "execute")
       \/ Goto(r, "reply") /\ UNCHANGED <<token, handed>>
    /\ UNCHANGED <<row, chain, flowStep, action, faults, executed, ran, slow, skipped>>

\* execute(): the tool refuses, or asks for a confirmation; the one of a check-in or
\* a check-out ("implicit") runs at once.
Execute(r) ==
    /\ run[r].pc = "execute" \/ Turn(r, {"direct"})
    /\ \/ Goto(r, "reply") /\ UNCHANGED ran
       \/ KindOf(r) # "direct" /\ Goto(r, "expire") /\ UNCHANGED ran
       \/ /\ KindOf(r) = "direct" /\ Goto(r, "reply")
          /\ ran' = [ran EXCEPT ![run[r].m] = @ + 1]
    /\ UNCHANGED <<row, chain, acted, faults, handed, executed, slow, skipped>>

\* CANCEL clears the flow first.
Cancel(r) ==
    /\ Turn(r, {"cancel"})
    /\ Patch(r, 0, "expire")

Expired(S) == [i \in Actions |-> IF i \in S THEN "EXPIRED" ELSE action[i]]
Waiting == {i \in Actions : action[i] = "PENDING"}

\* expirePending(): that it failed is not looked at.
ExpirePending(r) ==
    /\ run[r].pc = "expire"
    /\ \/ action' = Expired(Waiting) /\ UNCHANGED <<faults, skipped>>
       \/ Fault /\ skipped' = skipped + 1 /\ UNCHANGED action
    /\ Goto(r, IF KindOf(r) = "cancel" THEN "reply" ELSE "create")
    /\ UNCHANGED <<row, chain, flowStep, token, handed, executed, ran, slow>>

CreatePending(r) ==
    /\ run[r].pc = "create"
    /\ \E i \in Actions :
         /\ action[i] = "NONE" /\ \A j \in Actions : j < i => action[j] # "NONE"
         /\ action' = [action EXCEPT ![i] = "PENDING"]
    /\ Goto(r, "reply")
    /\ UNCHANGED <<row, chain, flowStep, token, faults, history>>

\* confirmPending() finds the newest and takes it; NO leaves it at that.
Confirm(r) ==
    /\ Turn(r, {"yes", "no"}) /\ Waiting # {}
    /\ LET i == CHOOSE i \in Waiting : \A j \in Waiting : j <= i
       IN  IF KindOf(r) = "yes"
           THEN /\ action' = [action EXCEPT ![i] = "CONFIRMED"]
                /\ run' = [run EXCEPT ![r].pc = "tool", ![r].id = i]
           ELSE action' = [action EXCEPT ![i] = "REJECTED"] /\ Goto(r, "reply")
    /\ UNCHANGED <<row, chain, flowStep, token, faults, history>>

\* None, or what waits is past its time.
NothingWaiting(r) ==
    /\ Turn(r, {"yes", "no"})
    /\ Goto(r, "reply")
    /\ UNCHANGED <<row, chain, acted, faults, history>>

RunTool(r) ==
    /\ run[r].pc = "tool"
    /\ executed' = [executed EXCEPT ![run[r].id] = @ + 1]
    /\ Goto(r, "reply")
    /\ UNCHANGED <<row, chain, acted, faults, handed, ran, slow, skipped>>

\* The reply, which may have a menu to be remembered by a patch, is sent; handle()
\* returns, and the next run of the chat gets the lock.
Reply(r) ==
    /\ run[r].pc = "reply"
    /\ run' \in {Wrote(r, Left(r)), [run EXCEPT ![r] = Left(r)]}
    /\ chain' = Tail(chain)
    /\ UNCHANGED <<row, acted, faults, history>>

\* The sweep, every ten minutes: what waits past its time, the oldest first.
Sweep(i) ==
    /\ i \in Waiting
    /\ action' = Expired({j \in Waiting : j <= i})
    /\ UNCHANGED <<row, run, chain, flowStep, token, faults, history>>

-----------------------------------------------------------------------------
(* What goes wrong, and the retry job *)

\* A query or a send throws out of handle(); process() writes it down, if it can.
Throw(r) ==
    /\ Fault
    /\ run[r].pc \in {"wait"} \union Locked /\ Head(chain) = r
    /\ chain' = Tail(chain)
    /\ row' \in {[row EXCEPT ![run[r].m].status = "FAILED"], row}
    /\ End(r)
    /\ UNCHANGED <<acted, history>>

\* The process dies, with its runs and its locks.
Crash ==
    /\ Fault
    /\ run' = [r \in Runs |-> IdleRun]
    /\ chain' = <<>>
    /\ UNCHANGED <<row, acted, history>>

\* Seeded fault: what is stuck is made new again, which nobody looks for.
RecoverAsNew(m) ==
    /\ run[Cron].pc = "idle"
    /\ row[m].status = "PROCESSING"
    /\ row' = [row EXCEPT ![m].status = "RECEIVED"]
    /\ UNCHANGED <<run, chain, acted, faults, history>>

\* The message is claimed, and its run is at work or waits for the lock.
Running(m) == \E r \in Runs : run[r].m = m /\ run[r].pc \notin {"idle", "claim"}

\* A message that has been PROCESSING for two minutes: its process died, or it is slow.
RecoverStuck(m) ==
    /\ run[Cron].pc = "idle"
    /\ row[m].status = "PROCESSING"
    /\ row' = [row EXCEPT ![m].status = "FAILED"]
    /\ slow' = IF Running(m) THEN [slow EXCEPT ![m] = @ + 1] ELSE slow
    /\ UNCHANGED <<run, chain, acted, faults, handed, executed, ran, skipped>>

\* Seeded fault: one attempt too many.
RetryOnceMore(m) ==
    /\ run[Cron].pc = "idle"
    /\ row[m].status = "FAILED" /\ row[m].attempts <= MaxAttempts
    /\ run' = [run EXCEPT ![Cron] = [IdleRun EXCEPT !.pc = "claim", !.m = m]]
    /\ UNCHANGED <<row, chain, acted, faults, history>>

\* The ticks do not overlap (running), and run what is due one after the other.
Retry(m) ==
    /\ run[Cron].pc = "idle"
    /\ row[m].status = "FAILED" /\ row[m].attempts < MaxAttempts
    /\ run' = [run EXCEPT ![Cron] = [IdleRun EXCEPT !.pc = "claim", !.m = m]]
    /\ UNCHANGED <<row, chain, acted, faults, history>>

-----------------------------------------------------------------------------
Init ==
    /\ \E c \in Chats :
         /\ row = [m \in Messages |-> [status |-> "NONE", kind |-> c.says[m], attempts |-> 0]]
         /\ flowStep = c.step
    /\ run = [r \in Runs |-> IdleRun]
    /\ chain = <<>>
    /\ token = "PENDING"
    /\ action = [i \in Actions |-> "NONE"]
    /\ faults = 0
    /\ handed = 0 /\ executed = [i \in Actions |-> 0] /\ skipped = 0
    /\ ran = [m \in Messages |-> 0] /\ slow = ran

Process(r) ==
    \/ Enter(r) \/ Ignore(r) \/ Pass(r) \/ Finish(r)
    \/ StartFlow(r) \/ FlowTimedOut(r) \/ AnswerRefused(r) \/ AnswerStep(r) \/ AnswerLast(r)
    \/ StepBack(r) \/ NothingDone(r) \/ Consume(r) \/ Execute(r) \/ Cancel(r)
    \/ ExpirePending(r) \/ CreatePending(r) \/ Confirm(r) \/ NothingWaiting(r) \/ RunTool(r)
    \/ Reply(r)

Job(m) == RecoverStuck(m) \/ Retry(m)

Next ==
    \/ \E m \in Messages : Receive(m) \/ Job(m)
    \/ \E r \in Runs : Process(r) \/ Throw(r)
    \/ \E i \in Actions : Sweep(i)
    \/ FlowExpires \/ Crash

Spec == Init /\ [][Next]_vars

\* Calls come to an end; the job ticks every minute.
FairSpec ==
    /\ Spec
    /\ \A r \in Runs : WF_vars(Process(r))
    /\ \A m \in Messages : SF_vars(Job(m))

-----------------------------------------------------------------------------
(* Properties *)

\* A double tap, a double YES, a message run twice (because it failed, because
\* the process died, or because it was only slow): the arguments of a token are
\* given out once, the tool of a confirmed action runs once
\* (whatsapp-action-token.service.ts:101, whatsapp-inbound.service.ts:1123).
DecidedOnce == handed <= 1 /\ \A i \in Actions : executed[i] <= 1

\* A YES has one thing to confirm, whatever messages, retries and slow runs came
\* before (pend() expires what waits before it creates, :1067), but for the times
\* expirePending() failed without a word (:1484).
OneWaiting == Cardinality(Waiting) <= 1 + skipped

\* A tool that asks for no confirmation runs again for the same message only when
\* something went wrong with it (the process died, a query or the reply failed) or
\* the message was still at work when the job gave it up (scheduler:50): what is
\* done, or delivered again, does not run again.
ImplicitExplained == \A m \in Messages : ran[m] <= 1 + faults + slow[m]

\* A message is done in the end, or has had all its attempts: errors, the death
\* of the process and slow runs leave it to the job (scheduler:50).
Recovered ==
    \A m \in Messages : row[m].status \in {"PROCESSING", "FAILED"} ~>
                            \/ row[m].status \in {"DONE", "IGNORED"}
                            \/ row[m].status = "FAILED" /\ row[m].attempts = MaxAttempts

\* What patch() promises: a run that saw an older session does not answer a
\* question a second time ("rather than silently applying a stale step",
\* whatsapp-session.service.ts:115-116).
NoStaleAnswer ==
    [][\A r \in Runs : run[r].pc = "wait" /\ run'[r].pc = "execute" /\ KindOf(r) = "answer"
                       => run[r].fresh]_vars
=============================================================================
