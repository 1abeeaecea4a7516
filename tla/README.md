# A verification of People Pay 360

People Pay 360 is an HR, payroll and attendance platform: a NestJS backend over
PostgreSQL, a Next.js front end, and messaging channels (WhatsApp, Telegram,
Discord) through which employees ask for leave and managers approve it. The
modules in this directory model the parts of the backend where several people
and processes act on the same rows, TLC checks them on small instances, and
TLAPS proves the central results for every size.

Paths below are relative to `src/apps/backend/src` unless they start with `src/`.
`PROJECT.json` gives for every definition the lines it models.

## 1. The system

### What is hard about it

The backend is a set of stateless services. A call is a sequence of awaited
database queries; with two exceptions in the parts modelled here (the accrual
transaction, and single statements) **nothing is in a transaction**, so every
`await` is a point where another call may run and where the process may die.
The usual shape is

    const row = await find(id);  if (row.status !== 'PENDING') throw ...;
    ... more awaits ...          await update({ where: { id }, data: { status } });

which checks one state and writes over another. The exceptions, where a
conditional `updateMany` is the lock (the outboxes, action tokens, verification
tokens, payroll lock), are as interesting: the question there is whether the
claim is enough.

### Inventory

| Component | State | Operations | Talks to | Hard part | What makes it correct | Here |
|---|---|---|---|---|---|---|
| Approval engine (`approvals/`) | one `RequestApproval` row per step, the active workflow | `initiate`, `activateFrom`, `decide`, `abandon`; workflow `upsert`, `setActive` | called by leave, overtime, training; reads the directory | overlapping decisions, workflow and directory edited meanwhile | steps reached in order, one outcome, unanimous, never stuck | `ApprovalEngine` |
| Leave requests (`leave-requests/`) | `LeaveRequest.status`, LEAVE attendance rows | `create`, `approve`, `reject`, `cancel` and the finalizations | engine, balances, attendance | four unprotected writes, one of which may be refused | deduct before approve; a decision is final; nobody left holding it | `LeaveRequest`, `LeaveLifecycle` |
| Leave balances (`leave-balances/`) | `LeaveBalance` and `LeaveTypeBalance` rows, accrual history | `initBalance`, `deductDays`, `updateBalance`, `updateTypeBalance`, two accruals, bulk reset | leave requests, cron | absolute values computed from earlier reads; two rows for one fact | rows agree, never overdrawn, accrued once | `LeaveBalances` |
| WhatsApp outbox (`whatsapp/whatsapp-outbox.*`) | `WhatsAppMessage` rows: queue, lock and record | enqueue, direct send, drain (reclaim, expire, select), deliver, retry | notification dispatcher, gateway, cron | several processes, crashes, lost answers, night, age | one holder, no unexplained copy, bounded attempts, always settled | `Outbox` |
| WhatsApp inbound, sessions, action tokens (`whatsapp/inbound`, `session`, `router`, `approvals`) | inbound rows, session with version, tokens, pending actions | claim, process, patch, consume, pend, confirm, retry | leave and overtime approval | webhook redelivery, double tap, retry after an action ran, stale session | an action runs once, one action waits for a YES, a message is not forgotten | `WhatsAppInbound` |
| Channel verification tokens (`common/verification`) | token row: status, attempts, face proof | issue, open, bump, claim, release | punches, identities | a capability taken before the proof, and given back after a refusal | one claim, one punch, attempts bounded | `VerificationToken` |
| Overtime (`overtime/`) | request rows over the same engine, overtime policies | create, approve with corrections, reject, cancel | engine, payroll | window corrected and policy changed between filing and approval; clocks over midnight | what is frozen is what the window pays; filed window kept; limits | `Overtime` |
| Training | nominations over the same engine | create, approve, reject, cancel | engine | seats counted before the insert | seats not exceeded | planned |
| Attendances, corrections, device sync (`attendances/`, `attendance-corrections/`, `attendance-integrations/`) | the row (employee, day) with its sessions; the correction request | punch, lunch, cron jobs, manual entry, correct, sync, leave | leave, payroll | a dozen writers of one row, each with a copy of it read before | one open session, hours explained by the row, no punch lost, the day is closed | `Attendance` |
| Payrolls, carry-forward | payroll status, deduction ledger | generate, finalize, lock, carry | attendance, loans | lock under concurrency, money moved once | ledger moves once per lock | planned |
| Contracts, termination | termination request, contract, employee status | request, approve, reject | assets clearance | two approvals | one effect | planned |
| Reminders, cron gate | dispatch rows; `lastRunKey` in memory | tick, claim, send | mail, outboxes | restarts, several processes | a tier is sent at most once | planned |
| Telegram, Discord outboxes | as WhatsApp, without night and expiry | as WhatsApp | gateways | as WhatsApp | as WhatsApp | planned as a variant |
| Everything else | records | create, read, update, delete, render | | none of its own | | not modelled, reasons in `PROJECT.json` |

Interactions inside the part modelled: a service method calls the engine, which
only writes its own rows and returns one of *not engaged*, *refused* (an
exception), *waiting*, `APPROVED`, `REJECTED`; the service acts on the answer.
Balances are called by the finalization and by cron. The outbox is fed by
notifications after the fact and feeds nothing back. Actors: employees,
approvers, administrators editing workflows and the directory, cron, and a
process that dies.

## 2. The modules

| Module | What it is |
|---|---|
| `ApprovalEngine` | the trail of one request and any number of calls on it |
| `LeaveLifecycle` | abstract: submitted once, answered once, paid exactly when approved |
| `LeaveRequest` | extends `ApprovalEngine` with the service; refines `LeaveLifecycle` |
| `LeaveBalances` | the two rows of one employee and year, and the seven methods |
| `Outbox` | the message table, the draining processes, the gateway |
| `Attendance` | one day of one employee: the row, everything that writes it, the corrections |
| `Overtime` | the overtime requests of one employee and month, their windows, policies and approvals |
| `VerificationToken` | the capabilities that complete a punch over a link or a chat |
| `WhatsAppInbound` | the messages of one chat, its session, its token, its pending actions, and the retry job |
| `MC...` | values for TLC: directories, workflows, windows, what each caller may do |
| `...Proofs` | theorems and proofs, one module for each of the eight concrete modules above; `LeaveRequestProofs` extends `ApprovalEngineProofs`, whose theorems it carries over |

Operators commented *Seeded fault* are altered copies of the definition that
follows them. No specification uses them; each property is checked to fail when
one of them takes the place of the original.

### ApprovalEngine

`trail` holds the rows of one request by step; `workflow`, `enabled` and `pool`
are what an administrator may change at any time (`pool[t]` is the result of
`resolveApprovers` for approver type `t`). Each caller has a record `call[c]`:
its `pc` and the local variables of the code that live across an `await`: the
rows `decide()` read, the step it decided, the ACTIVE siblings it saw
(`stillLive`), the PENDING rows `activateFrom()` has yet to visit. One action is
one query and the computation up to the next: `DecideRead`, `DecideRecord`,
`RejectClose`, `Advance`, `ActivateRead`, `ActivateNext` (one row: skip it or
activate it), `ActivateReturn`, `InitiateCreate`, `Abandon`. Faithful details
that matter: the row is written by id without its status; siblings are those of
the earlier read; the mode is that of the workflow active now; the requester is
dropped when a step is activated but not when it is decided; a snapshotted
supervisor is exclusive; an ADMIN overrides. `finals` counts the outcomes
returned to callers. Result texts, notifications and timestamps are left out.

### LeaveRequest

`svc[c]` is the service call around an engine call: load and check PENDING, run
the engine, `Deduct` (may be refused), write APPROVED, create the attendance; or
write REJECTED; or, for `cancel`, write CANCELLED and then `abandon`. Without a
trail the legacy rule decides who may approve. `deductDays` is one step here: its
own interleavings are the subject of `LeaveBalances`. The checks before the
insert (overlap, notice, documents) only decide whether a request exists.
`ServiceCrash` loses every call and keeps the rows.

### LeaveBalances

`legacy` and `typed` are the two rows; `proc[c]` is a call with the rows *as it
read them*, which is what it computes from. `autoRuns` is the accrual history of
the month (2 stands for two or more); `charged` and `entitled` are history
variables for the properties. Sick leave goes through the same code.
`carriedOver` is part of both rows: a year opens without rows, or with rows an
administrator opened with days carried over, and `updateTypeBalance()` may set
it, first in the type row, then in the legacy one. `Fits` checks a deduction
against allocation and carry-over together.

### Outbox

`row[m]` abstracts the columns by what the code compares: `wait` says what
`nextAttemptAt` still lies behind (a back-off, the end of the night), `lock`
whether `lockedAt` has passed the ten minutes of `SENDING_RECLAIM_MS`, `stale`
whether `createdAt` has passed `staleHours`. `worker[w]` is a draining process,
or the request of a direct message (`enqueueDirect`), which delivers outside the
flag of the drain. The gateway answers *sent*, *retryable*, *refused*, or passes
the message on and the answer is lost; a lost answer may be classified either
way (`classifyError` treats an axios timeout as a hard error, a reset as
transient). `handed` counts what the gateway passed on. `SlowSends` says whether
a send may outlast the reclaim limit.

### Attendance

`row` is the row of the `attendances` table reduced to what the writers compare:
status, the two columns, the sessions with their type, hours, and whether the
source protects it. Instants are small numbers; `DayEnd` is the end of the
attendance day, `Horizon` is midnight. Every operation is a pair of actions:
`Read...(c)` keeps the row in `call[c].seen`, `Write...(c)` computes the new row
*from what was seen* and writes it by id. Check-in, check-out and the two lunch
punches follow `attendances.service.ts`, with one session or several
(`policy`), the clamp of hours at the day end, and the lunch deduction; the day-end
job, the absence job, the lunch reminder and the mirrored device are the cron
side; HR's manual entry and a granted leave are single writes. A correction is
filed with the times it saw, decided after a read, and applied by `Adjust`
before `Settle` writes its status. A correction sets the columns it was asked to
set and may leave the hours out. `punches` is the history of the confirmed
punches, emptied when HR or a device replaces the day or a correction adjusts it.

What HR and the device report is taken as the code takes it. `Replaced` stores
the list of stretches a provider gives as it is, next to columns that need not
agree with it (`attendances/attendances.service.ts:2047`, `:2123`); it may overlap
itself, and its last stretch may be open although the day has a check-out. A
manual entry needs no check-in, takes any status with any times, and may name
times still to come. `odd` is the history of these oddities: a *list*, a time
*ahead*, a day that ends, counts as present or has stretches with *noCheckIn*. A
property that such a report breaks in the code says so by naming it.
A provider does drop a check-out that precedes the check-in, which is the one
thing assumed of `DeviceDays`.

### Overtime

A `Policy` is a record of the rules the code reads from it: `eligible`, the `late`
threshold, the `dayEnd`, and the limits `maxDay` and `maxMonth`
(`overtime-policy/overtime-policy.types.ts:32`); `ChangePolicy` puts another in
its place, with other values for any of them. A request has its `window`, the
`original` one if an approver corrected it, what
it `pays` (its hour columns, of which `hours` is what the limit of the month adds
up), and the `policy` these were computed under. `File` checks the limits on the
hours the employee *states*, which may be off by `Slack` (0.1 hour, `overtime/overtime.service.ts:118`),
while the row is given the hours of the window. `Split` is `splitOvertimeHours()` on clock hours,
with the crossing of midnight and the noon rule; the properties count the same
hours one by one on a clock that starts at noon. `chain[r]` is the approval trail
as the answers of the engine show it (`ApprovalEngine` has its inside):
*not engaged*, *waiting*, `approved`, `rejected`, or abandoned. Approving is
correct the window (`Edit`), ask the engine (`Decide`), recheck the policy
(`Recheck`, which may throw after the last step was recorded), write (`Approve`).
`ChangePolicy` may come between any two. `Approve` counts the hours again under
the policy of the moment and asks no limit again: where that policy's day ends
later, or an approver lengthened the window, the request pays more than anybody
checked. `Kept` is the rest, the live requests that pay no more than when they were
filed, and `KeptWithinMonth` is about them.

### VerificationToken

`token[t]` is a row of `channel_verification_tokens`; the number of a token is
its age. A `LINK` is submitted by a browser, a `CHAT` challenge by a photo behind
the lock of the chat's session. `Claim` is the conditional update that takes the
capability *before* the proofs are checked; a failed check counts an attempt,
`Exhaust` shuts a row that has used its attempts, and `Release` gives the
capability back. Attempts and expiry are separate queries in the code and
separate actions here. `Die` ends a request anywhere and `AnswerLost` loses the
answer of a punch that was made; both are counted in `mishaps`. `done` and
`punched` are history. The employee has one chat and there is one process: the
lock is kept in memory for each session, while `issue()` is about a user.

### WhatsAppInbound

A message is run by the webhook that inserted it (`run[m]`) or by the retry job
(`run[Cron]`). `Enter` is the claim of the row, the read of the session and the
arrival at the lock; `chain` is the queue of the lock, whose head holds it. The
read comes *before* the lock, so `fresh` says whether the version that was read
is still the one of the row: `patch()` writes only then, and makes the copies of
all other runs old. `flowStep` is the open question, `Late` a flow past its
expiry; an answer moves it on, BACK moves it back. `Consume` takes the token of
the buttons by a conditional update. `Execute` is one call of a tool: it refuses,
asks for a confirmation (`ExpirePending`, `CreatePending`; later `Confirm` and
`RunTool`), or, for an action whose policy is *implicit* (check-in, check-out),
acts at once. `Reply` ends the turn, and writes the session once more where the
reply has a menu to be remembered. `Sweep` is the job that expires what waits.

Failures are where the code has them. `Throw` is an error that reaches
`process()`, which may fail to write it down; `expirePending()` and `finish()`
swallow theirs, and the run goes on as if the write had been made; `Crash` loses
all runs and locks and keeps the rows. All four count in `faults`. History:
`handed`, `executed` (the token, the confirmed actions), `ran` (what acted
unasked), `skipped` (the expiries that failed), `slow` (the times a message was
given up by the job while it was at work). What the tools do is in the other
modules. `clearIdle()`, the one write of the flow without a version, is left out
because it selects on `lastMessageAt`: the only writer of that column is
`touch()`, which nobody calls, so it never selects a row.

## 3. What is checked

A run with one caller asks what holds when calls for the same row do not
overlap; one with two callers and crashes asks what survives the overlap. A
`violation` run is a promise of the repository's own comments or tests that the
code breaks.

| Run | Instance | What it shows |
|---|---|---|
| `leave_serial` | 1 caller, chains of 2 and 3 steps in both modes or none, four directories, one of them with an ADMIN | `SettledApproval`, `NoApproverLeft`, `FinalApprovalIsUnanimous`, `OneOutcome`, `ChainNeverStuck`: an answer is single, unanimous and always reached, nobody is left holding a dead request, though workflow and directory change between any two queries; and `ImplementsLifecycle` |
| `leave_concurrent` | 2 callers, 2 steps, crash | `NeverApprovedUnpaid` and `FinalReachesEveryStep` survive every overlap |
| `engine_parallel_stuck` | 2 callers, a parallel pair | violates `AllApprovedMeansFinalized`: both approve, neither finalizes |
| `balances_serial` | 1 caller, all seven methods, a year that opens with or without days carried over | `RowsAgree`, `ChargedIsUsed`, `AllocationExplained`, `AccruedOncePerMonth` |
| `balances_concurrent` | 2 callers of the methods that take days or accrue, the same openings, crash | `NeverOverdrawn` |
| `outbox` | a message with buttons, a direct one, one process, one mishap, one retry, one night | `OneHolder`, `ExtraCopiesExplained`, `AttemptsBounded`, `EventuallySettled` |
| `attendance` | 1 caller of everything, beside it the absence job and a leave, which create the row; a device that lists two stretches, HR who enters a check-out only | `OneOpenSession`, `PaidWithinDay`, `HoursExplained`, `PunchesRecorded`, `OpenDayIsFound`, `DayIsClosed` |
| `overtime` | 1 caller, 2 requests, evenings that end before, at and after midnight, 3 policies that differ in every rule | `ApprovedIsFrozen`, `FiledIsKept`, `ApprovedIsEligible`, `EndsWithItsChain`, `KeptWithinMonth` |
| `overtime_limit` | the same with one policy and no slack | violates `MonthlyLimit`: a correction does not change the hours the limit adds up |
| `verification` | 2 requests, 3 capabilities, one mishap | `OneHolder`, `SuccessIsFinal`, `ExhaustedStaysShut`, `OneOpenChallenge`, `LinkSurvives` |
| `inbound` | 2 messages, a flow of 2 questions, one crash, error or failed write | `DecidedOnce`, `OneWaiting`, `ImplicitExplained`, `Recovered` |
| `inbound_stale` | 2 answers to one question | violates `NoStaleAnswer`: the answer the version check refused is acted on all the same |

`attendance`, `overtime` and `inbound` also check their `TypeOK`.

### Bounds, and why they are enough

- *Steps*: two steps show every relation between neighbours; three let a chain
  skip a middle step and then go on (`leave_serial`). With two callers a third
  step only multiplies states; the order result is proved for every length.
- *Users*: a supervisor, an HR manager and the requester, and directories in
  which the supervisor has left, the requester is HR manager, or the HR manager
  has become ADMIN (`leave_serial`; the other two runs of the engine have one
  directory, without ADMIN). Every branch of `isEligible` and of the skip is reached.
- *Callers*: every race listed below needs two.
- *Days*: 12 is scaled to 2, requests are of 1 or 2 days, `MaxDays` = 4 limits
  new deductions and manual accruals; days carried over are none or 2, so that a
  deduction may fit because of them only. One balance is exhausted and one is not.
- *Outbox*: `MaxAttempts` = 2 has a retried and a last attempt; `Batch` = 1 makes
  rows wait for a batch; `MaxMishaps`, `MaxRetries`, `MaxNights` = 1 bound the
  environment only. The direct message makes a second worker that competes with
  the process for the same row. Symmetry is not used: the messages differ.
- *Attendance*: instants 1 to 4, with the day end at 3 and midnight at 4, so a
  stretch may begin before lunch, in it, at the day end and after it;
  `MaxSessions` = 2 lets a check-in follow two sessions, which are work and lunch,
  work and work, or what the device listed, and lunch adds to that. One correction
  (a forgotten check-out, at instant 2, so that punches may still follow it). HR
  enters a whole day, whose check-out lies ahead early on, or a holiday with a
  check-out only. The device saw nobody, one stretch, or two of which the second is
  open though the day has a check-out: each oddity occurs, alone and with the others.
- *Overtime*: two of the policies allow overtime, with different day ends (midnight
  and two o'clock, so that a change alters what a window pays, up and down), late
  thresholds and limits of the month (5 and 4, which hold any one evening but not
  every two); the third allows none. `Slack` = 1 is a whole hour, since hours are
  not divided; `MaxSteps` = 2 has a correction before the last step and one at it.
  Clock hours are not scaled, since midnight and noon matter.
- *Verification*: `MaxLive` = 2 of 3 capabilities makes the cap work, `MaxAttempts`
  = 2 has a failed and a last attempt. The two requests are interchangeable, and
  the run has only invariants: symmetry is sound.
- *Inbound*: `MaxAttempts` = 2 has one retry; the pairs of messages are an answer
  and NO, a decision and YES or a second decision, an action that runs unasked and
  CANCEL, a command and BACK within an open flow; `MaxActions` = 3 is one more than
  any of them puts up for confirmation; `MaxFaults` = 1.
- `Bump` and `autoRuns` saturate at 2, which stands for "more than once".

Deadlock is checked, except where a run really ends: in `verification`, when the
bounded number of capabilities is spent, in the two runs of
`WhatsAppInbound`, when both messages are done, and in `overtime_limit`, when both
requests are decided under its only policy. Elsewhere an administrator may
always change a workflow or a policy, a balance may be read, cron starts again.

### Fairness

*Outbox.* `Drain` of each process: cron starts it every two minutes
(`whatsapp-outbox.scheduler.ts:36`). `Deliver` of each worker: a claimed row is
carried through, because a gateway call ends by its time-out. `LockAges`,
`BackoffElapses`, `DayBreaks`: time passes. Nothing is assumed of the gateway
(it may answer *busy* for ever), of the administrator, of crashes, or of
`GrowsStale`.

*Attendance.* A call that has read ends (weak fairness of `Return(c)`), and the
job at the day end, which cron starts every minute, is not kept from running for
ever by other callers (strong fairness of `ReadAutoCheckout(c)`; strong, because
the model's callers are shared with the requests). Time is under no obligation.

*Inbound.* A run that has begun goes on (weak fairness of `Process(r)`: its
queries end, and the lock is given on), and the retry job ticks every minute
(strong fairness of `Job(m)`, which other messages keep busy). The tick returns at
once while inbound messages are switched off
(`whatsapp/inbound/whatsapp-inbound.scheduler.ts:47`), so `Recovered` is about the
time they stay enabled. No fairness of `Receive`, `Throw`, `Crash`, `Sweep`.

Leave, engine, balances, overtime and verification are answers to HTTP requests;
nobody is obliged to send one, so they have safety properties only.

### Races the models reach that no run lists

These follow from the same unprotected writes as the violation runs. They are
the reason some properties are checked for calls that do not overlap only.

*Engine and leave*

- two decisions on a SEQUENTIAL chain activate two steps; a second submission of
  a decision already taken returns APPROVED while the next step is ACTIVE; an
  approval overlapping a rejection is returned after it (`decide()` at
  `approvals/approval-engine.service.ts:386-413`);
- a requester who is HR manager decides the HR step of the own request: the pool
  without the requester is used for the notification, not for `isEligible`
  (`:295`);
- two overlapping approvals of a leave request deduct twice (`paid` = 2);
- an approval under way writes APPROVED over a cancellation
  (`leave-requests/leave-requests.service.ts:839`);
- a deduction refused after the last step leaves the request PENDING with a
  chain nobody can decide any more (`:832`), overlap or not.

*Balances*

- two overlapping deductions lose one, and `used` may fall; two overlapping
  accrual runs accrue twice;
- the accrual sets the type row to the legacy total plus one
  (`leave-balances/leave-balances.service.ts:1088`), which is not its own total
  plus one when the two defaults differ.

*Outbox*

- a send that outlasts the reclaim limit (`SlowSends`) is taken over by a second
  worker while the first is still sending: two copies with no mishap;
- `retry()` leaves `createdAt`, so a message an administrator puts back after
  `staleHours` is expired by the very drain that the retry starts
  (`whatsapp/whatsapp.controller.ts:166`).

*Attendance*

- the lunch reminder (`attendances/attendances.service.ts:3450`) and the day-end
  job (`:1482`) write back the sessions they read: a punch in between is lost, as
  is one of two punches that overlap, or one that overlaps a sync;
- an approval and a withdrawal of a correction that overlap leave the day
  adjusted by a request that reads CANCELLED
  (`attendance-corrections/attendance-corrections.service.ts:416`);
- a correction leaves `sessions` and the source as they are, so a later punch or
  job works on sessions the columns no longer agree with; one that gives only a
  check-in leaves the day PRESENT without an end;
- the device's list is stored as it comes: stretches that overlap are paid twice,
  and one that is open beside a check-out column is not found by the job at the day
  end (`attendances/attendances.service.ts:2123`, `:1388`); the sync compares the
  columns only, so a list that grew without moving them is not taken over
  (`attendance-integrations/attendance-sync.service.ts:386`);
- a check-out entered without a check-in stays in the row when the employee then
  checks in (`attendances/attendances.service.ts:514`), in the mode with one
  session a day: the job does not find that day either;
- when the absence job creates a row that a punch has just created, the unique
  index throws and the rest of its loop is not done;
- two imports of one integration in two processes write the same day twice (the
  guard, `attendance-integrations/attendance-sync.service.ts:145`, is in memory).

*Overtime*

- with two callers: a correction between the read and the write of a finalization
  is approved with the hours of the earlier window; a cancellation is written over
  APPROVED, by id (`overtime/overtime.service.ts:1260`);
- a finalization that throws (`:1074`) leaves the request PENDING behind a chain
  that is finished;
- a policy with a later day end, or one with lower limits, comes into force between
  filing and approval: the approval counts the window anew and asks no limit, so
  that the approved hours exceed the limit of the old policy or of the new one.

*Verification*

- an older link handed back after newer ones were issued makes one link more than
  `MAX_LIVE_LINKS`; a process that dies leaves the capability CONSUMED, and the
  employee has to ask for another; `peek()` looks for a status `USED` that nothing
  writes (`common/verification/channel-verification-token.service.ts:200`).

*Inbound*

- a process that dies between the insert and the detached run leaves the message
  RECEIVED, which the retry job does not look for
  (`whatsapp/inbound/whatsapp-inbound.scheduler.ts:60`);
- one that dies after the token was taken lets the retry answer "already decided"
  though nothing was;
- a slow run that was given up for dead and fails late sets a message back from
  DONE to FAILED, and it is run again; a check-in that needs no confirmation is
  then made again (`ran` = 2), and so it is when the reply to it fails;
- an expiry that fails without a word leaves two actions waiting, of which YES
  confirms the newest (`whatsapp/inbound/whatsapp-inbound.service.ts:1067`, `:1485`).

## 4. What is proved

Every safety invariant and every safety action property of the passing runs has a
theorem, for any number of callers, processes, rows and messages and any length
of a chain; so has the refinement of `LeaveLifecycle`. The assumptions are those
of the run: *one caller* says that calls for the same row do not overlap (any two
callers are the same one), *no crash* is `~MayCrash`.

| Module | Theorem | States | Assumes | Along |
|---|---|---|---|---|
| `ApprovalEngineProofs` | `TypeCorrect`, `OrderCorrect`, `StepsReachedInOrder` | the invariant | nothing more | `OrderInv` |
| | `FinalAfterEveryStep` | `FinalReachesEveryStep` | nothing more | `OrderInv` |
| | `OneAnswer` | `OneOutcome` | one caller | `AnswerInv` |
| | `ApprovalIsUnanimous`, `NeverStuck` | `FinalApprovalIsUnanimous`, `ChainNeverStuck` | one caller, no crash | `VoteInv` |
| `LeaveRequestProofs` | `DeductedFirst` | `NeverApprovedUnpaid` | nothing more | `PaidInv` |
| | `SerialRefinement` | `ImplementsLifecycle` | one caller, no crash | `SerialInv` |
| | `EngineUsedAsSpecified` | leave behaves as `ApprovalEngine` | nothing more | `UseInv` |
| | `LeaveFinalAfterEveryStep`, `LeaveOneAnswer`, `LeaveApprovalIsUnanimous`, `LeaveNeverStuck` | the engine's four, of leave | the engine's | the engine's |
| | `ApprovalSettles`, `NobodyLeftHolding` | `SettledApproval`, `NoApproverLeft` | one caller, no crash | `LeaveInv` |
| `LeaveBalancesProofs` | `NoOverdraft` | `NeverOverdrawn` | `RaisingOperations`, equal defaults | `OverdraftInv` |
| | `AccruesOnce` | `AccruedOncePerMonth` | one caller | `AccrualInv` |
| | `BothRowsAgree`, `UsedIsCharged`, `AllocationAddsUp` | `RowsAgree`, `ChargedIsUsed`, `AllocationExplained` | one caller, no crash, equal defaults | `MirrorInv` |
| `OutboxProofs` | `OutboxCorrect` | the invariant | no slow sends | `OutboxInv` |
| | `ClaimIsExclusive`, `CopiesAreExplained`, `AttemptsAreBounded` | `OneHolder`, `ExtraCopiesExplained`, `AttemptsBounded` | no slow sends | `OutboxInv` |
| `AttendanceProofs` | `AttendanceTypes`, `OneStretchUnderWay` | `TypeOK`, `OneOpenSession` | nothing more | `DayInv` |
| | `TimesInOrder` | the order of all stretches | nothing more | `OrderInv` |
| | `HoursAreTheDays`, `PunchesKept`, `OpenDaySeen` | `HoursExplained`, `PunchesRecorded`, `OpenDayIsFound` | one worker | `WorkInv` |
| | `NothingPastTheEnd` | `PaidWithinDay` | one worker | `OrderInv`, `PaidInv` |
| `OvertimeProofs` | `Safe`, `OvertimeTyped`, `FiledStays`, `ApprovedWasAllowed` | the invariant, `TypeOK`, `FiledIsKept`, `ApprovedIsEligible` | nothing more | `OvertimeInv` |
| | `EndsTogether`, `FrozenAsCounted` | `EndsWithItsChain`, `ApprovedIsFrozen` | one caller | `SerialInv` |
| | `MonthKept` | `KeptWithinMonth` | one caller, finitely many requests | `MonthInv` |
| `VerificationTokenProofs` | `Safe`, `CapabilityIsExclusive`, `ReportedIsSpent`, `AttemptsShut`, `ChallengeIsUnique`, `LinksSurvive` | the invariant, `OneHolder`, `SuccessIsFinal`, `ExhaustedStaysShut`, `OneOpenChallenge`, `LinkSurvives` | nothing more | `TokenSafety`, `LinkInv` |
| `WhatsAppInboundProofs` | `InboundCorrect`, `InboundTyped`, `ActsOnce`, `OneToConfirm` | the invariant, `TypeOK`, `DecidedOnce`, `OneWaiting` | nothing more | `InboundInv` |
| | `UnaskedExplained` | `ImplicitExplained` | nothing more | `TriesInv` |

*Nothing more* means the assumptions the component's module states about its
constants (`EngineAssumption` and its likes), which say of what kind they are.

### The arguments

*Order.* "The PENDING steps are a suffix" is not inductive: a call visits the
rows it read some time ago. `CallInv` adds what such a call may rely on
although others write the same rows: what it has yet to visit contains every
row still PENDING, since nothing ever makes a row PENDING again, and all steps
up to the one it decided are past PENDING. So the first row of its list, if
still PENDING, is the first PENDING row of the chain.

*One answer, a unanimous one, and never none.* A chain that was answered has no
open row (`AnswerInv`), so that no later call can reach an outcome; a single call
knows the ACTIVE rows it read to be the ACTIVE rows. A crash only loses the call,
so one answer survives it. `VoteInv` adds that, while a chain is neither answered
nor withdrawn, every row can still end in an approval, and that one is ACTIVE
whenever no call is at work on the chain. That part a crash breaks: the process
may die between the write of the decision and the activation of the next step.

*Leave over the engine.* Every step of the leave service is, on the rows of the
engine, a step of `ApprovalEngine` or none (`EngineUsedAsSpecified`), because no
call starts before the request exists and each service call enters the engine
once. The engine's theorems are thereby theorems of leave. `LeaveInv` ties the
place of the service call to the call of the engine it waits for (`SvcCall`) and
to what the chain answered: whoever writes APPROVED has the approval, a payment
and the attendance behind it; whoever is done with a cancellation has left
nothing open.

*Deducted first.* A call past `Deduct` has `paid > 0`, and `paid` never falls;
no crash or overlap touches that.

*Refinement.* With one caller, `Progress` ties the place of the call to the
status and to `paid`; approval happens, for the abstract specification, at the
deduction, and the write of APPROVED is a stutter. With a crash between these
two the request stays PENDING and paid, so the assumption is needed.

*No overdraft.* Each deduction writes a total it checked against an allocation
and what was carried over. That is enough if neither of them falls between the check and the write, and
within a month there are only two levels, the default and the default plus one.
Lost updates make `used` too small, never too large. With unequal defaults the
accrual lowers the type row (see the races).

*Two rows in step.* Between calls the rows agree, and agree with `charged` and
`entitled` (`Steady`). `MirrorCall` says for each place in each of the seven
methods which of the two rows is ahead and by how much, and that what the call
read is still there. `HalfCreated` is the one detour: the legacy row was created
and the type rows were not yet. The month is accrued once because the history is
written in the transaction that writes the balances (`AccrualInv`), so this part
needs no assumption about crashes.

*Outbox.* `HolderInv`: whoever delivers a message sees its row SENDING with a
fresh lock, so neither a claim nor a reclaim can take it. `CopiesInv`: a copy
needs a mishap unless the message is sent or its answer is about to be recorded.
`AttemptsInv`: a row that can be claimed has an attempt left or a mishap to show
for it. `mishaps` is the only quantity the bounds depend on.

*Attendance, whatever overlaps.* `OneOpenSession` is not inductive: a writer puts
back sessions it read long ago, and closes only the first open one it finds.
`DayInv` says of the row, and of every row a call still holds, that one session is
under way at most, and of a call that is about to append one that it saw none. It
holds until the device reports a list (`"list" \in odd`), after which the code
promises nothing. `OrderInv` adds that a session ends before the next begins, and
that no call writes an instant later than the present; a time still to come ends
that promise too.

*Attendance, one worker.* What a day pays and shows is lost by two overlapping
writers (see the races), so these four theorems assume `OneWorker`: any two
callers overlap only if one of them does no more than create the row (the
absence job, a leave); the run is such an instance. `WorkInv` then says that the
row a worker read is still the row, or that it read no row and one was created
since (`ReadStands`); in the second case a check-in meets the unique index, and a sync
replaces the day as a whole. What a day is, with its punches and the oddities
reported of it (`DayIs`), is one predicate that every write of a row has to
establish: `HoursExplained` needs no exception, for the hours of a list are
counted from the list; a day without a check-in (`WithoutCheckIn`) pays nothing,
and is the only one whose sessions a later check-in may discard. That the hours fit
into the day is an induction over the sessions: each adds no more than its stretch,
clamped at the day's end, and the next begins after it. That needs their order, so
lists and times ahead are excepted.

*Verification tokens.* Exclusive claims need to know what a request may rely on
while others write: between claim and answer the row is not PENDING (`CallInv`),
and nobody else holds it (`OneHolder`), so a release can only put back what its
own request took. The lock of the chat covers a challenge from the query that
closes the open ones to the insert, and from the claim of a photo to its release
(`ChatLock`); without that `OneOpen` is not inductive. `punched` exceeds one only
by `mishaps`, because a capability is given back after a refusal or a lost
answer, and not otherwise. `LinksSurvive` needs a second invariant, `LinkInv`,
about the links a cap has yet to expire: that so many newer ones exist cannot
become false, since rows are never deleted.

*Overtime, whatever overlaps.* `FiledIsKept` is about `request`, `original` and
`filed`; a call that is about to write an edit holds the row as it read it, so
`CallInv` says that the window in that copy is the filed one or that `original`
already holds it. Two overlapping edits then both write the same `original`.
`ApprovedWasAllowed` needs that the policy a finalization approves under is the
one it asked. The types contain the arithmetic: the tiers of every window are
natural numbers (`SplitIsTiers`), with the crossing of midnight and the noon rule
expanded.

*Overtime, one caller.* `SerialInv` follows a request and its chain through each
call, which finds the status and the window as it read them. `SplitCounts` is the
arithmetic of `ApprovedIsFrozen`: what `splitOvertimeHours()` computes with minima
and maxima is, for every window, policy and day end, the number of the hours that
begin in each tier. `MonthKept` is about a sum over any finite set of requests.
Its lemmas (`SumUnique`, `SumRec`, `SumAdd`, `SumSubset`) unfold the fold of the
library and show, from smaller sets to larger ones, that it does not matter in
which order it counts. The check of `create()` is enough for the requests of `Kept`,
since a window as entered is never shorter than what it pays under any policy
(`EnteredCoversPaid`), and the stated hours differ from the window by `Slack` at most.
In any set of such requests the one inserted last was checked with at least what the
others pay now, against the limit of the policy it was filed under: that policy is the
witness. A change of policy, an approval that counts anew, a correction can only take
a request out of `Kept` or leave its hours below those of the day it was filed.

*Inbound.* The lock is a sequence; `LockInv` says that nobody is in it twice, that
its members are the runs that wait or work, and that whoever works is its head.
One lemma for an arrival, one for the departure of the head and one for what
stays give the invariant for all the actions of a turn at once. `RowInv` says
that the webhook claims a RECEIVED row and the job one with an attempt left, and
that neither can be overtaken before it does: hence the bound of attempts.
`ActionInv` follows because only the head of the lock creates, takes or runs an
action; a crash empties the lock together with its runs. A run that is about to create
has expired what waited, or added one to `skipped`: hence `1 + skipped`.
`ImplicitExplained` needs an account of the attempts. `TriesInv` says that each
attempt of a message but the first is owed to a fault or to the job having given the
message up at work: a message that is FAILED, or PROCESSING without a run, has such a
reason for every attempt it had; and no attempt runs a tool unasked more than once.

### What stays with TLC

- Liveness (`EventuallySettled`, `DayIsClosed`, `Recovered`): it needs fairness and
  ENABLED, which are out of the prover's reach.
- The three properties of the violation runs, which are false.
- The properties that only serial runs check are theorems for serial callers
  only, and the section on races says how the overlap breaks them.

The library's induction theorems take an operator as parameter, which the provers
cannot instantiate. Where an argument is by induction (the sum of the month, the
hours of the sessions) it is made by a minimal counterexample of a well-founded
order: strict inclusion of finite sets, or the positions of a sequence. No module
declares a recursive operator; recursive functions have their defining equation as
a lemma.

## 5. What is not modelled

- Notification texts, timestamps, pagination, branch scoping and role guards,
  except those that decide an approval.
- In the engine: the inbox and history reads. In the outbox: who receives what,
  `sweep()`, and the failure counter of a number.
- In attendance: late and early flags, geofence and face policies (they refuse a
  punch and change nothing), flexible shifts, the monthly validation, two of the
  three conflict policies of the device sync. In overtime: the yearly limit (a
  second sum like the monthly one), rest-day tiers, money. In verification:
  `peek()`, the daily cap and the reuse of images, the Telegram and Discord copies
  of the photo handler. In inbound: enrolment and STOP, the count of wrong PINs, the
  texts of menus, the deletion of old rows, and `clearIdle()` (section 2 says why).
- Several chats of one employee, and several processes behind one chat: the lock of
  a session is in memory, and `OneOpenChallenge` and the inbound properties rest on it.
- The lost second write (a crash between the status and the trail) in the properties
  that serial runs check: `SettledApproval`, `NoApproverLeft`, `EndsWithItsChain` are
  about calls that come to their end.
- The wage and shift arithmetic: data, better served by tables of
  examples than by a state machine.
- PostgreSQL (unique indexes, atomic statements, read committed) and the gateway
  are external; the models assume only that a single statement is atomic.
- The front end, the language-model front ends, authentication, documents.

## 6. Plan

1. *Training* over the engine, with seats: pending nominations that each had a
   free seat; `abandon` before the status.
2. *Payroll lock and carry-forward*: the ledger moves once per lock.
3. *CompanyCronGate and reminders*: windows, restarts, two processes; a tier is
   sent at most once, as a theorem.
4. *ApprovalChain*: an abstract chain refined by the serial engine, used in the
   place of the engine by leave, overtime and training.
5. *Attendance* with a second caller of every kind, and the sync as two processes,
   each with the weaker property that survives.
6. *Contracts and termination*; *Telegram / Discord* as a variant of `Outbox`
   without night and expiry.
7. Proofs: the weaker properties of `Attendance` that survive a second worker
   (point 5); the serial engine as an implementation of `ApprovalChain` (point 4),
   from `VoteInv`, and `Overtime` from it in the place of `chain`.

New runs will take the place of those whose question a larger one answers.
