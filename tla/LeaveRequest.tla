----------------------------- MODULE LeaveRequest -----------------------------
(***************************************************************************)
(* One leave request (leave-requests/leave-requests.service.ts) and the    *)
(* approval engine it calls.  A service call is split at its awaits: load  *)
(* the row, run the engine, deduct the days, write the status, write the   *)
(* attendance; none of it is in a transaction.  deductDays() is one step   *)
(* here, which may refuse; its own interleavings are those of              *)
(* LeaveBalances.                                                          *)
(***************************************************************************)
EXTENDS ApprovalEngine

VARIABLES
    request,    \* LeaveRequest.status, NONE before the row exists
    paid,       \* history: how often the days were deducted (2 = twice or more)
    attendance, \* the LEAVE rows of the days of the request were created
    svc         \* the local state of each service call

leaveVars == <<request, paid, attendance, svc>>
vars == <<engineVars, leaveVars>>

Decided == {"APPROVED", "REJECTED", "CANCELLED"}
Ops == {"none", "create", "approve", "reject", "cancel"}
Service == [op : Ops, user : Users \union {None},
            at : {"idle", "engine", "deduct", "status", "attendance", "reject", "cancel"}]
Resting == [op |-> "none", user |-> None, at |-> "idle"]

LeaveTypeOK ==
    /\ TypeOK
    /\ request \in {"NONE", "PENDING"} \union Decided
    /\ paid \in 0..2
    /\ attendance \in BOOLEAN
    /\ svc \in [Callers -> Service]

Move(c, at) == svc' = [svc EXCEPT ![c] = IF at = "idle" THEN Resting ELSE [@ EXCEPT !.at = at]]

-----------------------------------------------------------------------------
(* create(): the row is inserted, then its approval trail is initiated *)

Create(c) ==
    /\ svc[c].at = "idle"
    /\ request = "NONE"
    /\ request' = "PENDING"
    /\ Enter(c, "initiate")
    /\ svc' = [svc EXCEPT ![c] = [op |-> "create", user |-> None, at |-> "engine"]]
    /\ UNCHANGED <<trail, workflow, enabled, pool, finals, paid, attendance>>

-----------------------------------------------------------------------------
(* approve() and reject(): load, then decide() *)

DecisionOf(op) == IF op = "approve" THEN "APPROVE" ELSE "REJECT"

Load(c) ==
    /\ svc[c].at = "idle"
    /\ request = "PENDING"
    /\ \E u \in Users, op \in {"approve", "reject"} :
         /\ EnterDecide(c, u, DecisionOf(op))
         /\ svc' = [svc EXCEPT ![c] = [op |-> op, user |-> u, at |-> "engine"]]
    /\ UNCHANGED <<trail, workflow, enabled, pool, finals, request, paid, attendance>>

\* Without a trail the route's role guard decides: ADMIN, HR_MANAGER, or the
\* MANAGER of the department.
LegacyDeciders == pool["ADMIN"] \union pool["HR_MANAGER"] \union pool["MANAGER"]

\* Seeded fault: a recorded step is taken for the final one.
MayFinalizeOnStep(c) ==
    \/ call[c].result \in Outcomes \union {"waiting"}
    \/ call[c].result = "notEngaged" /\ svc[c].user \in LegacyDeciders

MayFinalize(c) ==
    \/ call[c].result \in Outcomes
    \/ call[c].result = "notEngaged" /\ svc[c].user \in LegacyDeciders

\* What the service does with the answer of the engine.
AfterEngine(c) ==
    IF ~MayFinalize(c) THEN "idle"
    ELSE IF svc[c].op \in {"create", "approve"} THEN "deduct"
    ELSE IF svc[c].op = "reject" THEN "reject"
    ELSE "idle"

EngineReturned(c) ==
    /\ svc[c].at = "engine"
    /\ Done(c)
    /\ Move(c, AfterEngine(c))
    /\ UNCHANGED <<trail, workflow, enabled, pool, finals, request, paid, attendance>>

-----------------------------------------------------------------------------
(* finalizeLeaveApproval(): deduct, then the status, then the attendance *)

\* Seeded fault: a refused deduction is logged and swallowed.
DeductSwallowed(c) ==
    /\ svc[c].at = "deduct"
    /\ paid' \in {paid, Bump(paid)}
    /\ Move(c, "status")
    /\ UNCHANGED <<engineVars, request, attendance>>

\* Seeded fault: the status was written before the days are deducted.
DeductLast(c) ==
    /\ svc[c].at = "deduct"
    /\ request' = "APPROVED"
    /\ paid' \in {paid, Bump(paid)}
    /\ Move(c, IF paid' = paid THEN "idle" ELSE "attendance")
    /\ UNCHANGED <<engineVars, attendance>>

Deduct(c) ==
    /\ svc[c].at = "deduct"
    /\ \/ UNCHANGED paid /\ Move(c, "idle")        \* balance too short: the call throws
       \/ paid' = Bump(paid) /\ Move(c, "status")
    /\ UNCHANGED <<engineVars, request, attendance>>

WriteApproved(c) ==
    /\ svc[c].at = "status"
    /\ request' = "APPROVED"
    /\ Move(c, "attendance")
    /\ UNCHANGED <<engineVars, paid, attendance>>

CreateAttendances(c) ==
    /\ svc[c].at = "attendance"
    /\ attendance' = TRUE
    /\ Move(c, "idle")
    /\ UNCHANGED <<engineVars, request, paid>>

WriteRejected(c) ==
    /\ svc[c].at = "reject"
    /\ request' = "REJECTED"
    /\ Move(c, "idle")
    /\ UNCHANGED <<engineVars, paid, attendance>>

-----------------------------------------------------------------------------
(* cancel(): load, write CANCELLED, abandon the trail *)

LoadCancel(c) ==
    /\ svc[c].at = "idle" /\ call[c].pc = "idle"
    /\ Requester # None
    /\ request = "PENDING"
    /\ svc' = [svc EXCEPT ![c] = [op |-> "cancel", user |-> Requester, at |-> "cancel"]]
    /\ UNCHANGED <<engineVars, request, paid, attendance>>

\* Seeded fault: the trail is left alive.
WriteCancelledOnly(c) ==
    /\ svc[c].at = "cancel"
    /\ request' = "CANCELLED"
    /\ Move(c, "idle")
    /\ UNCHANGED <<engineVars, paid, attendance>>

WriteCancelled(c) ==
    /\ svc[c].at = "cancel"
    /\ request' = "CANCELLED"
    /\ Enter(c, "abandon")
    /\ Move(c, "engine")
    /\ UNCHANGED <<trail, workflow, enabled, pool, finals, paid, attendance>>

-----------------------------------------------------------------------------
(* Specification *)

ServiceStep(c) ==
    \/ Create(c) \/ Load(c) \/ EngineReturned(c) \/ Deduct(c) \/ WriteApproved(c)
    \/ CreateAttendances(c) \/ WriteRejected(c) \/ LoadCancel(c) \/ WriteCancelled(c)

\* The process dies between any two queries of a service call.
ServiceCrash ==
    /\ MayCrash
    /\ \E c \in Callers : svc[c].at # "idle"
    /\ call' = [c \in Callers |-> Idle]
    /\ svc' = [c \in Callers |-> Resting]
    /\ UNCHANGED <<trail, workflow, enabled, pool, finals, request, paid, attendance>>

LeaveInit ==
    /\ Init
    /\ request = "NONE"
    /\ paid = 0
    /\ attendance = FALSE
    /\ svc = [c \in Callers |-> Resting]

LeaveNext ==
    \/ \E c \in Callers : ServiceStep(c) \/ (EngineStep(c) /\ UNCHANGED leaveVars)
    \/ (ConfigureWorkflow \/ DirectoryChanges) /\ UNCHANGED leaveVars
    \/ ServiceCrash

LeaveSpec == LeaveInit /\ [][LeaveNext]_vars
-----------------------------------------------------------------------------
(* Properties *)

AllIdle == \A c \in Callers : svc[c].at = "idle"

\* "ORDER IS LOAD-BEARING": however approvals, rejections and cancellations
\* overlap, and wherever the process dies, no request is APPROVED and no LEAVE
\* attendance is written unless the days were deducted first.
NeverApprovedUnpaid == request = "APPROVED" \/ attendance => paid > 0

\* An approval that has run to its end charged the days once, wrote the
\* attendance, and had every step of the chain behind it, if there was one.
SettledApproval ==
    AllIdle /\ request = "APPROVED" =>
        /\ paid = 1 /\ attendance
        /\ \A s \in Rows : trail[s].status \in {"APPROVED", "SKIPPED"}

\* Once a request is decided nobody is left holding a step of it: its rows are
\* in no approver's inbox.
NoApproverLeft ==
    AllIdle /\ request \in Decided => WithStatus(Open) = {}

\* Without overlapping calls the service implements the promise of
\* LeaveLifecycle; the request counts as approved from the deduction on.
Lifecycle == INSTANCE LeaveLifecycle
    WITH request <- IF paid > 0 THEN "APPROVED" ELSE request, paid <- paid
ImplementsLifecycle == Lifecycle!LifecycleSpec

=============================================================================
