------------------------------- MODULE Overtime -------------------------------
(***************************************************************************)
(* The overtime requests of one employee in one month (overtime.service.   *)
(* ts): the window as filed and as approvers corrected it, the hours it    *)
(* pays (overtime-calc.util.ts) under a policy that may change meanwhile,  *)
(* and the approval chain, seen through what initiate(), decide() and      *)
(* abandon() of the engine answer.  Times are hours of the clock.  One     *)
(* step is one write; the reads a write depends on are a step of their own *)
(* where another call may come in between.                                 *)
(***************************************************************************)
EXTENDS Integers, FiniteSets, FiniteSetsExt

CONSTANTS
    Callers, Duties,    \* calls under way together, [Callers -> what they may be]
    Requests,           \* one per day
    Windows,            \* what is entered: [start, end], clock hours
    Policies,           \* overtime policies, see Policy
    Slack,              \* how far the hours stated may be off (0.1 in the code)
    MaxSteps,           \* steps of the longest approval workflow
    None                \* no window

AllDuties == {"create", "approve", "edit", "reject", "cancel", "policy"}
Hour == 0..23
\* What a policy rules: whether there is overtime at all, when the late hours and
\* the next day begin, the limits of the day and of the month.
Policy == [eligible : BOOLEAN, late : Hour, dayEnd : Hour, maxDay : Nat, maxMonth : Nat]

ASSUME OvertimeAssumption ==
    /\ Duties \in [Callers -> SUBSET AllDuties]
    /\ Windows \subseteq [start : Hour, end : Hour]
    /\ Policies \subseteq Policy
    /\ Slack \in Nat /\ MaxSteps \in Nat
    /\ None \notin [start : Int, end : Int]
    /\ Requests # {} /\ Policies # {}

VARIABLES
    request,    \* [Requests -> Request]: overtime_requests
    chain,      \* [Requests -> Chain]: the approval trail of each
    policy,     \* the policy that governs the employee now
    call,       \* [Callers -> Call]
    filed       \* history: [Requests -> the window entered and the policy it was under]

vars == <<request, chain, policy, call, filed>>

\* An end at or before the start is on the next day; so is a time before noon
\* that closes the day or begins the late hours.
Crossing(w) == IF w.end <= w.start THEN [w EXCEPT !.end = @ + 24] ELSE w
AfterNoon(h) == IF h < 12 THEN h + 24 ELSE h

AtMost(a, b) == IF a < b THEN a ELSE b
AtLeast(a, b) == IF a > b THEN a ELSE b

\* Seeded fault: the regular hours go on to the threshold, whenever work ended.
SplitUncut(w, p) ==
    LET total == AtLeast(0, AtMost(w.end, AfterNoon(p.dayEnd)) - w.start)
        regular == AtLeast(0, AfterNoon(p.late) - w.start)
    IN  [hours |-> total, regular |-> regular, late |-> total - regular]

\* splitOvertimeHours(); a rest day has the same two tiers with hours of its own.
Split(w, p) ==
    LET end == AtMost(w.end, AfterNoon(p.dayEnd))
        total == AtLeast(0, end - w.start)
        regular == AtMost(total, AtLeast(0, AtMost(end, AfterNoon(p.late)) - w.start))
    IN  [hours |-> total, regular |-> regular, late |-> total - regular]

Window == [start : Hour, end : 0..47]
Tiers == [hours : 0..47, regular : 0..47, late : 0..47]
Request == [status : {"NONE", "PENDING", "APPROVED", "REJECTED", "CANCELLED"},
            window : Window \union {None}, original : Window \union {None},
            pays : Tiers, policy : Policies]
Chain == [at : {"none", "running", "approved", "rejected", "abandoned"}, left : 0..MaxSteps]
PCs == {"idle", "insert", "initiate", "edit", "decide", "recheck", "approve", "reject", "cancel",
        "abandon"}
\* row: the request as the call read it; to: the window that was entered
Call == [pc : PCs, op : AllDuties, r : Requests, row : Request, to : Window \union {None}]

Nothing == [status |-> "NONE", window |-> None, original |-> None,
            pays |-> [hours |-> 0, regular |-> 0, late |-> 0],
            policy |-> CHOOSE p \in Policies : TRUE]
Idle == [pc |-> "idle", op |-> "create", r |-> CHOOSE r \in Requests : TRUE,
         row |-> Nothing, to |-> None]

TypeOK ==
    /\ request \in [Requests -> Request]
    /\ chain \in [Requests -> Chain]
    /\ policy \in Policies
    /\ call \in [Callers -> Call]
    /\ filed \in [Requests -> [window : Window \union {None}, policy : Policies]]

Goto(c, pc) == call' = [call EXCEPT ![c].pc = pc]
End(c) == call' = [call EXCEPT ![c] = Idle]
Write(c, fields) == request' = [request EXCEPT ![call[c].r] = fields]

Live(s) == s \in {"PENDING", "APPROVED"}
HoursOf(S) == MapThenSumSet(LAMBDA r : request[r].pays.hours, S)
\* getMonthlyOvertimeHours(), without the request r
OtherHours(r) == HoursOf({q \in Requests : q # r /\ Live(request[q].status)})

\* Seeded fault: the other requests of the month are not counted.
AllowedAlone(r, hours) ==
    policy.eligible /\ hours <= policy.maxDay /\ hours <= policy.maxMonth

\* The checks create() and resolveApproverEdit() share: on the hours stated, or on
\* the hours paid.  The limit of the year has the form of that of the month.
Allowed(r, hours) ==
    /\ policy.eligible
    /\ hours <= policy.maxDay
    /\ OtherHours(r) + hours <= policy.maxMonth

-----------------------------------------------------------------------------
(* create() *)

File(c, r, w) ==
    /\ call[c].pc = "idle" /\ "create" \in Duties[c]
    /\ request[r].status = "NONE"       \* one live request a day; one request here
    /\ \A d \in Callers : call[d].pc = "insert" => call[d].r # r    \* a row of its own
    /\ LET hours == Crossing(w).end - w.start
       IN  \E stated \in hours - Slack .. hours + Slack : stated > 0 /\ Allowed(r, stated)
    /\ call' = [call EXCEPT ![c] = [Idle EXCEPT !.pc = "insert", !.r = r, !.to = Crossing(w),
                                                !.row = [Nothing EXCEPT !.policy = policy]]]
    /\ UNCHANGED <<request, chain, policy, filed>>

Insert(c) ==
    LET r == call[c].r  p == call[c].row.policy
    IN  /\ call[c].pc = "insert"
        /\ Write(c, [status |-> "PENDING", window |-> call[c].to, original |-> None,
                     pays |-> Split(call[c].to, p), policy |-> p])
        /\ filed' = [filed EXCEPT ![r] = [window |-> call[c].to, policy |-> p]]
        /\ Goto(c, "initiate")
        /\ UNCHANGED <<chain, policy>>

\* No workflow, some steps to decide, or every step skipped.
Initiate(c) ==
    /\ call[c].pc = "initiate"
    /\ \/ End(c) /\ UNCHANGED chain
       \/ \E n \in 1..MaxSteps :
            /\ chain' = [chain EXCEPT ![call[c].r] = [at |-> "running", left |-> n]]
            /\ End(c)
       \/ /\ chain' = [chain EXCEPT ![call[c].r] = [at |-> "approved", left |-> 0]]
          /\ Goto(c, "recheck")
    /\ UNCHANGED <<request, policy, filed>>

-----------------------------------------------------------------------------
(* approve(), reject(), cancel() *)

Load(c, r, op, pc) ==
    /\ call[c].pc = "idle" /\ op \in Duties[c]
    /\ request[r].status = "PENDING"
    /\ call' = [call EXCEPT ![c] = [Idle EXCEPT !.pc = pc, !.op = op, !.r = r, !.row = request[r]]]
    /\ UNCHANGED <<request, chain, policy, filed>>

StartApprove(c, r) == Load(c, r, "approve", "decide")
StartEdit(c, r) == Load(c, r, "edit", "edit")
StartReject(c, r) == Load(c, r, "reject", "decide")
StartCancel(c, r) == Load(c, r, "cancel", "cancel")

\* assertMayEdit(): whoever may decide the step, or an administrator.
MayDecide(r) == chain[r].at \in {"none", "running"}

Corrected(c, w) == [request[call[c].r] EXCEPT !.window = w]

\* Seeded fault: every edit keeps the window before it.
EditKeepingLast(c) ==
    /\ call[c].pc = "edit" /\ MayDecide(call[c].r)
    /\ \E w \in Windows :
         LET hours == Split(Crossing(w), policy).hours
         IN  /\ hours > 0 /\ Allowed(call[c].r, hours)
             /\ Write(c, [Corrected(c, Crossing(w)) EXCEPT !.original = call[c].row.window])
    /\ Goto(c, "decide")
    /\ UNCHANGED <<chain, policy, filed>>

\* applyApproverEdit(): what was filed is kept by the first edit, as its row was read.
Edit(c) ==
    /\ call[c].pc = "edit" /\ MayDecide(call[c].r)
    /\ \E w \in Windows :
         LET hours == Split(Crossing(w), policy).hours
         IN  /\ hours > 0 /\ Allowed(call[c].r, hours)
             /\ Write(c, [Corrected(c, Crossing(w)) EXCEPT !.original =
                            IF call[c].row.original = None THEN call[c].row.window ELSE @])
    /\ Goto(c, "decide")
    /\ UNCHANGED <<chain, policy, filed>>

EditRefused(c) ==
    /\ call[c].pc = "edit"
    /\ End(c)
    /\ UNCHANGED <<request, chain, policy, filed>>

\* decide() of the engine: one step of the chain, and the last of them.
Decide(c) ==
    LET r == call[c].r  reject == call[c].op = "reject"
    IN  /\ call[c].pc = "decide"
        /\ \/ /\ chain[r].at = "none"
              /\ Goto(c, IF reject THEN "reject" ELSE "recheck") /\ UNCHANGED chain
           \/ /\ chain[r].at = "running" /\ reject
              /\ chain' = [chain EXCEPT ![r] = [at |-> "rejected", left |-> 0]]
              /\ Goto(c, "reject")
           \/ /\ chain[r].at = "running" /\ ~reject /\ chain[r].left = 1
              /\ chain' = [chain EXCEPT ![r] = [at |-> "approved", left |-> 0]]
              /\ Goto(c, "recheck")
           \/ /\ chain[r].at = "running" /\ ~reject /\ chain[r].left > 1
              /\ chain' = [chain EXCEPT ![r].left = @ - 1]
              /\ End(c)
           \/ End(c) /\ UNCHANGED chain     \* not an approver of the step, nothing to decide
    /\ UNCHANGED <<request, policy, filed>>

\* Seeded fault: an approval is not asked whether the policy still allows it.
RecheckSkipped(c) ==
    /\ call[c].pc = "recheck"
    /\ call' = [call EXCEPT ![c].pc = "approve", ![c].row = [request[call[c].r] EXCEPT !.policy = policy]]
    /\ UNCHANGED <<request, chain, policy, filed>>

\* finalizeOvertimeApproval() reads the row and the policy of the moment, and
\* throws where the employee is no longer eligible.
Recheck(c) ==
    /\ call[c].pc = "recheck"
    /\ IF policy.eligible
       THEN call' = [call EXCEPT ![c].pc = "approve",
                                 ![c].row = [request[call[c].r] EXCEPT !.policy = policy]]
       ELSE End(c)
    /\ UNCHANGED <<request, chain, policy, filed>>

\* Seeded fault: the hours of the day it was filed are approved.
ApproveAsFiled(c) ==
    /\ call[c].pc = "approve"
    /\ Write(c, [request[call[c].r] EXCEPT !.status = "APPROVED", !.policy = call[c].row.policy])
    /\ End(c)
    /\ UNCHANGED <<chain, policy, filed>>

\* By id, whatever the status has become; the window stays the row's own.
Approve(c) ==
    LET row == call[c].row
    IN  /\ call[c].pc = "approve"
        /\ Write(c, [request[call[c].r] EXCEPT !.status = "APPROVED", !.policy = row.policy,
                                               !.pays = Split(row.window, row.policy)])
        /\ End(c)
        /\ UNCHANGED <<chain, policy, filed>>

Reject(c) ==
    /\ call[c].pc = "reject"
    /\ Write(c, [request[call[c].r] EXCEPT !.status = "REJECTED"])
    /\ End(c)
    /\ UNCHANGED <<chain, policy, filed>>

Cancel(c) ==
    /\ call[c].pc = "cancel"
    /\ Write(c, [request[call[c].r] EXCEPT !.status = "CANCELLED"])
    /\ Goto(c, "abandon")
    /\ UNCHANGED <<chain, policy, filed>>

\* Seeded fault: the approvers of a cancelled request keep it.
AbandonForgotten(c) ==
    /\ call[c].pc = "abandon"
    /\ End(c)
    /\ UNCHANGED <<request, chain, policy, filed>>

Abandon(c) ==
    /\ call[c].pc = "abandon"
    /\ chain' = [chain EXCEPT ![call[c].r] =
                   IF @.at = "running" THEN [at |-> "abandoned", left |-> 0] ELSE @]
    /\ End(c)
    /\ UNCHANGED <<request, policy, filed>>

\* An administrator edits the policy, or gives the employee another one.
ChangePolicy(c) ==
    /\ call[c].pc = "idle" /\ "policy" \in Duties[c]
    /\ policy' \in Policies \ {policy}
    /\ UNCHANGED <<request, chain, call, filed>>

-----------------------------------------------------------------------------
Init ==
    /\ request = [r \in Requests |-> Nothing]
    /\ chain = [r \in Requests |-> [at |-> "none", left |-> 0]]
    /\ policy \in {p \in Policies : p.eligible}
    /\ call = [c \in Callers |-> Idle]
    /\ filed = [r \in Requests |-> [window |-> None, policy |-> Nothing.policy]]

Create(c) == (\E r \in Requests, w \in Windows : File(c, r, w)) \/ Insert(c) \/ Initiate(c)
Begin(c) == \E r \in Requests :
    StartApprove(c, r) \/ StartEdit(c, r) \/ StartReject(c, r) \/ StartCancel(c, r)
Step(c) ==
    \/ Edit(c) \/ EditRefused(c) \/ Decide(c) \/ Recheck(c) \/ Approve(c)
    \/ Reject(c) \/ Cancel(c) \/ Abandon(c)

Next == \E c \in Callers : Create(c) \/ Begin(c) \/ Step(c) \/ ChangePolicy(c)

Spec == Init /\ [][Next]_vars

-----------------------------------------------------------------------------
(* Properties *)

\* Hours counted one by one, on a clock that starts at noon.
SinceNoon(h) == (h + 12) % 24
Payable(w, p) == {h \in w.start .. w.end - 1 : h - 12 < SinceNoon(p.dayEnd)}
LateHours(w, p) == {h \in Payable(w, p) : h - 12 >= SinceNoon(p.late)}

\* What an approval freezes is what its window pays under the policy it names:
\* after corrections by several approvers, after changes of the policy, over
\* midnight (overtime.service.ts:1068 "what the approver saw is what gets frozen").
ApprovedIsFrozen == \A r \in Requests : request[r].status = "APPROVED" =>
    LET row == request[r]
    IN  /\ row.pays.hours = Cardinality(Payable(row.window, row.policy))
        /\ row.pays.late = Cardinality(LateHours(row.window, row.policy))
        /\ row.pays.regular = row.pays.hours - row.pays.late

\* However often a request is corrected, what the employee filed stays on it
\* ("keep what the employee actually filed", :960).
FiledIsKept == \A r \in Requests : request[r].status # "NONE" =>
    filed[r].window = IF request[r].original = None THEN request[r].window ELSE request[r].original

\* No approval stands on a policy under which the employee may do no overtime
\* (:1071), though the policy changed between filing, steps and approval.
ApprovedIsEligible == \A r \in Requests :
    request[r].status = "APPROVED" => request[r].policy.eligible

\* The request and its chain end together: approved by its last step, rejected by
\* a step, withdrawn from the approvers when it is cancelled (:1268).  A request
\* left behind by an approved chain was refused by the recheck.
EndsWithItsChain == \A r \in Requests : (\A c \in Callers : call[c].pc = "idle") =>
    /\ request[r].status = "APPROVED" => chain[r].at \in {"none", "approved"}
    /\ request[r].status = "REJECTED" => chain[r].at \in {"none", "rejected"}
    /\ request[r].status = "CANCELLED" => chain[r].at \in {"none", "approved", "abandoned"}

\* Live requests that pay no more than when they were filed.
Kept == {r \in Requests : /\ Live(request[r].status)
                          /\ request[r].pays.hours <= Split(filed[r].window, filed[r].policy).hours}

\* Among any of those, the one filed last was checked with the others (:174): its
\* policy's limit of the month holds them all, whatever policies came before or
\* after, whatever was corrected, refused or approved meanwhile.
KeptWithinMonth == \A S \in (SUBSET Kept) \ {{}} :
    \E r \in S : HoursOf(S) <= filed[r].policy.maxMonth + Slack

\* "Maximum overtime hours allowed to be approved per employee per month"
\* (system-settings.service.ts:1953), even under the most generous policy.
MonthlyLimit == \E p \in Policies :
    HoursOf({r \in Requests : request[r].status = "APPROVED"}) <= p.maxMonth
=============================================================================
