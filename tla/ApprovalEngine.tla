---------------------------- MODULE ApprovalEngine ----------------------------
(***************************************************************************)
(* The configurable approval engine (approvals/approval-engine.service.ts):*)
(* the trail of RequestApproval rows of ONE request, and the calls that    *)
(* read and write it.  A call is split where the code awaits the database: *)
(* every action below is one query with the computation that follows it,   *)
(* so two calls interleave exactly where two HTTP requests do.             *)
(***************************************************************************)
EXTENDS Naturals, Sequences

CONSTANTS
    Users,      \* user ids
    Requester,  \* the user id of the employee who raised the request, or None
    None,       \* a null column
    Pools,      \* the directories the organisation passes through
    Workflows,  \* the active workflows an administrator configures over time
    MaxSteps,   \* bound on the length of a workflow
    Callers,    \* concurrent calls of the engine
    MayCrash    \* whether the process may die between two queries

ApproverTypes == {"SUPERVISOR", "MANAGER", "HR_MANAGER", "ADMIN"}
Modes == {"SEQUENTIAL", "PARALLEL"}
Decisions == {"APPROVE", "REJECT"}
Outcomes == {"APPROVED", "REJECTED"}
Steps == 1..MaxSteps

\* A missing workflow and one without steps are treated alike by the code.
NoWorkflow == [mode |-> "SEQUENTIAL", steps |-> <<>>]

ASSUME EngineAssumption ==
    /\ MaxSteps \in Nat
    /\ None \notin Users
    /\ Requester \in Users \union {None}
    /\ Pools \subseteq [ApproverTypes -> SUBSET Users]
    /\ Workflows \subseteq [mode : Modes, steps : Seq(ApproverTypes)]
    /\ \A w \in Workflows : Len(w.steps) \in 1..MaxSteps
    /\ MayCrash \in BOOLEAN

VARIABLES
    trail,    \* the RequestApproval rows of the request, by step order
    workflow, \* the active workflow of the request type
    enabled,  \* the setting supervisor_approval_enabled
    pool,     \* who resolveApprovers finds for each approver type
    call,     \* the local state of each call in flight
    finals    \* history: how often each outcome was returned (2 = twice or more)

engineVars == <<trail, workflow, enabled, pool, call, finals>>

-----------------------------------------------------------------------------
(* Rows and calls *)

Status == {"NONE", "PENDING", "ACTIVE", "APPROVED", "REJECTED", "SKIPPED"}
Comments == {"none", "auto", "closed", "cancelled"}
Row == [status : Status, type : ApproverTypes, resolved : Users \union {None},
        decidedBy : Users \union {None}, comment : Comments]

\* status NONE: the row does not exist
NoRow == [status |-> "NONE", type |-> "ADMIN", resolved |-> None,
          decidedBy |-> None, comment |-> "none"]

Results == {"none", "notEngaged", "waiting", "refused", "abandoned"} \union Outcomes
PCs == {"idle", "initiate", "activateRead", "activate", "decide", "record",
        "close", "advance", "abandon", "returned"}

Call == [pc : PCs, user : Users \union {None}, decision : Decisions,
         rows : [Steps -> Row],        \* the trail as decide() read it
         step : Steps \union {0},      \* the step decided; activation goes on after it
         live : SUBSET Steps,          \* the ACTIVE steps of that reading
         todo : SUBSET Steps,          \* the PENDING steps activateFrom() has yet to visit
         mode : Modes, first : Steps \union {0}, result : Results]

Blank == [s \in Steps |-> NoRow]
Idle == [pc |-> "idle", user |-> None, decision |-> "APPROVE", rows |-> Blank,
         step |-> 0, live |-> {}, todo |-> {}, mode |-> "SEQUENTIAL",
         first |-> 0, result |-> "none"]

Rows == {s \in Steps : trail[s].status # "NONE"}
WithStatus(S) == {s \in Steps : trail[s].status \in S}
Open == {"PENDING", "ACTIVE"}
IsFirst(s, S) == s \in S /\ \A t \in S : s <= t

TypeOK ==
    /\ trail \in [Steps -> Row]
    /\ workflow \in Workflows \union {NoWorkflow}
    /\ enabled \in BOOLEAN
    /\ pool \in Pools
    /\ call \in [Callers -> Call]
    /\ finals \in [Outcomes -> 0..2]

-----------------------------------------------------------------------------
(* Entering and leaving a call *)

Enter(c, pc) ==
    /\ call[c].pc = "idle"
    /\ call' = [call EXCEPT ![c].pc = pc]

EnterDecide(c, u, d) ==
    /\ call[c].pc = "idle"
    /\ call' = [call EXCEPT ![c].pc = "decide", ![c].user = u, ![c].decision = d]

Bump(n) == IF n < 2 THEN n + 1 ELSE n

Return(c, r) ==
    /\ call' = [call EXCEPT ![c] = [Idle EXCEPT !.pc = "returned", !.result = r]]
    /\ finals' = [o \in Outcomes |-> IF o = r THEN Bump(finals[o]) ELSE finals[o]]

Goto(c, pc) ==
    /\ call' = [call EXCEPT ![c].pc = pc]
    /\ UNCHANGED finals

Done(c) ==
    /\ call[c].pc = "returned"
    /\ call' = [call EXCEPT ![c] = Idle]

-----------------------------------------------------------------------------
(* initiate() *)

InitialRow(w, s) ==
    IF s \in 1..Len(w.steps)
    THEN [NoRow EXCEPT !.status = "PENDING", !.type = w.steps[s]]
    ELSE NoRow

InitiateCreate(c) ==
    /\ call[c].pc = "initiate"
    /\ IF ~enabled \/ workflow.steps = <<>>
       THEN /\ Return(c, "notEngaged")
            /\ UNCHANGED trail
       ELSE /\ trail' = [s \in Steps |-> InitialRow(workflow, s)]
            /\ call' = [call EXCEPT ![c].pc = "activateRead", ![c].mode = workflow.mode]
            /\ UNCHANGED finals
    /\ UNCHANGED <<workflow, enabled, pool>>

-----------------------------------------------------------------------------
(* activateFrom(): read the PENDING steps after call[c].step, then visit them *)

\* Seeded fault: "stepOrder > fromOrder" where fromOrder is already one past the step.
ActivateReadOffByOne(c) ==
    /\ call[c].pc = "activateRead"
    /\ call' = [call EXCEPT ![c].pc = "activate",
                  ![c].todo = {s \in WithStatus({"PENDING"}) : s > call[c].step + 1}]
    /\ UNCHANGED <<trail, workflow, enabled, pool, finals>>

ActivateRead(c) ==
    /\ call[c].pc = "activateRead"
    /\ call' = [call EXCEPT ![c].pc = "activate",
                  ![c].todo = {s \in WithStatus({"PENDING"}) : s > call[c].step}]
    /\ UNCHANGED <<trail, workflow, enabled, pool, finals>>

\* the requester is dropped from every pool
Approvers(s) == pool[trail[s].type] \ {Requester}

SkipStep(c, s) ==
    /\ Approvers(s) = {}
    /\ trail' = [trail EXCEPT ![s].status = "SKIPPED", ![s].comment = "auto"]
    /\ call' = [call EXCEPT ![c].todo = @ \ {s}]

ActivateStep(c, s) ==
    /\ \E u \in Approvers(s) :
         trail' = [trail EXCEPT ![s].status = "ACTIVE",
            ![s].resolved = IF trail[s].type = "SUPERVISOR" THEN u ELSE None]
    /\ call' = [call EXCEPT
         ![c].todo = IF call[c].mode = "SEQUENTIAL" THEN {} ELSE @ \ {s},
         ![c].first = IF @ = 0 THEN s ELSE @]

ActivateNext(c) ==
    /\ call[c].pc = "activate"
    /\ \E s \in call[c].todo :
         /\ IsFirst(s, call[c].todo)
         /\ SkipStep(c, s) \/ ActivateStep(c, s)
    /\ UNCHANGED <<workflow, enabled, pool, finals>>

ActivateReturn(c) ==
    /\ call[c].pc = "activate"
    /\ call[c].todo = {}
    /\ Return(c, IF call[c].first = 0 THEN "APPROVED" ELSE "waiting")
    /\ UNCHANGED <<trail, workflow, enabled, pool>>

-----------------------------------------------------------------------------
(* decide() *)

\* ADMIN overrides; a snapshotted approver is exclusive; otherwise the live
\* pool decides, from which the requester is NOT dropped.
IsEligible(u, row) ==
    \/ u \in pool["ADMIN"]
    \/ row.resolved # None /\ u = row.resolved
    \/ row.resolved = None /\ u \in pool[row.type]

DecideRead(c) ==
    /\ call[c].pc = "decide"
    /\ IF Rows = {} THEN Return(c, "notEngaged")
       ELSE IF WithStatus({"ACTIVE"}) = {} THEN Return(c, "refused")
       ELSE /\ call' = [call EXCEPT ![c].pc = "record", ![c].rows = trail,
                          ![c].live = WithStatus({"ACTIVE"})]
            /\ UNCHANGED finals
    /\ UNCHANGED <<trail, workflow, enabled, pool>>

\* The row is written by id: what happened to it since DecideRead is not
\* looked at.
DecideRecord(c) ==
    LET me == call[c]
        mine == {s \in me.live : IsEligible(me.user, me.rows[s])} IN
    /\ me.pc = "record"
    /\ \/ /\ mine = {}
          /\ Return(c, "refused")
          /\ UNCHANGED trail
       \/ \E s \in mine :
          /\ IsFirst(s, mine)
          /\ trail' = [trail EXCEPT ![s].decidedBy = me.user, ![s].comment = "none",
               ![s].status = IF me.decision = "REJECT" THEN "REJECTED" ELSE "APPROVED"]
          /\ call' = [call EXCEPT
               ![c] = [me EXCEPT !.step = s, !.live = @ \ {s}, !.rows = Blank,
                         !.pc = IF me.decision = "REJECT" THEN "close" ELSE "advance"]]
          /\ UNCHANGED finals
    /\ UNCHANGED <<workflow, enabled, pool>>

CloseTrail(comment) ==
    trail' = [s \in Steps |-> IF trail[s].status \in Open
                THEN [trail[s] EXCEPT !.status = "SKIPPED", !.comment = comment]
                ELSE trail[s]]

RejectClose(c) ==
    /\ call[c].pc = "close"
    /\ CloseTrail("closed")
    /\ Return(c, "REJECTED")
    /\ UNCHANGED <<workflow, enabled, pool>>

\* Seeded fault: the siblings still live are not looked at.
AdvanceIgnoringSiblings(c) ==
    /\ call[c].pc = "advance"
    /\ call' = [call EXCEPT ![c].pc = "activateRead", ![c].mode = workflow.mode]
    /\ UNCHANGED <<trail, workflow, enabled, pool, finals>>

\* Seeded fault: the step just decided is not filtered out of stillLive.
AdvanceCountingItself(c) ==
    /\ call[c].pc = "advance"
    /\ Return(c, "waiting")
    /\ UNCHANGED <<trail, workflow, enabled, pool>>

\* Whether siblings are still live is judged on the rows DecideRead saw; the
\* mode is that of the workflow active NOW.
Advance(c) ==
    /\ call[c].pc = "advance"
    /\ IF call[c].live # {} THEN Return(c, "waiting")
       ELSE /\ call' = [call EXCEPT ![c].pc = "activateRead", ![c].mode = workflow.mode]
            /\ UNCHANGED finals
    /\ UNCHANGED <<trail, workflow, enabled, pool>>

-----------------------------------------------------------------------------
(* abandon() *)

Abandon(c) ==
    /\ call[c].pc = "abandon"
    /\ CloseTrail("cancelled")
    /\ Return(c, "abandoned")
    /\ UNCHANGED <<workflow, enabled, pool>>

-----------------------------------------------------------------------------
(* The environment of the engine, and the specification *)

\* ApprovalWorkflowService.upsert / setActive: the active workflow is replaced,
\* or deactivated (setActive passes through "none active").
ConfigureWorkflow ==
    /\ workflow' \in (Workflows \union {NoWorkflow}) \ {workflow}
    /\ UNCHANGED <<trail, enabled, pool, call, finals>>

\* Supervisors, managers and roles are edited at any time.
DirectoryChanges ==
    /\ pool' \in Pools \ {pool}
    /\ UNCHANGED <<trail, workflow, enabled, call, finals>>

\* The process dies: every call is lost, the rows stay.
Crash ==
    /\ MayCrash
    /\ \E c \in Callers : call[c].pc # "idle"
    /\ call' = [c \in Callers |-> Idle]
    /\ UNCHANGED <<trail, workflow, enabled, pool, finals>>

EngineStep(c) ==
    \/ InitiateCreate(c) \/ ActivateRead(c) \/ ActivateNext(c) \/ ActivateReturn(c)
    \/ DecideRead(c) \/ DecideRecord(c) \/ RejectClose(c) \/ Advance(c)
    \/ Abandon(c)

\* A request is created once, so its trail is initiated once; any user may
\* call decide and the requester may withdraw at any moment.
CallInitiate(c) ==
    /\ Rows = {}
    /\ \A d \in Callers : call[d].pc # "initiate"
    /\ Enter(c, "initiate")
    /\ UNCHANGED <<trail, workflow, enabled, pool, finals>>

CallDecide(c) ==
    /\ \E u \in Users, d \in Decisions : EnterDecide(c, u, d)
    /\ UNCHANGED <<trail, workflow, enabled, pool, finals>>

CallAbandon(c) ==
    /\ Enter(c, "abandon")
    /\ UNCHANGED <<trail, workflow, enabled, pool, finals>>

CallDone(c) ==
    /\ Done(c)
    /\ UNCHANGED <<trail, workflow, enabled, pool, finals>>

Init ==
    /\ trail = Blank
    /\ workflow \in Workflows \union {NoWorkflow}
    /\ enabled \in BOOLEAN
    /\ pool \in Pools
    /\ call = [c \in Callers |-> Idle]
    /\ finals = [o \in Outcomes |-> 0]

Next ==
    \/ \E c \in Callers :
         EngineStep(c) \/ CallInitiate(c) \/ CallDecide(c) \/ CallAbandon(c) \/ CallDone(c)
    \/ ConfigureWorkflow \/ DirectoryChanges \/ Crash

Spec == Init /\ [][Next]_engineVars
-----------------------------------------------------------------------------
(* Properties *)

\* Steps are reached strictly in order: the steps nobody has been asked about
\* yet are the last ones of the chain, whatever calls overlap, crash or lose a
\* race (activateFrom's "from fromOrder onward", in both modes).
PendingSuffix ==
    \A s, t \in Steps : s < t /\ trail[s].status = "PENDING"
        => trail[t].status \in {"PENDING", "NONE"}

\* Whatever calls overlap, no outcome is returned for a chain with a step that
\* was never reached: each one has been asked, skipped or closed.
FinalReachesEveryStep ==
    (\E o \in Outcomes : finals[o] > 0) => WithStatus({"PENDING"}) = {}

\* A request is returned as APPROVED only when every step of its chain either
\* accepted or had nobody to ask.
FinalApprovalIsUnanimous ==
    finals["APPROVED"] > 0 => \A s \in Rows :
        \/ trail[s].status = "APPROVED"
        \/ trail[s].status = "SKIPPED" /\ trail[s].comment = "auto"

\* The callers run their side effects (deduct the days, pay the overtime) once
\* per returned outcome, so a chain returns one outcome, once.
OneOutcome == finals["APPROVED"] + finals["REJECTED"] <= 1

Quiet == \A c \in Callers : call[c].pc \in {"idle", "returned"}
Cancelled == \E s \in Steps : trail[s].comment = "cancelled"

\* A chain nobody is working on is waiting for somebody, or has been answered:
\* it cannot be left with all steps consumed and no outcome, since decide()
\* refuses a chain without an ACTIVE step and nothing else moves it.
ChainNeverStuck ==
    Quiet /\ Rows # {} /\ ~Cancelled
        => \/ WithStatus({"ACTIVE"}) # {}
           \/ \E o \in Outcomes : finals[o] > 0

\* "The request finalizes when the last outstanding step approves": a chain
\* whose steps all accepted, with no call left in flight, was finalized.
AllApprovedMeansFinalized ==
    Quiet /\ Rows # {} /\ Rows = WithStatus({"APPROVED"}) => finals["APPROVED"] > 0

-----------------------------------------------------------------------------
(* The inductive invariant behind PendingSuffix and FinalReachesEveryStep *)

Recorded == {"close", "advance", "activateRead", "activate"}

\* What a call in flight may rely on although others write the same rows.
CallInv(c) ==
    /\ call[c].pc \in {"idle", "initiate", "decide", "record", "abandon"} => call[c].step = 0
    /\ call[c].pc # "activate" => call[c].first = 0
    /\ call[c].pc = "initiate" => Rows = {}
    /\ call[c].pc \in Recorded \union {"record"} => Rows # {}
    /\ call[c].pc = "record" =>
         \A s \in call[c].live : trail[s].status \notin {"NONE", "PENDING"}
    /\ call[c].pc \in Recorded =>
         \A s \in Steps : s <= call[c].step => trail[s].status # "PENDING"
    /\ call[c].pc = "activate" =>
         /\ call[c].todo \subseteq Rows
         /\ call[c].todo # {} \/ call[c].first = 0
              => WithStatus({"PENDING"}) \subseteq call[c].todo

\* The rows a call has yet to visit include every row still PENDING, so
\* visiting them in order keeps the PENDING rows a suffix of the chain.
OrderInv ==
    /\ TypeOK
    /\ PendingSuffix
    /\ FinalReachesEveryStep
    /\ Rows = {} => \A o \in Outcomes : finals[o] = 0
    /\ \A c \in Callers : CallInv(c)
    /\ \A c, d \in Callers : call[c].pc = "initiate" /\ call[d].pc = "initiate" => c = d
=============================================================================
