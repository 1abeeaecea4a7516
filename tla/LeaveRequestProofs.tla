-------------------------- MODULE LeaveRequestProofs --------------------------
(***************************************************************************)
(* Proofs about LeaveRequest: the order of finalizeLeaveApproval() for any *)
(* number of overlapping calls and crashes; the refinement of              *)
(* LeaveLifecycle by calls that do not overlap; and, since every behaviour *)
(* of the service is one of ApprovalEngine, what the theorems about the    *)
(* engine say of a leave request.                                          *)
(***************************************************************************)
EXTENDS LeaveRequest, ApprovalEngineProofs

\* A call past the deduction knows that the days were paid.
PaidInv ==
    /\ paid \in 0..2
    /\ svc \in [Callers -> Service]
    /\ NeverApprovedUnpaid
    /\ \A c \in Callers : svc[c].at \in {"status", "attendance"} => paid > 0

\* A finished call is a service record.
LEMMA RestingIsService == Resting \in Service
  BY DEF Resting, Service, Ops

\* A move keeps the other calls, and the operation of a call that goes on.
LEMMA MoveEffect ==
  ASSUME svc \in [Callers -> Service], NEW c \in Callers,
         NEW at \in {"idle", "engine", "deduct", "status", "attendance", "reject", "cancel"},
         Move(c, at)
  PROVE  /\ svc' \in [Callers -> Service]
         /\ svc'[c].at = at
         /\ at # "idle" => svc'[c].op = svc[c].op
         /\ \A d \in Callers \ {c} : svc'[d] = svc[d]
<1>1. [svc[c] EXCEPT !.at = at] \in Service /\ [svc[c] EXCEPT !.at = at].at = at
  BY DEF Service
<1>2. Resting.at = "idle"
  BY DEF Resting
<1>3. [svc[c] EXCEPT !.at = at].op = svc[c].op
  BY DEF Service
<1> QED BY <1>1, <1>2, <1>3, RestingIsService DEF Move

\* Entering a call from rest: create, approve, reject or cancel.
LEMMA StartEffect ==
  ASSUME svc \in [Callers -> Service], NEW c \in Callers,
         NEW op \in Ops, NEW u \in Users \union {None}, NEW at \in {"engine", "cancel"},
         svc' = [svc EXCEPT ![c] = [op |-> op, user |-> u, at |-> at]]
  PROVE  /\ svc' \in [Callers -> Service]
         /\ svc'[c].at = at /\ svc'[c].op = op
         /\ \A d \in Callers \ {c} : svc'[d] = svc[d]
  BY DEF Service

\* No request exists, so none is approved.
LEMMA PaidInit == LeaveInit => PaidInv
  BY RestingIsService DEF LeaveInit, PaidInv, NeverApprovedUnpaid, Resting

\* No step of any call, and no crash, breaks PaidInv: only Deduct leads on to the writes.
LEMMA PaidStep == PaidInv /\ [LeaveNext]_vars => PaidInv'
<1> SUFFICES ASSUME PaidInv, [LeaveNext]_vars PROVE PaidInv'
  OBVIOUS
<1> USE DEF PaidInv, NeverApprovedUnpaid
<1>1. ASSUME NEW c \in Callers, Create(c) PROVE PaidInv'
  <2>1. /\ svc' \in [Callers -> Service] /\ svc'[c].at = "engine"
        /\ \A d \in Callers \ {c} : svc'[d] = svc[d]
    BY <1>1, StartEffect DEF Create, Ops
  <2> QED BY <1>1, <2>1 DEF Create
<1>2. ASSUME NEW c \in Callers, Load(c) PROVE PaidInv'
  <2>1. PICK u \in Users, op \in {"approve", "reject"} :
          svc' = [svc EXCEPT ![c] = [op |-> op, user |-> u, at |-> "engine"]]
    BY <1>2 DEF Load
  <2>2. /\ svc' \in [Callers -> Service] /\ svc'[c].at = "engine"
        /\ \A d \in Callers \ {c} : svc'[d] = svc[d]
    BY <2>1, StartEffect DEF Ops
  <2> QED BY <1>2, <2>2 DEF Load
<1>3. ASSUME NEW c \in Callers, EngineReturned(c) PROVE PaidInv'
  <2>1. AfterEngine(c) \in {"idle", "deduct", "reject"}
    BY DEF AfterEngine
  <2>2. /\ svc' \in [Callers -> Service] /\ svc'[c].at \notin {"status", "attendance"}
        /\ \A d \in Callers \ {c} : svc'[d] = svc[d]
    BY <1>3, <2>1, MoveEffect DEF EngineReturned
  <2> QED BY <1>3, <2>2 DEF EngineReturned
<1>4. ASSUME NEW c \in Callers, Deduct(c) PROVE PaidInv'
  <2>1. CASE UNCHANGED paid /\ Move(c, "idle")
    BY <1>4, <2>1, MoveEffect DEF Deduct
  <2>2. CASE paid' = Bump(paid) /\ Move(c, "status")
    <3>1. paid' \in 0..2 /\ paid' > 0
      BY <2>2 DEF Bump
    <3> QED BY <1>4, <2>2, <3>1, MoveEffect DEF Deduct
  <2> QED BY <1>4, <2>1, <2>2 DEF Deduct
<1>5. ASSUME NEW c \in Callers, WriteApproved(c) PROVE PaidInv'
  BY <1>5, MoveEffect DEF WriteApproved
<1>6. ASSUME NEW c \in Callers, CreateAttendances(c) PROVE PaidInv'
  BY <1>6, MoveEffect DEF CreateAttendances
<1>7. ASSUME NEW c \in Callers, WriteRejected(c) PROVE PaidInv'
  BY <1>7, MoveEffect DEF WriteRejected
<1>8. ASSUME NEW c \in Callers, LoadCancel(c) PROVE PaidInv'
  <2>1. /\ svc' \in [Callers -> Service] /\ svc'[c].at = "cancel"
        /\ \A d \in Callers \ {c} : svc'[d] = svc[d]
    BY <1>8, StartEffect, EngineAssumption DEF LoadCancel, Ops
  <2> QED BY <1>8, <2>1 DEF LoadCancel
<1>9. ASSUME NEW c \in Callers, WriteCancelled(c) PROVE PaidInv'
  BY <1>9, MoveEffect DEF WriteCancelled
<1>10. CASE ServiceCrash
  BY <1>10, RestingIsService DEF ServiceCrash, Resting
<1>11. CASE UNCHANGED leaveVars
  BY <1>11 DEF leaveVars
<1> QED
  BY <1>1, <1>2, <1>3, <1>4, <1>5, <1>6, <1>7, <1>8, <1>9, <1>10, <1>11
     DEF LeaveNext, ServiceStep, vars

\* However calls overlap and wherever the process dies, nothing of an approval
\* is visible before the days were deducted.
THEOREM DeductedFirst == LeaveSpec => []NeverApprovedUnpaid
<1>1. PaidInv => NeverApprovedUnpaid
  BY DEF PaidInv
<1> QED BY <1>1, PaidInit, PaidStep, PTL DEF LeaveSpec

-----------------------------------------------------------------------------
(* The refinement, for one call at a time and no crash *)

\* How far the one call in flight has come.
Progress(c) ==
    \/ svc[c].at \in {"deduct", "reject"} /\ request = "PENDING" /\ paid = 0
    \/ svc[c].at = "engine" /\ svc[c].op # "cancel" /\ request = "PENDING" /\ paid = 0
    \/ svc[c].at = "cancel" /\ svc[c].op = "cancel" /\ request = "PENDING" /\ paid = 0
    \/ svc[c].at = "engine" /\ svc[c].op = "cancel" /\ request = "CANCELLED" /\ paid = 0
    \/ svc[c].at = "status" /\ request = "PENDING" /\ paid = 1
    \/ svc[c].at \in {"idle", "attendance"} /\ request = "APPROVED" /\ paid = 1
    \/ svc[c].at = "idle" /\ request # "APPROVED" /\ paid = 0

SerialInv ==
    /\ paid \in 0..2
    /\ request \in {"NONE", "PENDING"} \union Decided
    /\ svc \in [Callers -> Service]
    /\ \A c \in Callers : Progress(c)
    /\ Callers = {} => request = "NONE" /\ paid = 0

\* No call has started.
LEMMA SerialInit == LeaveInit => SerialInv
  BY RestingIsService DEF LeaveInit, SerialInv, Progress, Resting

AbstractRequest == IF paid > 0 THEN "APPROVED" ELSE request

\* Every step of the only call in flight keeps SerialInv, and is a step of
\* LeaveLifecycle or leaves its variables alone.
LEMMA SerialStep ==
  ASSUME \A c, d \in Callers : c = d, ~MayCrash, SerialInv, [LeaveNext]_vars
  PROVE  /\ SerialInv'
         /\ [Lifecycle!Submit \/ Lifecycle!Approve \/ Lifecycle!Decline]_(Lifecycle!lifecycleVars)
<1> DEFINE Refined ==
      \/ Lifecycle!Submit \/ Lifecycle!Approve \/ Lifecycle!Decline
      \/ UNCHANGED <<AbstractRequest, paid>>
<1> SUFFICES SerialInv' /\ Refined
  BY DEF Lifecycle!lifecycleVars, AbstractRequest
<1> USE DEF SerialInv, Progress, AbstractRequest, Decided
<1> USE DEF Lifecycle!Submit, Lifecycle!Approve, Lifecycle!Decline
<1>1. ASSUME NEW c \in Callers, Create(c) PROVE SerialInv' /\ Refined
  <2>1. /\ svc' \in [Callers -> Service] /\ svc'[c].at = "engine" /\ svc'[c].op = "create"
    BY <1>1, StartEffect DEF Create, Ops
  <2> QED BY <1>1, <2>1 DEF Create
<1>2. ASSUME NEW c \in Callers, Load(c) PROVE SerialInv' /\ Refined
  <2>1. PICK u \in Users, op \in {"approve", "reject"} :
          svc' = [svc EXCEPT ![c] = [op |-> op, user |-> u, at |-> "engine"]]
    BY <1>2 DEF Load
  <2>2. /\ svc' \in [Callers -> Service] /\ svc'[c].at = "engine" /\ svc'[c].op = op
    BY <2>1, StartEffect DEF Ops
  <2> QED BY <1>2, <2>2 DEF Load
<1>3. ASSUME NEW c \in Callers, EngineReturned(c) PROVE SerialInv' /\ Refined
  <2>1. /\ AfterEngine(c) \in {"idle", "deduct", "reject"}
        /\ svc[c].op = "cancel" => AfterEngine(c) = "idle"
    BY DEF AfterEngine
  <2>2. /\ svc' \in [Callers -> Service] /\ svc'[c].at = AfterEngine(c)
    BY <1>3, <2>1, MoveEffect DEF EngineReturned
  <2> QED BY <1>3, <2>1, <2>2 DEF EngineReturned
<1>4. ASSUME NEW c \in Callers, Deduct(c) PROVE SerialInv' /\ Refined
  <2>0. request = "PENDING" /\ paid = 0
    BY <1>4 DEF Deduct
  <2>1. CASE UNCHANGED paid /\ Move(c, "idle")
    BY <1>4, <2>0, <2>1, MoveEffect DEF Deduct
  <2>2. CASE paid' = Bump(paid) /\ Move(c, "status")
    <3>1. paid' = 1
      BY <2>0, <2>2 DEF Bump
    <3>2. svc' \in [Callers -> Service] /\ svc'[c].at = "status"
      BY <2>2, MoveEffect
    <3> QED BY <1>4, <2>0, <3>1, <3>2 DEF Deduct
  <2> QED BY <1>4, <2>1, <2>2 DEF Deduct
<1>5. ASSUME NEW c \in Callers, WriteApproved(c) PROVE SerialInv' /\ Refined
  BY <1>5, MoveEffect DEF WriteApproved
<1>6. ASSUME NEW c \in Callers, CreateAttendances(c) PROVE SerialInv' /\ Refined
  BY <1>6, MoveEffect DEF CreateAttendances
<1>7. ASSUME NEW c \in Callers, WriteRejected(c) PROVE SerialInv' /\ Refined
  BY <1>7, MoveEffect DEF WriteRejected
<1>8. ASSUME NEW c \in Callers, LoadCancel(c) PROVE SerialInv' /\ Refined
  <2>1. /\ svc' \in [Callers -> Service] /\ svc'[c].at = "cancel" /\ svc'[c].op = "cancel"
    BY <1>8, StartEffect, EngineAssumption DEF LoadCancel, Ops
  <2> QED BY <1>8, <2>1 DEF LoadCancel
<1>9. ASSUME NEW c \in Callers, WriteCancelled(c) PROVE SerialInv' /\ Refined
  <2>1. svc' \in [Callers -> Service] /\ svc'[c].at = "engine" /\ svc'[c].op = svc[c].op
    BY <1>9, MoveEffect DEF WriteCancelled
  <2> QED BY <1>9, <2>1 DEF WriteCancelled
<1>10. CASE ServiceCrash
  BY <1>10 DEF ServiceCrash
<1>11. CASE UNCHANGED leaveVars
  BY <1>11 DEF leaveVars
<1> QED
  BY <1>1, <1>2, <1>3, <1>4, <1>5, <1>6, <1>7, <1>8, <1>9, <1>10, <1>11
     DEF LeaveNext, ServiceStep, vars

\* Calls for a request that do not overlap, with no crash, implement the
\* promise of LeaveLifecycle: one answer, paid exactly when approved.
THEOREM SerialRefinement ==
  ASSUME \A c, d \in Callers : c = d, ~MayCrash
  PROVE  LeaveSpec => ImplementsLifecycle
<1>1. LeaveInit => (AbstractRequest = "NONE" /\ paid = 0)
  BY DEF LeaveInit, AbstractRequest
<1>2. SerialInv /\ [LeaveNext]_vars
        => /\ SerialInv'
           /\ [Lifecycle!Submit \/ Lifecycle!Approve \/ Lifecycle!Decline]_(Lifecycle!lifecycleVars)
  BY SerialStep
<1> QED
  BY <1>1, <1>2, SerialInit, PTL
     DEF LeaveSpec, ImplementsLifecycle, Lifecycle!LifecycleSpec, AbstractRequest

-----------------------------------------------------------------------------
(* The service uses the engine as ApprovalEngine allows *)

\* No call starts before the request exists, and a call at rest holds nothing.
UseInv ==
    /\ request = "NONE" => /\ Rows = {}
                           /\ \A c \in Callers : svc[c].at = "idle" /\ call[c].pc = "idle"
    /\ \A c \in Callers : call[c].pc = "idle" => call[c] = Idle
    /\ svc \in [Callers -> Service]
    /\ TypeOK

\* Nothing exists.
LEMMA UseInit == LeaveInit => UseInv
<1> SUFFICES ASSUME LeaveInit PROVE UseInv
  OBVIOUS
<1>1. TypeOK /\ svc \in [Callers -> Service]
  BY TypeInit, RestingIsService DEF LeaveInit
<1>2. Rows = {}
  BY DEF LeaveInit, Init, Rows, Blank, NoRow
<1>3. \A c \in Callers : call[c] = Idle /\ svc[c] = Resting
  BY DEF LeaveInit, Init
<1> QED BY <1>1, <1>2, <1>3 DEF UseInv, Idle, Resting

\* Each step of the service is a step of the engine, or leaves its variables alone.
LEMMA UseMaps ==
  ASSUME UseInv, [LeaveNext]_vars
  PROVE  [Next]_engineVars
<1>1. ASSUME NEW c \in Callers, ServiceStep(c) PROVE [Next]_engineVars
  <2>1. CASE Create(c)
    <3>1. CallInitiate(c)
      BY <2>1 DEF Create, CallInitiate, UseInv, Enter
    <3> QED BY <3>1 DEF Next
  <2>2. CASE Load(c)
    <3>1. CallDecide(c)
      BY <2>2 DEF Load, CallDecide, DecisionOf, Decisions
    <3> QED BY <3>1 DEF Next
  <2>3. CASE EngineReturned(c)
    <3>1. CallDone(c)
      BY <2>3 DEF EngineReturned, CallDone
    <3> QED BY <3>1 DEF Next
  <2>4. CASE WriteCancelled(c)
    <3>1. CallAbandon(c)
      BY <2>4 DEF WriteCancelled, CallAbandon
    <3> QED BY <3>1 DEF Next
  <2>5. CASE \/ Deduct(c) \/ WriteApproved(c) \/ CreateAttendances(c)
             \/ WriteRejected(c) \/ LoadCancel(c)
    BY <2>5 DEF Deduct, WriteApproved, CreateAttendances, WriteRejected, LoadCancel
  <2> QED BY <1>1, <2>1, <2>2, <2>3, <2>4, <2>5 DEF ServiceStep
<1>2. CASE ServiceCrash
  <2>1. UNCHANGED engineVars \/ Crash
    <3>1. CASE \E c \in Callers : call[c].pc # "idle"
      BY <1>2, <3>1 DEF ServiceCrash, Crash
    <3>2. CASE \A c \in Callers : call[c].pc = "idle"
      <4>1. call = [c \in Callers |-> Idle]
        BY <3>2 DEF UseInv, TypeOK
      <4> QED BY <1>2, <4>1 DEF ServiceCrash, engineVars
    <3> QED BY <3>1, <3>2
  <2> QED BY <2>1 DEF Next
<1>3. CASE ConfigureWorkflow \/ DirectoryChanges
  BY <1>3 DEF Next
<1>4. ASSUME NEW c \in Callers, EngineStep(c) PROVE [Next]_engineVars
  BY <1>4 DEF Next
<1>5. CASE UNCHANGED vars
  BY <1>5 DEF vars
<1> QED BY <1>1, <1>2, <1>3, <1>4, <1>5 DEF LeaveNext

\* A step of the engine: the call's own record changes, and is not left idle.
LEMMA EngineStepEffect ==
  ASSUME call \in [Callers -> Call], NEW c \in Callers, EngineStep(c)
  PROVE  /\ call[c].pc \notin {"idle", "returned"}
         /\ call'[c].pc \notin {"idle", "initiate", "decide", "abandon"}
         /\ \A d \in Callers \ {c} : call'[d] = call[d]
<1>1. ASSUME NEW r \in Results, Return(c, r)
      PROVE  call'[c].pc = "returned" /\ \A d \in Callers \ {c} : call'[d] = call[d]
  BY <1>1 DEF Return, Idle
<1>2. CASE InitiateCreate(c)
  BY <1>1, <1>2 DEF InitiateCreate, Call, Results
<1>3. CASE ActivateRead(c)
  BY <1>3 DEF ActivateRead, Call
<1>4. CASE ActivateNext(c)
  BY <1>4 DEF ActivateNext, SkipStep, ActivateStep, Call
<1>5. CASE ActivateReturn(c)
  BY <1>1, <1>5 DEF ActivateReturn, Results, Outcomes
<1>6. CASE DecideRead(c)
  BY <1>1, <1>6 DEF DecideRead, Call, Results
<1>7. CASE DecideRecord(c)
  <2> DEFINE me == call[c]
             mine == {s \in me.live : IsEligible(me.user, me.rows[s])}
  <2>1. me \in Call /\ me.pc = "record"
    BY <1>7 DEF DecideRecord
  <2>2. CASE Return(c, "refused")
    BY <1>1, <2>1, <2>2 DEF Results
  <2>3. ASSUME NEW s \in mine,
               call' = [call EXCEPT
                 ![c] = [me EXCEPT !.step = s, !.live = @ \ {s}, !.rows = Blank,
                           !.pc = IF me.decision = "REJECT" THEN "close" ELSE "advance"]]
        PROVE  call'[c].pc \in {"close", "advance"} /\ \A d \in Callers \ {c} : call'[d] = call[d]
    BY <2>1, <2>3 DEF Call
  <2> QED BY <1>7, <2>1, <2>2, <2>3, <1>1 DEF DecideRecord, Results
<1>8. CASE RejectClose(c)
  BY <1>1, <1>8 DEF RejectClose, Results, Outcomes
<1>9. CASE Advance(c)
  BY <1>1, <1>9 DEF Advance, Call, Results
<1>10. CASE Abandon(c)
  BY <1>1, <1>10 DEF Abandon, Results
<1> QED
  BY <1>2, <1>3, <1>4, <1>5, <1>6, <1>7, <1>8, <1>9, <1>10 DEF EngineStep

\* The service keeps UseInv: only create() works on a request that does not exist.
LEMMA UseStep == UseInv /\ [LeaveNext]_vars => UseInv'
<1> SUFFICES ASSUME UseInv, [LeaveNext]_vars PROVE UseInv'
  OBVIOUS
<1>0. TypeOK'
  BY UseMaps, TypeStep DEF UseInv
<1> call \in [Callers -> Call] /\ svc \in [Callers -> Service]
  BY DEF UseInv, TypeOK
<1> USE DEF UseInv
<1>1. ASSUME NEW c \in Callers, Create(c) PROVE UseInv'
  <2>1. svc' \in [Callers -> Service]
    BY <1>1, StartEffect DEF Create, Ops
  <2>2. /\ call'[c].pc = "initiate"
        /\ \A d \in Callers \ {c} : call'[d] = call[d]
    BY <1>1 DEF Create, Enter, Call
  <2> QED BY <1>0, <1>1, <2>1, <2>2 DEF Create
<1>2. ASSUME NEW c \in Callers, Load(c) PROVE UseInv'
  <2>1. PICK u \in Users, op \in {"approve", "reject"} :
          /\ EnterDecide(c, u, DecisionOf(op))
          /\ svc' = [svc EXCEPT ![c] = [op |-> op, user |-> u, at |-> "engine"]]
    BY <1>2 DEF Load
  <2>2. svc' \in [Callers -> Service]
    BY <2>1, StartEffect DEF Ops
  <2>3. /\ call'[c].pc = "decide"
        /\ \A d \in Callers \ {c} : call'[d] = call[d]
    BY <2>1 DEF EnterDecide, Call
  <2> QED BY <1>0, <1>2, <2>2, <2>3 DEF Load
<1>3. ASSUME NEW c \in Callers, EngineReturned(c) PROVE UseInv'
  <2>1. AfterEngine(c) \in {"idle", "deduct", "reject"}
    BY DEF AfterEngine
  <2>2. svc' \in [Callers -> Service]
    BY <1>3, <2>1, MoveEffect DEF EngineReturned
  <2>3. /\ call'[c] = Idle
        /\ \A d \in Callers \ {c} : call'[d] = call[d]
    BY <1>3 DEF EngineReturned, Done
  <2> QED BY <1>0, <1>3, <2>2, <2>3 DEF EngineReturned
<1>4. ASSUME NEW c \in Callers,
             Deduct(c) \/ WriteApproved(c) \/ CreateAttendances(c) \/ WriteRejected(c)
      PROVE UseInv'
  <2>1. call' = call /\ trail' = trail /\ request # "NONE" /\ request' # "NONE"
    BY <1>4 DEF Deduct, WriteApproved, CreateAttendances, WriteRejected, engineVars
  <2>2. svc' \in [Callers -> Service]
    BY <1>4, MoveEffect DEF Deduct, WriteApproved, CreateAttendances, WriteRejected
  <2> QED BY <1>0, <2>1, <2>2 DEF Rows
<1>5. ASSUME NEW c \in Callers, LoadCancel(c) PROVE UseInv'
  <2>1. svc' \in [Callers -> Service]
    BY <1>5, StartEffect, EngineAssumption DEF LoadCancel, Ops
  <2> QED BY <1>0, <1>5, <2>1 DEF LoadCancel, engineVars
<1>6. ASSUME NEW c \in Callers, WriteCancelled(c) PROVE UseInv'
  <2>1. svc' \in [Callers -> Service]
    BY <1>6, MoveEffect DEF WriteCancelled
  <2>2. /\ call'[c].pc = "abandon"
        /\ \A d \in Callers \ {c} : call'[d] = call[d]
    BY <1>6 DEF WriteCancelled, Enter, Call
  <2> QED BY <1>0, <1>6, <2>1, <2>2 DEF WriteCancelled
<1>7. ASSUME NEW c \in Callers, EngineStep(c), UNCHANGED leaveVars PROVE UseInv'
  <2>1. call[c].pc # "idle" /\ call'[c].pc # "idle"
        /\ \A d \in Callers \ {c} : call'[d] = call[d]
    BY <1>7, EngineStepEffect
  <2> QED BY <1>0, <1>7, <2>1 DEF leaveVars
<1>8. CASE ServiceCrash
  BY <1>0, <1>8, RestingIsService DEF ServiceCrash, Rows, Idle, Resting
<1>9. CASE UNCHANGED <<trail, call>> /\ UNCHANGED leaveVars
  BY <1>0, <1>9 DEF leaveVars, Rows
<1> QED
  BY <1>1, <1>2, <1>3, <1>4, <1>5, <1>6, <1>7, <1>8, <1>9
     DEF LeaveNext, ServiceStep, ConfigureWorkflow, DirectoryChanges, vars, engineVars

\* Whatever the leave service does to its approval trail, by overlapping calls
\* and crashes too, is a behaviour of ApprovalEngine: what is proved there holds
\* here.
THEOREM EngineUsedAsSpecified == LeaveSpec => Spec
<1>1. LeaveInit => Init
  BY DEF LeaveInit
<1>2. UseInv /\ [LeaveNext]_vars => [Next]_engineVars
  BY UseMaps
<1> QED BY <1>1, <1>2, UseInit, UseStep, PTL DEF LeaveSpec, Spec

\* No leave request is approved or refused by a chain with a step that was never
\* reached, whatever calls overlap and wherever the process dies.
THEOREM LeaveFinalAfterEveryStep == LeaveSpec => []FinalReachesEveryStep
  BY EngineUsedAsSpecified, FinalAfterEveryStep, PTL

\* Calls that do not overlap get the outcome of a leave request once, so its days
\* are deducted once, wherever the process dies.
THEOREM LeaveOneAnswer ==
  ASSUME OneCaller
  PROVE  LeaveSpec => []OneOutcome
  BY EngineUsedAsSpecified, OneAnswer, PTL

\* Calls that neither overlap nor are cut off: an approved leave request has every
\* step of its chain behind it.
THEOREM LeaveApprovalIsUnanimous ==
  ASSUME OneCaller, ~MayCrash
  PROVE  LeaveSpec => []FinalApprovalIsUnanimous
  BY EngineUsedAsSpecified, ApprovalIsUnanimous, PTL

\* Calls that neither overlap nor are cut off: an unanswered leave request always
\* has an approver it waits for.
THEOREM LeaveNeverStuck ==
  ASSUME OneCaller, ~MayCrash
  PROVE  LeaveSpec => []ChainNeverStuck
  BY EngineUsedAsSpecified, NeverStuck, PTL

-----------------------------------------------------------------------------
(* The service and its chain, for one call at a time and no crash *)

\* The call of the service and the call of the engine it waits for.
SvcCall(c) ==
    /\ svc[c].at = "engine" <=> call[c].pc # "idle"
    /\ svc[c].at = "engine" => svc[c].op # "none"
    /\ svc[c].op = "create" /\ svc[c].at = "engine"
         => call[c].pc \in {"initiate", "activateRead", "activate", "returned"}
    /\ svc[c].op \in {"approve", "reject"} /\ svc[c].at = "engine"
         => /\ call[c].pc \notin {"initiate", "abandon"}
            /\ call[c].pc # "returned" => call[c].decision = DecisionOf(svc[c].op)
    /\ svc[c].op = "cancel" /\ svc[c].at = "engine"
         => \/ call[c].pc = "abandon"
            \/ call[c].pc = "returned" /\ call[c].result = "abandoned"
    /\ call[c].pc = "returned" /\ call[c].result = "abandoned" => WithStatus(Open) = {}
    /\ call[c].result = "REJECTED" => svc[c].op = "reject"
    /\ call[c].result = "APPROVED" => svc[c].op \in {"create", "approve"}

Agreed == Rows = {} \/ finals["APPROVED"] > 0
Declined == Rows = {} \/ finals["REJECTED"] > 0

\* A call that writes an answer has the chain's answer behind it, or there is no
\* chain; what it wrote keeps it.
LeaveCall(c) ==
    /\ SvcCall(c)
    /\ svc[c].at \in {"deduct", "status", "attendance"} => Agreed
    /\ svc[c].at = "reject" => Declined
    /\ svc[c].at = "idle" /\ request = "CANCELLED" => WithStatus(Open) = {}
    /\ svc[c].at = "idle" /\ request = "APPROVED" => attendance
    /\ request = "APPROVED" => Agreed
    /\ request = "REJECTED" => Declined

LeaveInv == SerialInv /\ UseInv /\ VoteInv /\ \A c \in Callers : LeaveCall(c)

\* A step of the engine returns, or goes on with the decision it was called with.
LEMMA EngineStepKinds ==
  ASSUME TypeOK, NEW c \in Callers, EngineStep(c)
  PROVE  \/ \E r \in Results :
              /\ Return(c, r)
              /\ r = "APPROVED" => call[c].pc = "activate"
              /\ r = "REJECTED" => call[c].pc = "close"
              /\ r = "abandoned" => call[c].pc = "abandon" /\ CloseTrail("cancelled")
              /\ call[c].pc = "abandon" => r = "abandoned"
         \/ /\ call'[c].pc \in {"activateRead", "activate", "record", "close", "advance"}
            /\ call'[c].decision = call[c].decision
            /\ call'[c].result = call[c].result
            /\ call[c].pc \in {"initiate", "activateRead", "activate"}
                 => call'[c].pc \in {"activateRead", "activate"}
            /\ call[c].pc # "abandon"
<1> DEFINE Kinds ==
         \/ \E r \in Results :
              /\ Return(c, r)
              /\ r = "APPROVED" => call[c].pc = "activate"
              /\ r = "REJECTED" => call[c].pc = "close"
              /\ r = "abandoned" => call[c].pc = "abandon" /\ CloseTrail("cancelled")
              /\ call[c].pc = "abandon" => r = "abandoned"
         \/ /\ call'[c].pc \in {"activateRead", "activate", "record", "close", "advance"}
            /\ call'[c].decision = call[c].decision
            /\ call'[c].result = call[c].result
            /\ call[c].pc \in {"initiate", "activateRead", "activate"}
                 => call'[c].pc \in {"activateRead", "activate"}
            /\ call[c].pc # "abandon"
<1> call \in [Callers -> Call]
  BY DEF TypeOK
<1>1. CASE InitiateCreate(c)
  BY <1>1 DEF InitiateCreate, Call, Results
<1>2. CASE ActivateRead(c)
  BY <1>2 DEF ActivateRead, Call
<1>3. CASE ActivateNext(c)
  BY <1>3 DEF ActivateNext, SkipStep, ActivateStep, Call
<1>4. CASE ActivateReturn(c)
  BY <1>4 DEF ActivateReturn, Results, Outcomes
<1>5. CASE DecideRead(c)
  BY <1>5 DEF DecideRead, Call, Results
<1>6. CASE DecideRecord(c)
  <2> DEFINE me == call[c]
             mine == {s \in me.live : IsEligible(me.user, me.rows[s])}
  <2>1. me \in Call /\ me.pc = "record"
    BY <1>6 DEF DecideRecord
  <2>2. CASE Return(c, "refused")
    BY <2>1, <2>2 DEF Results
  <2>3. ASSUME NEW s \in mine,
               call' = [call EXCEPT
                 ![c] = [me EXCEPT !.step = s, !.live = @ \ {s}, !.rows = Blank,
                           !.pc = IF me.decision = "REJECT" THEN "close" ELSE "advance"]]
        PROVE  Kinds
    <3>1. /\ call'[c].pc \in {"close", "advance"}
          /\ call'[c].decision = me.decision /\ call'[c].result = me.result
      BY <2>1, <2>3 DEF Call
    <3> QED BY <2>1, <3>1
  <2> QED BY <1>6, <2>2, <2>3 DEF DecideRecord
<1>7. CASE RejectClose(c)
  BY <1>7 DEF RejectClose, Results, Outcomes
<1>8. CASE Advance(c)
  BY <1>8 DEF Advance, Call, Results
<1>9. CASE Abandon(c)
  BY <1>9 DEF Abandon, Results
<1> QED
  BY <1>1, <1>2, <1>3, <1>4, <1>5, <1>6, <1>7, <1>8, <1>9 DEF EngineStep

\* While the service waits, the engine's call stays the one it made.
LEMMA SvcEngineStep ==
  ASSUME VoteInv, NEW c \in Callers, svc[c].op \in Ops, SvcCall(c), EngineStep(c), svc' = svc
  PROVE  SvcCall(c)'
<1>1. TypeOK /\ AnswerCall(c)
  BY DEF VoteInv, AnswerInv, OrderInv
<1>2. svc[c].at = "engine" /\ call[c].pc \notin {"idle", "returned"}
  BY <1>1, EngineStepEffect DEF SvcCall, TypeOK
<1>3. ASSUME NEW r \in Results, Return(c, r),
             r = "APPROVED" => call[c].pc = "activate",
             r = "REJECTED" => call[c].pc = "close",
             r = "abandoned" => call[c].pc = "abandon" /\ CloseTrail("cancelled"),
             call[c].pc = "abandon" => r = "abandoned"
      PROVE  SvcCall(c)'
  <2>1. call'[c].pc = "returned" /\ call'[c].result = r
    BY <1>1, <1>3 DEF Return, TypeOK, Idle
  <2>2. r = "APPROVED" => svc[c].op \in {"create", "approve"}
    \* a call of reject() decides REJECT, and only APPROVE leads on to activate
    <3>1. r = "APPROVED" => svc[c].op \notin {"cancel", "reject", "none"}
      BY <1>1, <1>2, <1>3 DEF SvcCall, AnswerCall, DecisionOf
    <3> QED BY <3>1 DEF Ops
  <2>3. r = "REJECTED" => svc[c].op = "reject"
    <3>1. r = "REJECTED" => svc[c].op \notin {"cancel", "create", "approve", "none"}
      BY <1>1, <1>2, <1>3 DEF SvcCall, AnswerCall, DecisionOf
    <3> QED BY <3>1 DEF Ops
  <2>4. r = "abandoned" => WithStatus(Open)' = {}
    BY <1>1, <1>3, CloseShuts
  <2>5. svc[c].op = "cancel" => r = "abandoned"
    BY <1>2, <1>3 DEF SvcCall
  <2> QED BY <1>2, <2>1, <2>2, <2>3, <2>4, <2>5 DEF SvcCall
<1>4. ASSUME call'[c].pc \in {"activateRead", "activate", "record", "close", "advance"},
             call'[c].decision = call[c].decision,
             call'[c].result = call[c].result,
             call[c].pc \in {"initiate", "activateRead", "activate"}
               => call'[c].pc \in {"activateRead", "activate"},
             call[c].pc # "abandon"
      PROVE  SvcCall(c)'
  BY <1>2, <1>4 DEF SvcCall
<1> QED BY <1>1, <1>3, <1>4, EngineStepKinds

\* A step of the only caller owes its own part.
LEMMA LeaveStepBy ==
  ASSUME OneCaller, SerialInv', UseInv', VoteInv', NEW c \in Callers, LeaveCall(c)'
  PROVE  LeaveInv'
<1>1. \A d \in Callers : LeaveCall(d)'
  BY DEF OneCaller
<1> QED BY <1>1 DEF LeaveInv

\* Nothing was answered before the request exists.
LEMMA LeaveInvInit == LeaveInit => LeaveInv
<1> SUFFICES ASSUME LeaveInit PROVE LeaveInv
  OBVIOUS
<1>1. SerialInv /\ UseInv /\ VoteInv
  BY SerialInit, UseInit, VoteInit DEF LeaveInit
<1>2. \A c \in Callers : call[c] = Idle /\ svc[c] = Resting
  BY DEF LeaveInit, Init
<1>3. request = "NONE"
  BY DEF LeaveInit
<1>4. \A c \in Callers : LeaveCall(c)
  BY <1>2, <1>3 DEF LeaveCall, SvcCall, Idle, Resting
<1> QED BY <1>1, <1>4 DEF LeaveInv

\* Every step of calls that neither overlap nor are cut off keeps LeaveInv.
LEMMA LeaveInvStep ==
  ASSUME OneCaller, ~MayCrash, LeaveInv, [LeaveNext]_vars
  PROVE  LeaveInv'
<1>1. SerialInv' /\ UseInv' /\ VoteInv'
  BY SerialStep, UseStep, UseMaps, VoteStep DEF LeaveInv, OneCaller
<1>2. svc \in [Callers -> Service] /\ call \in [Callers -> Call]
  BY DEF LeaveInv, UseInv, TypeOK
<1>3. ASSUME NEW c \in Callers, ServiceStep(c) PROVE LeaveInv'
  <2> SUFFICES LeaveCall(c)'
    BY <1>1, LeaveStepBy
  <2>0. /\ LeaveCall(c) /\ Progress(c)
        /\ call[c].pc = "idle" => call[c].result = "none"
    BY DEF LeaveInv, SerialInv, UseInv, Idle
  <2> USE DEF LeaveCall, SvcCall
  <2>1. CASE Create(c)
    <3>1. svc'[c].at = "engine" /\ svc'[c].op = "create"
      BY <1>2, <2>1, StartEffect DEF Create, Ops
    <3>2. call'[c].pc = "initiate" /\ call'[c].result = "none" /\ request' = "PENDING"
      BY <1>2, <2>0, <2>1 DEF Create, Enter, Call
    <3> QED BY <3>1, <3>2
  <2>2. CASE Load(c)
    <3>1. PICK u \in Users, op \in {"approve", "reject"} :
            /\ EnterDecide(c, u, DecisionOf(op))
            /\ svc' = [svc EXCEPT ![c] = [op |-> op, user |-> u, at |-> "engine"]]
      BY <2>2 DEF Load
    <3>2. svc'[c].at = "engine" /\ svc'[c].op = op
      BY <1>2, <3>1, StartEffect DEF Ops
    <3>3. /\ call'[c].pc = "decide" /\ call'[c].decision = DecisionOf(op)
          /\ call'[c].result = "none" /\ request' = "PENDING"
      BY <1>2, <2>0, <2>2, <3>1 DEF Load, EnterDecide, Call
    <3> QED BY <3>2, <3>3
  <2>3. CASE EngineReturned(c)
    <3>1. /\ svc[c].at = "engine" /\ call[c].pc = "returned"
          /\ call'[c] = Idle
          /\ UNCHANGED <<trail, finals, request, paid, attendance>>
      BY <1>2, <2>3 DEF EngineReturned, Done
    <3>2. /\ AfterEngine(c) \in {"idle", "deduct", "reject"}
          /\ svc[c].op = "cancel" => AfterEngine(c) = "idle"
      BY DEF AfterEngine
    <3>3. svc'[c].at = AfterEngine(c)
      BY <1>2, <2>3, <3>2, MoveEffect DEF EngineReturned
    <3>4. AnswerCall(c)
      BY DEF LeaveInv, VoteInv, AnswerInv
    <3>5. AfterEngine(c) = "deduct" => Agreed
      BY <2>0, <3>1, <3>4 DEF AfterEngine, MayFinalize, AnswerCall, Agreed, Outcomes
    <3>6. AfterEngine(c) = "reject" => Declined
      BY <2>0, <3>1, <3>4 DEF AfterEngine, MayFinalize, AnswerCall, Declined, Outcomes
    <3>7. svc[c].op = "cancel" => WithStatus(Open) = {}
      BY <2>0, <3>1
    <3>8. request \notin {"APPROVED", "REJECTED"} /\ (request = "CANCELLED" => svc[c].op = "cancel")
      BY <2>0, <3>1 DEF Progress
    <3> QED
      BY <3>1, <3>2, <3>3, <3>5, <3>6, <3>7, <3>8 DEF Agreed, Declined, WithStatus, Rows, Idle
  <2>4. CASE Deduct(c)
    <3>1. UNCHANGED engineVars /\ request' = request /\ request = "PENDING"
      BY <2>0, <2>4 DEF Deduct, Progress
    <3>2. svc'[c].at \in {"idle", "status"}
      BY <1>2, <2>4, MoveEffect DEF Deduct
    <3> QED BY <2>0, <2>4, <3>1, <3>2 DEF Deduct, engineVars, Agreed, WithStatus, Rows
  <2>5. CASE WriteApproved(c)
    <3>1. svc'[c].at = "attendance"
      BY <1>2, <2>5, MoveEffect DEF WriteApproved
    <3> QED BY <2>0, <2>5, <3>1 DEF WriteApproved, engineVars, Agreed, WithStatus, Rows
  <2>6. CASE CreateAttendances(c)
    <3>1. svc'[c].at = "idle"
      BY <1>2, <2>6, MoveEffect DEF CreateAttendances
    <3> QED
      BY <2>0, <2>6, <3>1
         DEF CreateAttendances, engineVars, Agreed, WithStatus, Rows, Progress
  <2>7. CASE WriteRejected(c)
    <3>1. svc'[c].at = "idle"
      BY <1>2, <2>7, MoveEffect DEF WriteRejected
    <3> QED BY <2>0, <2>7, <3>1 DEF WriteRejected, engineVars, Declined, WithStatus, Rows
  <2>8. CASE LoadCancel(c)
    <3>1. svc'[c].at = "cancel" /\ svc'[c].op = "cancel"
      BY <1>2, <2>8, StartEffect, EngineAssumption DEF LoadCancel, Ops
    <3> QED BY <2>0, <2>8, <3>1 DEF LoadCancel, engineVars, WithStatus, Rows
  <2>9. CASE WriteCancelled(c)
    <3>1. svc'[c].at = "engine" /\ svc'[c].op = "cancel"
      BY <1>2, <2>0, <2>9, MoveEffect DEF WriteCancelled, Progress
    <3>2. call'[c].pc = "abandon" /\ call'[c].result = "none" /\ request' = "CANCELLED"
      BY <1>2, <2>0, <2>9 DEF WriteCancelled, Enter, Call
    <3> QED BY <3>1, <3>2
  <2> QED BY <1>3, <2>1, <2>2, <2>3, <2>4, <2>5, <2>6, <2>7, <2>8, <2>9 DEF ServiceStep
<1>4. ASSUME NEW c \in Callers, EngineStep(c), UNCHANGED leaveVars PROVE LeaveInv'
  <2>1. LeaveCall(c) /\ Progress(c) /\ svc[c].op \in Ops /\ VoteInv
    BY <1>2 DEF LeaveInv, SerialInv, Service
  <2>2. svc[c].at = "engine" /\ request \in {"PENDING", "CANCELLED"}
    BY <1>2, <1>4, <2>1, EngineStepEffect DEF LeaveCall, SvcCall, Progress
  <2>3. SvcCall(c)'
    BY <1>4, <2>1, SvcEngineStep DEF LeaveCall, leaveVars
  <2>4. LeaveCall(c)'
    BY <1>4, <2>2, <2>3 DEF LeaveCall, leaveVars
  <2> QED BY <1>1, <2>4, LeaveStepBy
<1>5. CASE UNCHANGED <<trail, call, finals>> /\ UNCHANGED leaveVars
  <2>1. \A c \in Callers : LeaveCall(c)'
    BY <1>5 DEF LeaveInv, LeaveCall, SvcCall, Agreed, Declined, WithStatus, Rows, leaveVars
  <2> QED BY <1>1, <2>1 DEF LeaveInv
<1>6. ~ServiceCrash
  BY DEF ServiceCrash
<1> QED
  BY <1>3, <1>4, <1>5, <1>6
     DEF LeaveNext, ConfigureWorkflow, DirectoryChanges, vars, engineVars

\* The invariant of the service and its chain.
THEOREM LeaveCorrect ==
  ASSUME OneCaller, ~MayCrash
  PROVE  LeaveSpec => []LeaveInv
<1>1. LeaveInv /\ [LeaveNext]_vars => LeaveInv'
  BY LeaveInvStep
<1> QED BY <1>1, LeaveInvInit, PTL DEF LeaveSpec

\* An approval that has run to its end charged the days once, wrote the attendance,
\* and had every step of its chain behind it.
THEOREM ApprovalSettles ==
  ASSUME OneCaller, ~MayCrash
  PROVE  LeaveSpec => []SettledApproval
<1>1. LeaveInv => SettledApproval
  <2> SUFFICES ASSUME LeaveInv, AllIdle, request = "APPROVED"
               PROVE  /\ paid = 1 /\ attendance
                      /\ \A s \in Rows : trail[s].status \in {"APPROVED", "SKIPPED"}
    BY DEF SettledApproval
  <2>1. PICK c \in Callers : svc[c].at = "idle"
    BY DEF LeaveInv, SerialInv, AllIdle
  <2>2. paid = 1 /\ attendance /\ Agreed
    BY <2>1 DEF LeaveInv, LeaveCall, SerialInv, Progress
  <2>3. FinalApprovalIsUnanimous
    BY DEF LeaveInv, VoteInv
  <2> QED BY <2>2, <2>3 DEF Agreed, FinalApprovalIsUnanimous
<1> QED BY <1>1, LeaveCorrect, PTL

\* Once a request is decided no approver is left holding a step of it.
THEOREM NobodyLeftHolding ==
  ASSUME OneCaller, ~MayCrash
  PROVE  LeaveSpec => []NoApproverLeft
<1>1. LeaveInv => NoApproverLeft
  <2> SUFFICES ASSUME LeaveInv, AllIdle, request \in Decided
               PROVE  WithStatus(Open) = {}
    BY DEF NoApproverLeft
  <2>1. PICK c \in Callers : svc[c].at = "idle"
    BY DEF LeaveInv, SerialInv, AllIdle, Decided
  <2>2. \/ Rows = {} \/ Answered \/ WithStatus(Open) = {}
    BY <2>1 DEF LeaveInv, LeaveCall, Decided, Agreed, Declined, Answered, Outcomes
  <2>3. Rows = {} => WithStatus(Open) = {}
    BY DEF Rows, WithStatus, Open
  <2>4. Answered => WithStatus(Open) = {}
    BY DEF LeaveInv, VoteInv, AnswerInv
  <2> QED BY <2>2, <2>3, <2>4
<1> QED BY <1>1, LeaveCorrect, PTL
=============================================================================
