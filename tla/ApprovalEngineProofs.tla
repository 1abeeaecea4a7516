------------------------ MODULE ApprovalEngineProofs ------------------------
(***************************************************************************)
(* Proofs about ApprovalEngine, for any length of chain, any workflows and *)
(* directories: the order of the steps, for any number of overlapping      *)
(* calls and crashes; one outcome, for calls that do not overlap; an       *)
(* unanimous approval and a chain that is never stuck, if none is cut off. *)
(***************************************************************************)
EXTENDS ApprovalEngine, TLAPS

\* An idle call is a call record.
LEMMA IdleIsCall == Idle \in Call
  BY DEF Idle, Call, Blank, NoRow, Row, Status, ApproverTypes, Comments, PCs,
         Decisions, Modes, Results, Outcomes

\* Every variable keeps its type: the words written to the VarChar columns are
\* the ones the code compares with, and a call's local state is well formed.
LEMMA TypeInit == Init => TypeOK
  BY IdleIsCall DEF Init, TypeOK, Blank, NoRow, Row, Status, ApproverTypes, Comments, Outcomes

\* Returning keeps the calls and the counters of outcomes well typed.
LEMMA ReturnType ==
  ASSUME TypeOK, NEW c \in Callers, NEW r \in Results, Return(c, r)
  PROVE  call' \in [Callers -> Call] /\ finals' \in [Outcomes -> 0..2]
<1>1. [Idle EXCEPT !.pc = "returned", !.result = r] \in Call
  BY IdleIsCall DEF Call, PCs
<1>2. call' \in [Callers -> Call]
  BY <1>1 DEF Return, TypeOK
<1>3. finals' \in [Outcomes -> 0..2]
  BY DEF Return, TypeOK, Bump
<1> QED BY <1>2, <1>3

\* Closing a chain leaves rows.
LEMMA CloseType ==
  ASSUME TypeOK, NEW comment \in {"closed", "cancelled"}, CloseTrail(comment)
  PROVE  trail' \in [Steps -> Row]
<1>1. ASSUME NEW s \in Steps
      PROVE  [trail[s] EXCEPT !.status = "SKIPPED", !.comment = comment] \in Row
  <2>1. trail[s] \in Row
    BY DEF TypeOK
  <2> QED BY ONLY <2>1, comment \in {"closed", "cancelled"} DEF Row, Status, Comments
<1>2. \A s \in Steps : trail[s] \in Row
  BY DEF TypeOK
<1> QED BY <1>1, <1>2 DEF CloseTrail

\* Every step keeps the state well typed, one action at a time.
LEMMA TypeStep == TypeOK /\ [Next]_engineVars => TypeOK'
<1> SUFFICES ASSUME TypeOK, [Next]_engineVars PROVE TypeOK'
  OBVIOUS
<1> USE DEF TypeOK
<1>1. ASSUME NEW c \in Callers, InitiateCreate(c) PROVE TypeOK'
  <2>1. CASE ~enabled \/ workflow.steps = <<>>
    BY <1>1, <2>1, ReturnType DEF InitiateCreate, Results
  <2>2. CASE ~(~enabled \/ workflow.steps = <<>>)
    <3>1. workflow \in [mode : Modes, steps : Seq(ApproverTypes)]
      BY <2>2, EngineAssumption DEF NoWorkflow
    <3>2. ASSUME NEW s \in Steps PROVE InitialRow(workflow, s) \in Row
      <4>1. NoRow \in Row
        BY DEF NoRow, Row, Status, Comments, ApproverTypes
      <4>2. CASE s \in 1..Len(workflow.steps)
        <5>1. workflow.steps[s] \in ApproverTypes
          <6>1. workflow.steps \in Seq(ApproverTypes)
            BY <3>1
          <6> HIDE DEF TypeOK
          <6>2. \A i \in 1..Len(workflow.steps) : workflow.steps[i] \in ApproverTypes
            BY ONLY <6>1
          <6> QED BY <4>2, <6>2
        <5> QED BY <4>1, <4>2, <5>1 DEF InitialRow, Row, Status
      <4> QED BY <4>1, <4>2 DEF InitialRow
    <3>3. [call[c] EXCEPT !.pc = "activateRead", !.mode = workflow.mode] \in Call
      <4>1. workflow.mode \in Modes /\ call[c] \in Call
        BY <3>1
      <4> HIDE DEF TypeOK
      <4> QED BY <4>1 DEF Call, PCs
    <3>4. call' \in [Callers -> Call]
      BY <1>1, <2>2, <3>3 DEF InitiateCreate
    <3>5. trail' \in [Steps -> Row]
      BY <1>1, <2>2, <3>2 DEF InitiateCreate
    <3> QED BY <1>1, <2>2, <3>4, <3>5 DEF InitiateCreate
  <2> QED BY <2>1, <2>2
<1>2. ASSUME NEW c \in Callers, ActivateRead(c) PROVE TypeOK'
  <2> DEFINE todo == {s \in WithStatus({"PENDING"}) : s > call[c].step}
  <2>1. [call[c] EXCEPT !.pc = "activate", !.todo = todo] \in Call
    <3>1. todo \in SUBSET Steps /\ call[c] \in Call
      BY DEF WithStatus
    <3> HIDE DEF todo
    <3> QED BY ONLY <3>1 DEF Call, PCs
  <2>2. call' \in [Callers -> Call]
    BY <1>2, <2>1 DEF ActivateRead
  <2> QED BY <1>2, <2>2 DEF ActivateRead
<1>3. ASSUME NEW c \in Callers, ActivateNext(c) PROVE TypeOK'
  <2> PICK s \in call[c].todo : SkipStep(c, s) \/ ActivateStep(c, s)
    BY <1>3 DEF ActivateNext
  <2> s \in Steps
    BY DEF Call
  <2>1. CASE SkipStep(c, s)
    <3>1. [trail[s] EXCEPT !.status = "SKIPPED", !.comment = "auto"] \in Row
      BY DEF Row, Status, Comments
    <3>2. trail' \in [Steps -> Row]
      BY <2>1, <3>1 DEF SkipStep
    <3>3. [call[c] EXCEPT !.todo = @ \ {s}] \in Call
      <4>1. call[c] \in Call
        OBVIOUS
      <4> QED BY ONLY <4>1 DEF Call
    <3>4. call' \in [Callers -> Call]
      BY <2>1, <3>3 DEF SkipStep
    <3> QED BY <1>3, <3>2, <3>4 DEF ActivateNext
  <2>2. CASE ActivateStep(c, s)
    <3>1. PICK u \in Approvers(s) :
            trail' = [trail EXCEPT ![s].status = "ACTIVE",
              ![s].resolved = IF trail[s].type = "SUPERVISOR" THEN u ELSE None]
      BY <2>2 DEF ActivateStep
    <3>2. u \in Users
      <4>1. pool \in [ApproverTypes -> SUBSET Users] /\ trail[s].type \in ApproverTypes
        BY EngineAssumption DEF Row
      <4> QED BY <4>1 DEF Approvers
    <3>3. [trail[s] EXCEPT !.status = "ACTIVE",
             !.resolved = IF trail[s].type = "SUPERVISOR" THEN u ELSE None] \in Row
      BY <3>2 DEF Row, Status
    <3>4. trail' \in [Steps -> Row]
      BY <3>1, <3>3
    <3>5. [call[c] EXCEPT
             !.todo = IF call[c].mode = "SEQUENTIAL" THEN {} ELSE @ \ {s},
             !.first = IF @ = 0 THEN s ELSE @] \in Call
      <4>1. s \in Steps /\ call[c] \in Call
        BY DEF Call
      <4> QED BY ONLY <4>1 DEF Call
    <3>6. call' \in [Callers -> Call]
      BY <2>2, <3>5 DEF ActivateStep
    <3> QED BY <1>3, <3>4, <3>6 DEF ActivateNext
  <2> QED BY <2>1, <2>2
<1>4. ASSUME NEW c \in Callers, ActivateReturn(c) PROVE TypeOK'
  BY <1>4, ReturnType DEF ActivateReturn, Results, Outcomes
<1>5. ASSUME NEW c \in Callers, DecideRead(c) PROVE TypeOK'
  <2>1. CASE Rows = {} \/ WithStatus({"ACTIVE"}) = {}
    BY <1>5, <2>1, ReturnType DEF DecideRead, Results
  <2>2. CASE ~(Rows = {} \/ WithStatus({"ACTIVE"}) = {})
    <3>1. [call[c] EXCEPT !.pc = "record", !.rows = trail,
             !.live = WithStatus({"ACTIVE"})] \in Call
      <4>1. WithStatus({"ACTIVE"}) \in SUBSET Steps /\ call[c] \in Call
        BY DEF WithStatus
      <4>2. trail \in [Steps -> Row]
        OBVIOUS
      <4> QED BY ONLY <4>1, <4>2 DEF Call, PCs
    <3>2. call' \in [Callers -> Call]
      BY <1>5, <2>2, <3>1 DEF DecideRead
    <3> QED BY <1>5, <2>2, <3>2 DEF DecideRead
  <2> QED BY <2>1, <2>2
<1>6. ASSUME NEW c \in Callers, DecideRecord(c) PROVE TypeOK'
  <2> DEFINE me == call[c]
             mine == {s \in me.live : IsEligible(me.user, me.rows[s])}
             verdict == IF me.decision = "REJECT" THEN "REJECTED" ELSE "APPROVED"
             next == IF me.decision = "REJECT" THEN "close" ELSE "advance"
  <2>1. CASE Return(c, "refused") /\ UNCHANGED trail
    BY <1>6, <2>1, ReturnType DEF DecideRecord, Results
  <2>2. ASSUME NEW s \in mine,
               trail' = [trail EXCEPT ![s].decidedBy = me.user, ![s].comment = "none",
                                      ![s].status = verdict],
               call' = [call EXCEPT
                 ![c] = [me EXCEPT !.step = s, !.live = @ \ {s}, !.rows = Blank, !.pc = next]],
               UNCHANGED finals
        PROVE TypeOK'
    <3>1. s \in Steps /\ me \in Call
      BY DEF Call
    <3>2. [trail[s] EXCEPT !.decidedBy = me.user, !.comment = "none",
                           !.status = verdict] \in Row
      <4>1. me.user \in Users \union {None}
        BY <3>1 DEF Call
      <4>2. verdict \in Status /\ trail[s] \in Row
        BY <3>1 DEF Status
      <4> HIDE DEF verdict, me
      <4> QED BY <4>1, <4>2 DEF Row, Comments
    <3>3. trail' \in [Steps -> Row]
      BY <2>2, <3>1, <3>2
    <3>4. Blank \in [Steps -> Row]
      BY IdleIsCall DEF Idle, Call
    <3>5. [me EXCEPT !.step = s, !.live = @ \ {s}, !.rows = Blank, !.pc = next] \in Call
      BY ONLY <3>1, <3>4 DEF Call, PCs
    <3>6. call' \in [Callers -> Call]
      BY <2>2, <3>5
    <3> QED BY <1>6, <2>2, <3>3, <3>6 DEF DecideRecord
  <2> QED BY <1>6, <2>1, <2>2 DEF DecideRecord
<1>7. ASSUME NEW c \in Callers, RejectClose(c) PROVE TypeOK'
  <2>1. trail' \in [Steps -> Row]
    BY <1>7, CloseType DEF RejectClose
  <2> QED BY <1>7, <2>1, ReturnType DEF RejectClose, Results, Outcomes
<1>8. ASSUME NEW c \in Callers, Advance(c) PROVE TypeOK'
  <2>1. CASE call[c].live # {}
    BY <1>8, <2>1, ReturnType DEF Advance, Results
  <2>2. CASE call[c].live = {}
    <3>1. workflow.mode \in Modes
      BY EngineAssumption DEF NoWorkflow, Modes
    <3>2. [call[c] EXCEPT !.pc = "activateRead", !.mode = workflow.mode] \in Call
      <4>1. call[c] \in Call
        OBVIOUS
      <4> QED BY ONLY <3>1, <4>1 DEF Call, PCs
    <3>3. call' \in [Callers -> Call]
      BY <1>8, <2>2, <3>2 DEF Advance
    <3> QED BY <1>8, <2>2, <3>3 DEF Advance
  <2> QED BY <2>1, <2>2
<1>9. ASSUME NEW c \in Callers, Abandon(c) PROVE TypeOK'
  <2>1. trail' \in [Steps -> Row]
    BY <1>9, CloseType DEF Abandon
  <2> QED BY <1>9, <2>1, ReturnType DEF Abandon, Results
<1>10. ASSUME NEW c \in Callers, CallDecide(c) PROVE TypeOK'
  <2>1. PICK u \in Users, d \in Decisions : EnterDecide(c, u, d)
    BY <1>10 DEF CallDecide
  <2>2. [call[c] EXCEPT !.pc = "decide", !.user = u, !.decision = d] \in Call
    <3>1. call[c] \in Call
      OBVIOUS
    <3> QED BY ONLY <3>1, u \in Users, d \in Decisions DEF Call, PCs
  <2>3. call' \in [Callers -> Call]
    BY <2>1, <2>2 DEF EnterDecide
  <2> QED BY <1>10, <2>3 DEF CallDecide
<1>13. ASSUME NEW c \in Callers, CallInitiate(c) \/ CallAbandon(c) \/ CallDone(c)
       PROVE TypeOK'
  <2>1. ASSUME NEW pc \in PCs, Enter(c, pc) PROVE call' \in [Callers -> Call]
    <3>1. [call[c] EXCEPT !.pc = pc] \in Call
      BY DEF Call
    <3> QED BY <2>1, <3>1 DEF Enter
  <2>2. ASSUME Done(c) PROVE call' \in [Callers -> Call]
    BY <2>2, IdleIsCall DEF Done
  <2> QED BY <1>13, <2>1, <2>2 DEF CallInitiate, CallAbandon, CallDone, PCs
<1>11. CASE ConfigureWorkflow \/ DirectoryChanges \/ Crash
  BY <1>11, IdleIsCall DEF ConfigureWorkflow, DirectoryChanges, Crash
<1>12. CASE UNCHANGED engineVars
  BY <1>12 DEF engineVars
<1> QED
  BY <1>1, <1>2, <1>3, <1>4, <1>5, <1>6, <1>7, <1>8, <1>9, <1>10, <1>11, <1>12, <1>13
     DEF Next, EngineStep

\* The state of the engine stays within its types, whatever calls overlap and
\* wherever the process dies.
THEOREM TypeCorrect == Spec => []TypeOK
  BY TypeInit, TypeStep, PTL DEF Spec

-----------------------------------------------------------------------------
(* Order of the steps *)

\* What every step but the creation of the trail does to the rows.
NoNewPending ==
    \A s \in Steps : trail'[s].status = "PENDING" => trail[s].status = "PENDING"
RowsKept ==
    \A s \in Steps : trail'[s].status = "NONE" <=> trail[s].status = "NONE"

\* A step that keeps the statuses keeps what is defined by them.
LEMMA RowsUnchanged ==
  ASSUME RowsKept
  PROVE  Rows' = Rows
  BY DEF RowsKept, Rows

\* A call that does not move keeps its invariant while others write rows.
LEMMA OtherCalls ==
  ASSUME NEW d \in Callers, CallInv(d), call'[d] = call[d], NoNewPending, RowsKept,
         call[d] \in Call
  PROVE  CallInv(d)'
<1>1. Rows' = Rows
  BY RowsUnchanged
<1>2. WithStatus({"PENDING"})' \subseteq WithStatus({"PENDING"})
  BY DEF NoNewPending, WithStatus
<1>3. call[d].live \subseteq Steps
  BY DEF Call
<1> QED BY <1>1, <1>2, <1>3 DEF CallInv, NoNewPending, RowsKept

\* A call that has returned, or was lost, satisfies its invariant.
LEMMA ReturnedInv ==
  ASSUME NEW d \in Callers, call'[d] = Idle \/ \E r \in Results :
           call'[d] = [Idle EXCEPT !.pc = "returned", !.result = r]
  PROVE  CallInv(d)' /\ call'[d].pc # "initiate"
<1>1. /\ call'[d].pc \in {"idle", "returned"}
      /\ call'[d].step = 0 /\ call'[d].first = 0
  <2>1. CASE call'[d] = Idle
    BY <2>1 DEF Idle
  <2>2. CASE \E r \in Results : call'[d] = [Idle EXCEPT !.pc = "returned", !.result = r]
    BY <2>2 DEF Idle
  <2> QED BY <2>1, <2>2
<1> QED BY <1>1 DEF CallInv, Recorded

\* What a step of caller c owes, when it does not create rows.
LEMMA CallStep ==
  ASSUME OrderInv, TypeOK', NEW c \in Callers, NoNewPending, RowsKept,
         \A d \in Callers \ {c} : call'[d] = call[d],
         CallInv(c)', call'[c].pc # "initiate",
         PendingSuffix', FinalReachesEveryStep',
         Rows = {} => finals' = finals
  PROVE  OrderInv'
<1>1. Rows' = Rows
  BY RowsUnchanged
<1>2. ASSUME NEW d \in Callers PROVE CallInv(d)'
  <2>1. CASE d = c
    BY <2>1
  <2>2. CASE d # c
    BY <2>2, OtherCalls DEF OrderInv, TypeOK
  <2> QED BY <2>1, <2>2
<1>3. Rows' = {} => \A o \in Outcomes : finals'[o] = 0
  BY <1>1 DEF OrderInv
<1>4. \A d, e \in Callers : call'[d].pc = "initiate" /\ call'[e].pc = "initiate" => d = e
  BY DEF OrderInv
<1> QED BY <1>2, <1>3, <1>4 DEF OrderInv

\* Before the trail exists nothing has been read or returned.
LEMMA OrderInit == Init => OrderInv
<1> SUFFICES ASSUME Init PROVE OrderInv
  OBVIOUS
<1>1. \A s \in Steps : trail[s].status = "NONE"
  BY DEF Init, Blank, NoRow
<1>2. \A c \in Callers : call[c] = Idle
  BY DEF Init
<1>3. \A c \in Callers : CallInv(c)
  BY <1>2 DEF CallInv, Idle, Recorded
<1>4. \A o \in Outcomes : finals[o] = 0
  BY DEF Init
<1> QED BY TypeInit, <1>1, <1>2, <1>3, <1>4
      DEF OrderInv, PendingSuffix, FinalReachesEveryStep, Idle

\* Closing a chain leaves nothing PENDING and creates no row.
LEMMA CloseKeeps ==
  ASSUME TypeOK, NEW comment, CloseTrail(comment)
  PROVE  /\ NoNewPending /\ RowsKept
         /\ \A s \in Steps : trail'[s].status # "PENDING"
  BY DEF CloseTrail, Open, NoNewPending, RowsKept, TypeOK, Row

\* initiate() writes all rows PENDING, or none.
LEMMA OrderInitiateCreate ==
  ASSUME OrderInv, TypeOK', NEW c \in Callers, InitiateCreate(c)
  PROVE  OrderInv'
<1> USE DEF OrderInv
<1>1. CASE ~enabled \/ workflow.steps = <<>>
  <2>1. NoNewPending /\ RowsKept /\ UNCHANGED <<trail, finals>>
    BY <1>1 DEF InitiateCreate, Return, NoNewPending, RowsKept, Outcomes, TypeOK
  <2>2. CallInv(c)' /\ call'[c].pc # "initiate"
    BY <1>1, ReturnedInv DEF InitiateCreate, Return, TypeOK, Results
  <2>3. \A d \in Callers \ {c} : call'[d] = call[d]
    BY <1>1 DEF InitiateCreate, Return, TypeOK
  <2> QED
    BY <2>1, <2>2, <2>3, CallStep DEF PendingSuffix, FinalReachesEveryStep, WithStatus
<1>2. CASE ~(~enabled \/ workflow.steps = <<>>)
  <2>1. Rows = {} /\ call[c].step = 0 /\ call[c].first = 0
    BY DEF InitiateCreate, CallInv
  <2>2. /\ trail' = [s \in Steps |-> InitialRow(workflow, s)]
        /\ call' = [call EXCEPT ![c].pc = "activateRead", ![c].mode = workflow.mode]
        /\ finals' = finals
    BY <1>2 DEF InitiateCreate
  <2>3. workflow \in Workflows /\ Len(workflow.steps) \in 1..MaxSteps
    BY <1>2, EngineAssumption DEF TypeOK, NoWorkflow
  <2>4. \A s \in Steps : trail'[s].status = IF s <= Len(workflow.steps) THEN "PENDING" ELSE "NONE"
    <3> SUFFICES ASSUME NEW s \in Steps
                 PROVE  trail'[s].status = IF s <= Len(workflow.steps) THEN "PENDING" ELSE "NONE"
      OBVIOUS
    <3>1. MaxSteps \in Nat
      BY EngineAssumption
    <3>2. s \in 1..Len(workflow.steps) <=> s <= Len(workflow.steps)
      BY <2>3, <3>1 DEF Steps
    <3>3. InitialRow(workflow, s).status = IF s <= Len(workflow.steps) THEN "PENDING" ELSE "NONE"
      BY <3>2 DEF InitialRow, NoRow
    <3> QED BY <2>2, <3>3
  <2>5. Rows' # {}
    BY <2>3, <2>4, EngineAssumption DEF Rows, Steps
  <2>6. PendingSuffix'
    BY <2>3, <2>4, EngineAssumption DEF PendingSuffix, Steps
  <2>7. FinalReachesEveryStep'
    BY <2>1, <2>2 DEF FinalReachesEveryStep
  <2>8. /\ call'[c].pc = "activateRead" /\ call'[c].step = 0 /\ call'[c].first = 0
        /\ \A d \in Callers \ {c} : call'[d] = call[d]
    BY <2>1, <2>2 DEF TypeOK, Call
  <2>9. CallInv(c)'
    BY <2>5, <2>8 DEF CallInv, Recorded, Steps
  <2>10. ASSUME NEW d \in Callers \ {c} PROVE CallInv(d)'
    <3>1. call[d].pc \notin Recorded \union {"record", "initiate"}
      BY <2>1 DEF InitiateCreate, CallInv
    <3> QED BY <2>8, <3>1 DEF CallInv, Recorded
  <2> QED BY <2>5, <2>6, <2>7, <2>8, <2>9, <2>10 DEF InitiateCreate
<1> QED BY <1>1, <1>2

\* activateFrom() reads every row still PENDING: the ones before the step are past it.
LEMMA OrderActivateRead ==
  ASSUME OrderInv, TypeOK', NEW c \in Callers, ActivateRead(c)
  PROVE  OrderInv'
<1>1. NoNewPending /\ RowsKept /\ UNCHANGED <<trail, finals>>
  BY DEF ActivateRead, NoNewPending, RowsKept
<1>2. /\ call'[c].pc = "activate" /\ call'[c].first = call[c].first
      /\ call'[c].step = call[c].step
      /\ call'[c].todo = {s \in WithStatus({"PENDING"}) : s > call[c].step}
      /\ \A d \in Callers \ {c} : call'[d] = call[d]
  BY DEF ActivateRead, OrderInv, TypeOK, Call
<1>3. CallInv(c)'
  <2>1. call[c].step \in Nat
    BY EngineAssumption DEF OrderInv, TypeOK, Call, Steps
  <2>2. \A s \in Steps : s <= call[c].step => trail[s].status # "PENDING"
    BY DEF ActivateRead, OrderInv, CallInv, Recorded
  <2>3. WithStatus({"PENDING"}) \subseteq call'[c].todo
    BY <1>2, <2>1, <2>2 DEF WithStatus, Steps
  <2>4. call'[c].todo \subseteq Rows /\ Rows # {}
    BY <1>2 DEF WithStatus, Rows, ActivateRead, OrderInv, CallInv, Recorded
  <2> QED BY <1>1, <1>2, <2>2, <2>3, <2>4 DEF CallInv, Recorded, WithStatus, Rows
<1> QED
  BY <1>1, <1>2, <1>3, CallStep DEF OrderInv, PendingSuffix, FinalReachesEveryStep, WithStatus

\* The first row of the list is the first PENDING row, or no longer PENDING.
LEMMA OrderActivateNext ==
  ASSUME OrderInv, TypeOK', NEW c \in Callers, ActivateNext(c)
  PROVE  OrderInv'
<1>1. PICK s \in call[c].todo :
        IsFirst(s, call[c].todo) /\ (SkipStep(c, s) \/ ActivateStep(c, s))
  BY DEF ActivateNext
<1>2. /\ s \in Steps /\ call[c].pc = "activate" /\ call[c] \in Call
      /\ call[c].todo \subseteq Rows /\ WithStatus({"PENDING"}) \subseteq call[c].todo
  BY <1>1 DEF ActivateNext, OrderInv, CallInv, TypeOK, Call
<1>3. /\ trail'[s].status \in {"SKIPPED", "ACTIVE"}
      /\ \A t \in Steps \ {s} : trail'[t] = trail[t]
      /\ finals' = finals
  BY <1>1, <1>2 DEF ActivateNext, SkipStep, ActivateStep, OrderInv, TypeOK, Row
<1>4. /\ call'[c].pc = "activate" /\ call'[c].step = call[c].step
      /\ \/ call'[c].todo = call[c].todo \ {s}
         \/ call'[c].todo = {} /\ call'[c].first # 0
      /\ \A d \in Callers \ {c} : call'[d] = call[d]
  <2> call \in [Callers -> Call]
    BY DEF OrderInv, TypeOK
  <2>1. CASE SkipStep(c, s)
    BY <1>2, <2>1 DEF SkipStep, Call
  <2>2. CASE ActivateStep(c, s)
    <3>1. call' = [call EXCEPT
            ![c].todo = IF call[c].mode = "SEQUENTIAL" THEN {} ELSE @ \ {s},
            ![c].first = IF @ = 0 THEN s ELSE @]
      BY <2>2 DEF ActivateStep
    <3>2. s # 0
      BY <1>2 DEF Steps
    <3>3. /\ call'[c].pc = call[c].pc /\ call'[c].step = call[c].step
          /\ call'[c].todo = IF call[c].mode = "SEQUENTIAL" THEN {} ELSE call[c].todo \ {s}
          /\ call'[c].first = IF call[c].first = 0 THEN s ELSE call[c].first
          /\ \A d \in Callers \ {c} : call'[d] = call[d]
      BY <3>1, <1>2 DEF Call
    <3> QED BY <1>2, <3>2, <3>3
  <2> QED BY <1>1, <2>1, <2>2
<1>5. NoNewPending /\ RowsKept
  BY <1>2, <1>3 DEF NoNewPending, RowsKept, Rows
<1>6. PendingSuffix'
  \* a step before s that is PENDING would be in todo, where s is the first
  BY <1>1, <1>2, <1>3, EngineAssumption DEF PendingSuffix, IsFirst, WithStatus, OrderInv, Steps
<1>7. CallInv(c)'
  <2>1. Rows' = Rows /\ Rows # {}
    BY <1>1, <1>2, <1>5, RowsUnchanged
  <2>2. \A t \in Steps : t <= call[c].step => trail'[t].status # "PENDING"
    BY <1>2, <1>5 DEF OrderInv, CallInv, Recorded, NoNewPending
  <2>3. WithStatus({"PENDING"})' \subseteq WithStatus({"PENDING"}) \ {s}
    BY <1>3, <1>5 DEF WithStatus, NoNewPending
  <2>4. call'[c].todo # {} \/ call'[c].first = 0
          => WithStatus({"PENDING"})' \subseteq call'[c].todo
    BY <1>2, <1>4, <2>3
  <2> QED BY <1>2, <1>4, <2>1, <2>2, <2>4 DEF CallInv, Recorded
<1>8. FinalReachesEveryStep'
  BY <1>3, <1>5 DEF FinalReachesEveryStep, WithStatus, NoNewPending, OrderInv
<1> QED BY <1>3, <1>4, <1>5, <1>6, <1>7, <1>8, CallStep

\* decide() writes a row that was ACTIVE, hence not PENDING now.
LEMMA OrderDecideRecord ==
  ASSUME OrderInv, TypeOK', NEW c \in Callers, DecideRecord(c)
  PROVE  OrderInv'
<1> DEFINE me == call[c]
           mine == {s \in me.live : IsEligible(me.user, me.rows[s])}
<1>1. CASE Return(c, "refused") /\ UNCHANGED trail
  <2>1. NoNewPending /\ RowsKept /\ UNCHANGED <<trail, finals>>
    BY <1>1 DEF Return, NoNewPending, RowsKept, Outcomes, OrderInv, TypeOK
  <2>2. CallInv(c)' /\ call'[c].pc # "initiate"
    BY <1>1, ReturnedInv DEF Return, OrderInv, TypeOK, Results
  <2>3. \A d \in Callers \ {c} : call'[d] = call[d]
    BY <1>1 DEF Return, OrderInv, TypeOK
  <2> QED
    BY <2>1, <2>2, <2>3, CallStep
       DEF OrderInv, PendingSuffix, FinalReachesEveryStep, WithStatus
<1>2. ASSUME NEW s \in mine,
             trail' = [trail EXCEPT ![s].decidedBy = me.user, ![s].comment = "none",
               ![s].status = IF me.decision = "REJECT" THEN "REJECTED" ELSE "APPROVED"],
             call' = [call EXCEPT
               ![c] = [me EXCEPT !.step = s, !.live = @ \ {s}, !.rows = Blank,
                         !.pc = IF me.decision = "REJECT" THEN "close" ELSE "advance"]],
             UNCHANGED finals
      PROVE OrderInv'
  <2>1. me \in Call /\ s \in Steps /\ me.pc = "record" /\ me.first = 0 /\ Rows # {}
    BY <1>2 DEF DecideRecord, OrderInv, CallInv, TypeOK, Call
  <2>2. trail[s].status \notin {"NONE", "PENDING"}
    BY <1>2, <2>1 DEF OrderInv, CallInv
  <2>3. /\ trail'[s].status \in {"REJECTED", "APPROVED"}
        /\ \A t \in Steps \ {s} : trail'[t] = trail[t]
    BY <1>2, <2>1 DEF OrderInv, TypeOK, Row
  <2>4. NoNewPending /\ RowsKept
    BY <2>2, <2>3 DEF NoNewPending, RowsKept
  <2>5. PendingSuffix'
    BY <2>2, <2>3 DEF PendingSuffix, OrderInv
  <2>6. /\ call'[c].pc \in {"close", "advance"} /\ call'[c].step = s /\ call'[c].first = 0
        /\ \A d \in Callers \ {c} : call'[d] = call[d]
    BY <1>2, <2>1 DEF OrderInv, TypeOK, Call
  <2>7. \A t \in Steps : t <= s => trail'[t].status # "PENDING"
    \* the step decided is past the PENDING suffix, so all steps up to it are
    BY <2>1, <2>2, <2>3, EngineAssumption DEF OrderInv, PendingSuffix, Steps
  <2>8. CallInv(c)'
    BY <2>1, <2>4, <2>6, <2>7, RowsUnchanged DEF CallInv, Recorded
  <2>9. FinalReachesEveryStep'
    BY <1>2, <2>4 DEF FinalReachesEveryStep, WithStatus, NoNewPending, OrderInv
  <2> QED BY <1>2, <2>4, <2>5, <2>6, <2>8, <2>9, CallStep
<1> QED BY <1>1, <1>2 DEF DecideRecord

\* Steps of a call that return, or write no row.
LEMMA OrderReturn ==
  ASSUME OrderInv, TypeOK', NEW c \in Callers, NEW r \in Results, Return(c, r),
         NoNewPending, RowsKept, PendingSuffix', FinalReachesEveryStep',
         r \in Outcomes => Rows # {}
  PROVE  OrderInv'
<1>1. CallInv(c)' /\ call'[c].pc # "initiate"
  BY ReturnedInv DEF Return, OrderInv, TypeOK
<1>2. \A d \in Callers \ {c} : call'[d] = call[d]
  BY DEF Return, OrderInv, TypeOK
<1>3. Rows = {} => finals' = finals
  BY DEF Return, OrderInv, TypeOK, Outcomes
<1> QED BY <1>1, <1>2, <1>3, CallStep

\* The list is empty only if no row is PENDING, or one was activated.
LEMMA OrderActivateReturn ==
  ASSUME OrderInv, TypeOK', NEW c \in Callers, ActivateReturn(c)
  PROVE  OrderInv'
<1>1. NoNewPending /\ RowsKept /\ PendingSuffix'
  BY DEF ActivateReturn, NoNewPending, RowsKept, OrderInv, PendingSuffix
<1>2. CASE call[c].first = 0
  <2>1. Rows # {} /\ WithStatus({"PENDING"}) = {}
    BY <1>2 DEF ActivateReturn, OrderInv, CallInv, Recorded
  <2>2. FinalReachesEveryStep'
    BY <2>1 DEF ActivateReturn, FinalReachesEveryStep, WithStatus
  <2> QED BY <1>1, <1>2, <2>1, <2>2, OrderReturn DEF ActivateReturn, Results, Outcomes
<1>3. CASE call[c].first # 0
  <2>1. finals' = finals
    BY <1>3 DEF ActivateReturn, Return, Outcomes, OrderInv, TypeOK
  <2>2. FinalReachesEveryStep'
    BY <2>1 DEF ActivateReturn, FinalReachesEveryStep, WithStatus, OrderInv
  <2> QED BY <1>1, <1>3, <2>2, OrderReturn DEF ActivateReturn, Results, Outcomes
<1> QED BY <1>2, <1>3

\* Closing the chain leaves no PENDING row.
LEMMA OrderRejectClose ==
  ASSUME OrderInv, TypeOK', NEW c \in Callers, RejectClose(c)
  PROVE  OrderInv'
<1>1. /\ NoNewPending /\ RowsKept
      /\ \A s \in Steps : trail'[s].status # "PENDING"
  BY CloseKeeps DEF RejectClose, OrderInv
<1>2. PendingSuffix' /\ FinalReachesEveryStep'
  BY <1>1 DEF PendingSuffix, FinalReachesEveryStep, WithStatus
<1>3. Rows # {}
  BY DEF RejectClose, OrderInv, CallInv, Recorded
<1> QED BY <1>1, <1>2, <1>3, OrderReturn DEF RejectClose, Results, Outcomes

\* So does withdrawing it.
LEMMA OrderAbandon ==
  ASSUME OrderInv, TypeOK', NEW c \in Callers, Abandon(c)
  PROVE  OrderInv'
<1>1. /\ NoNewPending /\ RowsKept
      /\ \A s \in Steps : trail'[s].status # "PENDING"
  BY CloseKeeps DEF Abandon, OrderInv
<1>2. PendingSuffix' /\ FinalReachesEveryStep'
  BY <1>1 DEF PendingSuffix, FinalReachesEveryStep, WithStatus
<1> QED BY <1>1, <1>2, OrderReturn DEF Abandon, Results, Outcomes

\* decide() keeps the ACTIVE rows, which are not PENDING.
LEMMA OrderDecideRead ==
  ASSUME OrderInv, TypeOK', NEW c \in Callers, DecideRead(c)
  PROVE  OrderInv'
<1>1. NoNewPending /\ RowsKept /\ PendingSuffix'
  BY DEF DecideRead, NoNewPending, RowsKept, OrderInv, PendingSuffix
<1>2. finals' = finals
  BY DEF DecideRead, Return, Outcomes, OrderInv, TypeOK
<1>3. FinalReachesEveryStep'
  BY <1>2 DEF DecideRead, FinalReachesEveryStep, WithStatus, OrderInv
<1>4. CASE Rows = {} \/ WithStatus({"ACTIVE"}) = {}
  BY <1>1, <1>3, <1>4, OrderReturn DEF DecideRead, Results, Outcomes
<1>5. CASE ~(Rows = {} \/ WithStatus({"ACTIVE"}) = {})
  <2>1. /\ call'[c].pc = "record" /\ call'[c].step = 0 /\ call'[c].first = 0
        /\ call'[c].live = WithStatus({"ACTIVE"})
        /\ \A d \in Callers \ {c} : call'[d] = call[d]
    BY <1>5 DEF DecideRead, OrderInv, CallInv, TypeOK, Call
  <2>2. CallInv(c)'
    BY <1>1, <1>5, <2>1, RowsUnchanged DEF CallInv, Recorded, WithStatus, DecideRead
  <2> QED BY <1>1, <1>2, <1>3, <2>1, <2>2, CallStep
<1> QED BY <1>4, <1>5

\* Going on after a decision writes no row.
LEMMA OrderAdvance ==
  ASSUME OrderInv, TypeOK', NEW c \in Callers, Advance(c)
  PROVE  OrderInv'
<1>1. NoNewPending /\ RowsKept /\ PendingSuffix'
  BY DEF Advance, NoNewPending, RowsKept, OrderInv, PendingSuffix
<1>2. finals' = finals
  BY DEF Advance, Return, Outcomes, OrderInv, TypeOK
<1>3. FinalReachesEveryStep'
  BY <1>2 DEF Advance, FinalReachesEveryStep, WithStatus, OrderInv
<1>4. CASE call[c].live # {}
  BY <1>1, <1>3, <1>4, OrderReturn DEF Advance, Results, Outcomes
<1>5. CASE call[c].live = {}
  <2>1. /\ call'[c].pc = "activateRead" /\ call'[c].step = call[c].step
        /\ call'[c].first = call[c].first
        /\ \A d \in Callers \ {c} : call'[d] = call[d]
    BY <1>5 DEF Advance, OrderInv, TypeOK, Call
  <2>2. CallInv(c)'
    BY <1>1, <2>1, RowsUnchanged DEF CallInv, Recorded, Advance, OrderInv
  <2> QED BY <1>1, <1>2, <1>3, <2>1, <2>2, CallStep
<1> QED BY <1>4, <1>5

\* Entering a call writes no row; only one call ever initiates the trail.
LEMMA OrderEnter ==
  ASSUME OrderInv, TypeOK', NEW c \in Callers,
         CallInitiate(c) \/ CallDecide(c) \/ CallAbandon(c) \/ CallDone(c)
  PROVE  OrderInv'
<1>1. /\ NoNewPending /\ RowsKept /\ PendingSuffix' /\ FinalReachesEveryStep'
      /\ trail' = trail /\ finals' = finals
  BY DEF CallInitiate, CallDecide, CallAbandon, CallDone, OrderInv, NoNewPending, RowsKept,
         PendingSuffix, FinalReachesEveryStep, WithStatus
<1> call \in [Callers -> Call]
  BY DEF OrderInv, TypeOK
<1>2. CASE CallInitiate(c)
  <2>1. /\ call'[c].pc = "initiate" /\ call'[c].step = 0 /\ call'[c].first = 0
        /\ \A d \in Callers \ {c} : call'[d] = call[d]
        /\ Rows' = {}
    BY <1>1, <1>2 DEF CallInitiate, Enter, OrderInv, CallInv, Call, Rows
  <2>2. CallInv(c)'
    BY <2>1 DEF CallInv, Recorded
  <2>3. ASSUME NEW d \in Callers PROVE CallInv(d)'
    BY <1>1, <2>1, <2>2, OtherCalls DEF OrderInv
  <2>4. \A d, e \in Callers : call'[d].pc = "initiate" /\ call'[e].pc = "initiate" => d = e
    BY <1>2, <2>1 DEF CallInitiate
  <2>5. \A o \in Outcomes : finals'[o] = 0
    BY <1>1, <1>2 DEF CallInitiate, OrderInv
  <2> QED BY <1>1, <2>3, <2>4, <2>5 DEF OrderInv
<1>3. CASE CallDecide(c) \/ CallAbandon(c)
  <2>1. /\ call'[c].pc \in {"decide", "abandon"} /\ call'[c].step = 0 /\ call'[c].first = 0
        /\ \A d \in Callers \ {c} : call'[d] = call[d]
    <3> call[c].pc = "idle" => call[c].step = 0 /\ call[c].first = 0
      BY DEF OrderInv, CallInv
    <3>1. CASE CallAbandon(c)
      BY <3>1 DEF CallAbandon, Enter, Call
    <3>2. CASE CallDecide(c)
      <4>1. PICK u \in Users, d \in Decisions : EnterDecide(c, u, d)
        BY <3>2 DEF CallDecide
      <4> QED BY <4>1 DEF EnterDecide, Call
    <3> QED BY <1>3, <3>1, <3>2
  <2>2. CallInv(c)'
    BY <2>1 DEF CallInv, Recorded
  <2> QED BY <1>1, <2>1, <2>2, CallStep
<1>4. CASE CallDone(c)
  <2>1. call'[c] = Idle /\ \A d \in Callers \ {c} : call'[d] = call[d]
    BY <1>4 DEF CallDone, Done
  <2>2. CallInv(c)' /\ call'[c].pc # "initiate"
    BY <2>1, ReturnedInv
  <2> QED BY <1>1, <2>1, <2>2, CallStep
<1> QED BY <1>2, <1>3, <1>4

\* The process dies: the rows stay, and no call relies on anything.
LEMMA OrderCrash ==
  ASSUME OrderInv, TypeOK', Crash
  PROVE  OrderInv'
<1>1. \A c \in Callers : call'[c] = Idle
  BY DEF Crash
<1>2. \A c \in Callers : CallInv(c)' /\ call'[c].pc # "initiate"
  BY <1>1, ReturnedInv
<1>3. trail' = trail /\ finals' = finals
  BY DEF Crash
<1> QED
  BY <1>2, <1>3 DEF OrderInv, PendingSuffix, FinalReachesEveryStep, WithStatus, Rows

\* Workflows and directories are not read by the invariant.
LEMMA OrderElsewhere ==
  ASSUME OrderInv, TypeOK', UNCHANGED <<trail, call, finals>>
  PROVE  OrderInv'
<1>1. \A c \in Callers : CallInv(c)'
  BY DEF OrderInv, CallInv, WithStatus, Rows
<1> QED
  BY <1>1 DEF OrderInv, PendingSuffix, FinalReachesEveryStep, WithStatus, Rows

\* Every step keeps OrderInv.
LEMMA OrderStep == OrderInv /\ [Next]_engineVars => OrderInv'
<1> SUFFICES ASSUME OrderInv, [Next]_engineVars PROVE OrderInv'
  OBVIOUS
<1>1. TypeOK'
  BY TypeStep DEF OrderInv
<1>2. ASSUME NEW c \in Callers, EngineStep(c) PROVE OrderInv'
  BY <1>1, <1>2, OrderInitiateCreate, OrderActivateRead, OrderActivateNext,
     OrderActivateReturn, OrderDecideRead, OrderDecideRecord, OrderRejectClose,
     OrderAdvance, OrderAbandon DEF EngineStep
<1>3. ASSUME NEW c \in Callers,
             CallInitiate(c) \/ CallDecide(c) \/ CallAbandon(c) \/ CallDone(c)
      PROVE OrderInv'
  BY <1>1, <1>3, OrderEnter
<1>4. CASE ConfigureWorkflow \/ DirectoryChanges \/ UNCHANGED engineVars
  BY <1>1, <1>4, OrderElsewhere DEF ConfigureWorkflow, DirectoryChanges, engineVars
<1>5. CASE Crash
  BY <1>1, <1>5, OrderCrash
<1> QED BY <1>2, <1>3, <1>4, <1>5 DEF Next

\* The invariant of the calls in flight holds in every reachable state.
THEOREM OrderCorrect == Spec => []OrderInv
  BY OrderInit, OrderStep, PTL DEF Spec

\* Steps of a chain are reached strictly in order, whatever calls of decide()
\* and abandon() overlap and wherever the process dies.
THEOREM StepsReachedInOrder == Spec => []PendingSuffix
<1>1. OrderInv => PendingSuffix
  BY DEF OrderInv
<1> QED BY <1>1, OrderCorrect, PTL

\* No call returns APPROVED or REJECTED for a chain with a step that was never
\* reached.
THEOREM FinalAfterEveryStep == Spec => []FinalReachesEveryStep
<1>1. OrderInv => FinalReachesEveryStep
  BY DEF OrderInv
<1> QED BY <1>1, OrderCorrect, PTL

-----------------------------------------------------------------------------
(* Calls that do not overlap *)

OneCaller == \A c, d \in Callers : c = d

Answered == \E o \in Outcomes : finals[o] > 0

\* What the only call in flight knows of the rows, which nobody else writes:
\* the ACTIVE steps it read are the ACTIVE steps, the steps it has yet to visit
\* are PENDING, a chain it goes on with has not been answered, and an outcome it
\* brings back was counted.
AnswerCall(c) ==
    /\ call[c].pc = "idle" => call[c] = Idle
    /\ call[c].pc \in {"initiate", "advance", "activateRead", "activate"}
         => call[c].decision = "APPROVE"
    /\ call[c].pc = "close" => call[c].decision = "REJECT"
    /\ call[c].pc \in Recorded => ~Answered
    /\ call[c].pc \in {"record", "advance"} => call[c].live = WithStatus({"ACTIVE"})
    /\ call[c].pc = "record" => WithStatus({"ACTIVE"}) # {}
    /\ call[c].pc = "activateRead" \/ (call[c].pc = "activate" /\ call[c].first = 0)
         => WithStatus({"ACTIVE"}) = {}
    /\ call[c].pc = "activate" => call[c].todo \subseteq WithStatus({"PENDING"})
    /\ call[c].pc = "returned" /\ call[c].result \in Outcomes
         => finals[call[c].result] > 0
    /\ call[c].pc = "returned" /\ call[c].result = "notEngaged" => Rows = {}

\* An answered chain has no open row, so no later call reaches an outcome.
AnswerInv ==
    /\ OrderInv
    /\ OneOutcome
    /\ Answered => WithStatus(Open) = {}
    /\ \A c \in Callers : AnswerCall(c)

\* The vote on a row can still end in an approval.
Favourable(s) ==
    \/ trail[s].status \in {"PENDING", "ACTIVE", "APPROVED"}
    \/ trail[s].status = "SKIPPED" /\ trail[s].comment = "auto"

\* Without crashes a chain that is not answered or withdrawn has had no refusal,
\* unless the call is about to close it, and waits for somebody, unless the call
\* is working on it.
VoteCall(c) ==
    /\ ~Answered /\ ~Cancelled /\ call[c].pc # "close" => \A s \in Rows : Favourable(s)
    /\ ~Cancelled /\ Rows # {} /\ call[c].pc \notin Recorded
         => WithStatus({"ACTIVE"}) # {} \/ Answered
    /\ call[c].pc \in Recorded => ~Cancelled
    /\ call[c].pc = "activate" /\ call[c].first # 0 => WithStatus({"ACTIVE"}) # {}

VoteInv ==
    /\ AnswerInv
    /\ FinalApprovalIsUnanimous
    /\ Cancelled => WithStatus(Open) = {}
    /\ \A c \in Callers : VoteCall(c)
    /\ Callers = {} => Rows = {}

\* An answer that is not an outcome leaves the counters alone.
LEMMA ReturnOther ==
  ASSUME TypeOK, NEW c \in Callers, NEW r \in Results \ Outcomes, Return(c, r)
  PROVE  /\ finals' = finals
         /\ call'[c].pc = "returned" /\ call'[c].result = r
  BY DEF Return, TypeOK, Idle, Outcomes

\* The first outcome of a chain is counted as the only one.
LEMMA ReturnFirst ==
  ASSUME TypeOK, ~Answered, NEW c \in Callers, NEW r \in Outcomes, Return(c, r)
  PROVE  /\ finals' = [o \in Outcomes |-> IF o = r THEN 1 ELSE 0]
         /\ OneOutcome'
         /\ call'[c].pc = "returned" /\ call'[c].result = r
<1>1. \A o \in Outcomes : finals[o] = 0
  BY DEF Answered, TypeOK
<1>2. finals' = [o \in Outcomes |-> IF o = r THEN 1 ELSE 0]
  BY <1>1 DEF Return, Bump
<1>3. OneOutcome'
  BY <1>2 DEF OneOutcome, Outcomes
<1> QED BY <1>2, <1>3 DEF Return, TypeOK, Idle

\* A step of the only caller that leaves rows, counters and outcome of AnswerInv
\* owes its own part only.
LEMMA AnswerCallStep ==
  ASSUME AnswerInv, OrderInv', OneCaller, NEW c \in Callers, AnswerCall(c)',
         OneOutcome', Answered' => WithStatus(Open)' = {}
  PROVE  AnswerInv'
<1>1. \A d \in Callers : d = c
  BY DEF OneCaller
<1>2. \A d \in Callers : AnswerCall(d)'
  BY <1>1
<1> QED BY <1>2 DEF AnswerInv

\* Nothing was answered before the first call.
LEMMA AnswerInit == Init => AnswerInv
<1> SUFFICES ASSUME Init PROVE AnswerInv
  OBVIOUS
<1>1. \A o \in Outcomes : finals[o] = 0
  BY DEF Init
<1>2. ~Answered /\ OneOutcome
  BY <1>1 DEF Answered, OneOutcome, Outcomes
<1>3. \A c \in Callers : AnswerCall(c)
  BY DEF Init, AnswerCall, Idle, Recorded
<1> QED BY <1>2, <1>3, OrderInit DEF AnswerInv

\* A step that returns something else than an outcome, or nothing, and writes no row.
LEMMA AnswerReturnOther ==
  ASSUME AnswerInv, OrderInv', OneCaller, NEW c \in Callers, NEW r \in Results \ Outcomes,
         Return(c, r), WithStatus(Open)' \subseteq WithStatus(Open),
         r = "notEngaged" => Rows' = {}
  PROVE  AnswerInv'
<1>1. /\ finals' = finals
      /\ call'[c].pc = "returned" /\ call'[c].result = r
  BY ReturnOther DEF AnswerInv, OrderInv
<1>2. AnswerCall(c)'
  BY <1>1 DEF AnswerCall, Recorded
<1>3. OneOutcome' /\ (Answered' => WithStatus(Open)' = {})
  BY <1>1 DEF AnswerInv, OneOutcome, Answered
<1> QED BY <1>2, <1>3, AnswerCallStep

\* A step that returns the outcome of a chain without open rows.
LEMMA AnswerReturnFirst ==
  ASSUME AnswerInv, OrderInv', OneCaller, NEW c \in Callers, NEW r \in Outcomes,
         Return(c, r), ~Answered, WithStatus(Open)' = {}
  PROVE  AnswerInv'
<1>1. /\ finals'[r] = 1 /\ OneOutcome'
      /\ call'[c].pc = "returned" /\ call'[c].result = r
  BY ReturnFirst DEF AnswerInv, OrderInv
<1>2. AnswerCall(c)'
  BY <1>1 DEF AnswerCall, Recorded, Outcomes
<1> QED BY <1>1, <1>2, AnswerCallStep

\* A step of the only caller that goes on and leaves the counters alone.
LEMMA AnswerGoesOn ==
  ASSUME AnswerInv, OrderInv', OneCaller, NEW c \in Callers, finals' = finals,
         AnswerCall(c)', Answered => WithStatus(Open)' = {}
  PROVE  AnswerInv'
<1>1. OneOutcome' /\ (Answered' => WithStatus(Open)' = {})
  BY DEF AnswerInv, OneOutcome, Answered
<1> QED BY <1>1, AnswerCallStep

\* initiate() starts a chain that has no outcome yet, with no row ACTIVE.
LEMMA AnswerInitiateCreate ==
  ASSUME AnswerInv, OrderInv', OneCaller, NEW c \in Callers, InitiateCreate(c)
  PROVE  AnswerInv'
<1>1. Rows = {} /\ ~Answered
  BY DEF AnswerInv, OrderInv, InitiateCreate, CallInv, Answered
<1>2. CASE ~enabled \/ workflow.steps = <<>>
  BY <1>1, <1>2, AnswerReturnOther
     DEF InitiateCreate, Rows, WithStatus, Results, Outcomes
<1>3. CASE ~(~enabled \/ workflow.steps = <<>>)
  <2>1. /\ trail' = [s \in Steps |-> InitialRow(workflow, s)]
        /\ call' = [call EXCEPT ![c].pc = "activateRead", ![c].mode = workflow.mode]
        /\ finals' = finals
    BY <1>3 DEF InitiateCreate
  <2>2. WithStatus({"ACTIVE"})' = {}
    BY <2>1 DEF WithStatus, InitialRow, NoRow
  <2>3. call'[c].pc = "activateRead" /\ call'[c].decision = "APPROVE"
    BY <2>1 DEF AnswerInv, OrderInv, TypeOK, Call, AnswerCall, InitiateCreate
  <2>4. AnswerCall(c)'
    BY <1>1, <2>1, <2>2, <2>3 DEF AnswerCall, Answered, Recorded
  <2> QED BY <1>1, <2>1, <2>4, AnswerGoesOn
<1> QED BY <1>2, <1>3

\* activateFrom() starts its list with no row ACTIVE.
LEMMA AnswerActivateRead ==
  ASSUME AnswerInv, OrderInv', OneCaller, NEW c \in Callers, ActivateRead(c)
  PROVE  AnswerInv'
<1>1. /\ call'[c].pc = "activate" /\ call'[c].decision = call[c].decision
      /\ call'[c].todo = {s \in WithStatus({"PENDING"}) : s > call[c].step}
      /\ trail' = trail /\ finals' = finals
  BY DEF ActivateRead, AnswerInv, OrderInv, TypeOK, Call
<1>2. AnswerCall(c)'
  BY <1>1 DEF AnswerInv, AnswerCall, ActivateRead, Recorded, WithStatus, Answered
<1> QED BY <1>1, <1>2, AnswerGoesOn DEF AnswerInv, WithStatus

\* A visited row is skipped, or the call knows that it activated one.
LEMMA AnswerActivateNext ==
  ASSUME AnswerInv, OrderInv', OneCaller, NEW c \in Callers, ActivateNext(c)
  PROVE  AnswerInv'
<1>1. PICK s \in call[c].todo : SkipStep(c, s) \/ ActivateStep(c, s)
  BY DEF ActivateNext
<1>2. s \in Steps /\ s # 0 /\ call[c] \in Call /\ call[c].pc = "activate"
  BY DEF ActivateNext, AnswerInv, OrderInv, TypeOK, Call, Steps
<1>3. ~Answered /\ call[c].decision = "APPROVE" /\ finals' = finals
  BY <1>2 DEF AnswerInv, AnswerCall, Recorded, ActivateNext
<1>4. call[c].todo \ {s} \subseteq WithStatus({"PENDING"})'
  <2>1. \A t \in Steps \ {s} : trail'[t] = trail[t]
    BY <1>1, <1>2 DEF SkipStep, ActivateStep, AnswerInv, OrderInv, TypeOK
  <2> QED BY <1>2, <2>1 DEF AnswerInv, AnswerCall, WithStatus
<1>5. CASE SkipStep(c, s)
  <2>1. /\ call'[c].pc = "activate" /\ call'[c].decision = "APPROVE"
        /\ call'[c].first = call[c].first /\ call'[c].todo = call[c].todo \ {s}
        /\ WithStatus({"ACTIVE"})' \subseteq WithStatus({"ACTIVE"})
    BY <1>2, <1>3, <1>5 DEF SkipStep, AnswerInv, OrderInv, TypeOK, Call, WithStatus, Row
  <2>2. ~Answered'
    BY <1>3 DEF Answered
  <2>3. call'[c].first = 0 => WithStatus({"ACTIVE"})' = {}
    BY <1>2, <2>1 DEF AnswerInv, AnswerCall
  <2>4. AnswerCall(c)'
    BY <1>4, <2>1, <2>2, <2>3 DEF AnswerCall, Recorded
  <2> QED BY <1>3, <2>4, AnswerGoesOn
<1>6. CASE ActivateStep(c, s)
  <2>1. call' = [call EXCEPT
          ![c].todo = IF call[c].mode = "SEQUENTIAL" THEN {} ELSE @ \ {s},
          ![c].first = IF @ = 0 THEN s ELSE @]
    BY <1>6 DEF ActivateStep
  <2>2. /\ call'[c].pc = "activate" /\ call'[c].decision = "APPROVE" /\ call'[c].first # 0
        /\ call'[c].todo \subseteq call[c].todo \ {s}
    BY <1>2, <1>3, <2>1 DEF AnswerInv, OrderInv, TypeOK, Call
  <2>3. AnswerCall(c)'
    BY <1>3, <1>4, <2>2 DEF AnswerCall, Recorded, Answered
  <2> QED BY <1>3, <2>3, AnswerGoesOn
<1> QED BY <1>1, <1>5, <1>6

\* The list is used up without an ACTIVE row: APPROVED; otherwise the chain waits.
LEMMA AnswerActivateReturn ==
  ASSUME AnswerInv, OrderInv', OneCaller, NEW c \in Callers, ActivateReturn(c)
  PROVE  AnswerInv'
<1>1. call[c].pc = "activate" /\ call[c].todo = {} /\ trail' = trail
  BY DEF ActivateReturn
<1>2. CASE call[c].first = 0
  <2>1. WithStatus({"ACTIVE"}) = {} /\ WithStatus({"PENDING"}) = {} /\ ~Answered
    BY <1>1, <1>2 DEF AnswerInv, AnswerCall, OrderInv, CallInv, Recorded
  <2>2. WithStatus(Open)' = {}
    BY <1>1, <2>1 DEF WithStatus, Open
  <2> QED BY <1>2, <2>1, <2>2, AnswerReturnFirst DEF ActivateReturn, Outcomes
<1>3. CASE call[c].first # 0
  BY <1>1, <1>3, AnswerReturnOther DEF ActivateReturn, Results, Outcomes, WithStatus
<1> QED BY <1>2, <1>3

\* decide() reads the ACTIVE rows, or refuses.
LEMMA AnswerDecideRead ==
  ASSUME AnswerInv, OrderInv', OneCaller, NEW c \in Callers, DecideRead(c)
  PROVE  AnswerInv'
<1>1. trail' = trail
  BY DEF DecideRead
<1>2. CASE Rows = {} \/ WithStatus({"ACTIVE"}) = {}
  BY <1>1, <1>2, AnswerReturnOther DEF DecideRead, Results, Outcomes, WithStatus, Rows
<1>3. CASE ~(Rows = {} \/ WithStatus({"ACTIVE"}) = {})
  <2>1. /\ call'[c].pc = "record" /\ call'[c].live = WithStatus({"ACTIVE"})
        /\ finals' = finals
    BY <1>3 DEF DecideRead, AnswerInv, OrderInv, TypeOK, Call
  <2>2. AnswerCall(c)'
    BY <1>1, <1>3, <2>1 DEF AnswerCall, Recorded, WithStatus
  <2> QED BY <1>1, <2>1, <2>2, AnswerGoesOn DEF AnswerInv, WithStatus
<1> QED BY <1>2, <1>3

\* decide() answers one of the rows that are ACTIVE now.
LEMMA AnswerDecideRecord ==
  ASSUME AnswerInv, OrderInv', OneCaller, NEW c \in Callers, DecideRecord(c)
  PROVE  AnswerInv'
<1> DEFINE me == call[c]
           mine == {s \in me.live : IsEligible(me.user, me.rows[s])}
<1>1. CASE Return(c, "refused") /\ UNCHANGED trail
  BY <1>1, AnswerReturnOther DEF Results, Outcomes, WithStatus
<1>2. ASSUME NEW s \in mine,
             trail' = [trail EXCEPT ![s].decidedBy = me.user, ![s].comment = "none",
               ![s].status = IF me.decision = "REJECT" THEN "REJECTED" ELSE "APPROVED"],
             call' = [call EXCEPT
               ![c] = [me EXCEPT !.step = s, !.live = @ \ {s}, !.rows = Blank,
                         !.pc = IF me.decision = "REJECT" THEN "close" ELSE "advance"]],
             UNCHANGED finals
      PROVE AnswerInv'
  <2>1. me \in Call /\ s \in Steps /\ me.pc = "record"
    BY DEF DecideRecord, AnswerInv, OrderInv, TypeOK, Call
  <2>2. me.live = WithStatus({"ACTIVE"}) /\ me.live # {}
    BY <2>1 DEF AnswerInv, AnswerCall
  <2>3. ~Answered
    BY <2>2 DEF AnswerInv, WithStatus, Open
  <2>4. WithStatus({"ACTIVE"})' = me.live \ {s}
    BY <1>2, <2>1, <2>2 DEF WithStatus, AnswerInv, OrderInv, TypeOK, Row
  <2>5. /\ call'[c].live = me.live \ {s} /\ call'[c].decision = me.decision
        /\ call'[c].pc = IF me.decision = "REJECT" THEN "close" ELSE "advance"
    BY <1>2, <2>1 DEF AnswerInv, OrderInv, TypeOK, Call
  <2>6. me.decision \in {"APPROVE", "REJECT"}
    BY <2>1 DEF Call, Decisions
  <2>7. \/ call'[c].pc = "close" /\ call'[c].decision = "REJECT"
        \/ call'[c].pc = "advance" /\ call'[c].decision = "APPROVE"
    BY <2>5, <2>6
  <2>8. ~Answered'
    BY <1>2, <2>3 DEF Answered
  <2>9. call'[c].live = WithStatus({"ACTIVE"})'
    BY <2>4, <2>5
  <2>10. AnswerCall(c)'
    BY <2>7, <2>8, <2>9 DEF AnswerCall, Recorded
  <2> QED BY <1>2, <2>3, <2>10, AnswerGoesOn
<1> QED BY <1>1, <1>2 DEF DecideRecord

\* Closing a chain leaves no open row.
LEMMA CloseShuts ==
  ASSUME NEW comment, CloseTrail(comment), TypeOK
  PROVE  WithStatus(Open)' = {}
  BY DEF CloseTrail, WithStatus, Open, TypeOK, Row

\* A refusal closes the chain before it is returned.
LEMMA AnswerRejectClose ==
  ASSUME AnswerInv, OrderInv', OneCaller, NEW c \in Callers, RejectClose(c)
  PROVE  AnswerInv'
<1>1. ~Answered
  BY DEF RejectClose, AnswerInv, AnswerCall, Recorded
<1>2. WithStatus(Open)' = {}
  BY CloseShuts DEF RejectClose, AnswerInv, OrderInv
<1> QED BY <1>1, <1>2, AnswerReturnFirst DEF RejectClose, Outcomes

\* An approved step waits for its ACTIVE siblings, or goes on without any.
LEMMA AnswerAdvance ==
  ASSUME AnswerInv, OrderInv', OneCaller, NEW c \in Callers, Advance(c)
  PROVE  AnswerInv'
<1>1. trail' = trail
  BY DEF Advance
<1>2. CASE call[c].live # {}
  BY <1>1, <1>2, AnswerReturnOther DEF Advance, Results, Outcomes, WithStatus
<1>3. CASE call[c].live = {}
  <2>1. /\ call'[c].pc = "activateRead" /\ call'[c].decision = call[c].decision
        /\ finals' = finals
    BY <1>3 DEF Advance, AnswerInv, OrderInv, TypeOK, Call
  <2>2. /\ ~Answered /\ call[c].decision = "APPROVE" /\ WithStatus({"ACTIVE"}) = {}
    BY <1>3 DEF Advance, AnswerInv, AnswerCall, Recorded
  <2>3. AnswerCall(c)'
    BY <1>1, <2>1, <2>2 DEF AnswerCall, Recorded, Answered, WithStatus
  <2> QED BY <2>1, <2>2, <2>3, AnswerGoesOn
<1> QED BY <1>2, <1>3

\* Withdrawing closes the chain and returns no outcome.
LEMMA AnswerAbandon ==
  ASSUME AnswerInv, OrderInv', OneCaller, NEW c \in Callers, Abandon(c)
  PROVE  AnswerInv'
<1>1. WithStatus(Open)' = {}
  BY CloseShuts DEF Abandon, AnswerInv, OrderInv
<1> QED BY <1>1, AnswerReturnOther DEF Abandon, Results, Outcomes

\* A call that starts relies on nothing; a finished one leaves its record idle.
LEMMA AnswerEnter ==
  ASSUME AnswerInv, OrderInv', OneCaller, NEW c \in Callers,
         CallInitiate(c) \/ CallDecide(c) \/ CallAbandon(c) \/ CallDone(c)
  PROVE  AnswerInv'
<1>1. trail' = trail /\ finals' = finals
  BY DEF CallInitiate, CallDecide, CallAbandon, CallDone
<1>2. call \in [Callers -> Call]
  BY DEF AnswerInv, OrderInv, TypeOK
<1>3. call[c].pc = "idle" => call[c] = Idle
  BY DEF AnswerInv, AnswerCall
<1>4. CASE CallInitiate(c) \/ CallAbandon(c)
  <2>1. call'[c].pc \in {"initiate", "abandon"} /\ call'[c].decision = "APPROVE"
    BY <1>2, <1>3, <1>4 DEF CallInitiate, CallAbandon, Enter, Idle
  <2>2. AnswerCall(c)'
    BY <2>1 DEF AnswerCall, Recorded
  <2> QED BY <1>1, <2>2, AnswerGoesOn DEF AnswerInv, WithStatus
<1>5. CASE CallDecide(c)
  <2>1. PICK u \in Users, d \in Decisions : EnterDecide(c, u, d)
    BY <1>5 DEF CallDecide
  <2>2. call'[c].pc = "decide"
    BY <1>2, <2>1 DEF EnterDecide, Call
  <2>3. AnswerCall(c)'
    BY <2>2 DEF AnswerCall, Recorded
  <2> QED BY <1>1, <2>3, AnswerGoesOn DEF AnswerInv, WithStatus
<1>6. CASE CallDone(c)
  <2>1. call'[c] = Idle
    BY <1>2, <1>6 DEF CallDone, Done
  <2>2. AnswerCall(c)'
    BY <2>1 DEF AnswerCall, Recorded, Idle
  <2> QED BY <1>1, <2>2, AnswerGoesOn DEF AnswerInv, WithStatus
<1> QED BY <1>4, <1>5, <1>6

\* Every step of calls that do not overlap keeps AnswerInv, crashes included.
LEMMA AnswerStep ==
  ASSUME OneCaller, AnswerInv, [Next]_engineVars
  PROVE  AnswerInv'
<1>1. OrderInv'
  BY OrderStep DEF AnswerInv
<1>2. ASSUME NEW c \in Callers, EngineStep(c) PROVE AnswerInv'
  BY <1>1, <1>2, AnswerInitiateCreate, AnswerActivateRead, AnswerActivateNext,
     AnswerActivateReturn, AnswerDecideRead, AnswerDecideRecord, AnswerRejectClose,
     AnswerAdvance, AnswerAbandon DEF EngineStep
<1>3. ASSUME NEW c \in Callers,
             CallInitiate(c) \/ CallDecide(c) \/ CallAbandon(c) \/ CallDone(c)
      PROVE AnswerInv'
  BY <1>1, <1>3, AnswerEnter
<1>4. CASE UNCHANGED <<trail, call, finals>>
  BY <1>1, <1>4 DEF AnswerInv, AnswerCall, Answered, OneOutcome, WithStatus, Rows
<1>5. CASE Crash
  <2>1. trail' = trail /\ finals' = finals /\ \A c \in Callers : call'[c] = Idle
    BY <1>5 DEF Crash
  <2>2. \A c \in Callers : AnswerCall(c)'
    BY <2>1 DEF AnswerCall, Recorded, Idle
  <2> QED BY <1>1, <2>1, <2>2 DEF AnswerInv, Answered, OneOutcome, WithStatus
<1>6. ConfigureWorkflow \/ DirectoryChanges \/ UNCHANGED engineVars
        => UNCHANGED <<trail, call, finals>>
  BY DEF ConfigureWorkflow, DirectoryChanges, engineVars
<1> QED BY <1>2, <1>3, <1>4, <1>5, <1>6 DEF Next

\* Non-overlapping calls hand a chain's outcome to the service once, so its side
\* effects run once, wherever the process dies.
THEOREM OneAnswer ==
  ASSUME OneCaller
  PROVE  Spec => []OneOutcome
<1>1. AnswerInv => OneOutcome
  BY DEF AnswerInv
<1>2. AnswerInv /\ [Next]_engineVars => AnswerInv'
  BY AnswerStep
<1> QED BY <1>1, <1>2, AnswerInit, PTL DEF Spec

\* A step of the only caller owes its own part and what was answered.
LEMMA VoteStepBy ==
  ASSUME VoteInv, AnswerInv', OneCaller, NEW c \in Callers, VoteCall(c)',
         FinalApprovalIsUnanimous', Cancelled' => WithStatus(Open)' = {}
  PROVE  VoteInv'
<1>1. \A d \in Callers : VoteCall(d)'
  BY DEF OneCaller
<1> QED BY <1>1 DEF VoteInv

\* Nobody has voted on a chain without rows.
LEMMA VoteInit == Init => VoteInv
<1> SUFFICES ASSUME Init PROVE VoteInv
  OBVIOUS
<1>1. AnswerInv
  BY AnswerInit
<1>2. Rows = {} /\ ~Cancelled
  BY DEF Init, Rows, Blank, NoRow, Cancelled
<1>3. finals["APPROVED"] = 0
  BY DEF Init, Outcomes
<1>4. \A c \in Callers : call[c].pc = "idle"
  BY DEF Init, Idle
<1> QED BY <1>1, <1>2, <1>3, <1>4 DEF VoteInv, VoteCall, FinalApprovalIsUnanimous, Recorded

\* A step that writes no row and returns no outcome: it owes what its pc says.
LEMMA VoteNoWrite ==
  ASSUME VoteInv, AnswerInv', OneCaller, NEW c \in Callers,
         trail' = trail, finals' = finals,
         call'[c].pc # "close" => call[c].pc # "close",
         call[c].pc \in Recorded /\ call'[c].pc \notin Recorded
           => WithStatus({"ACTIVE"}) # {} \/ Rows = {},
         call'[c].pc \in Recorded => call[c].pc \in Recorded,
         call'[c].pc # "activate" \/ call'[c].first = 0
  PROVE  VoteInv'
<1> DEFINE Active == WithStatus({"ACTIVE"})
<1>1. /\ Rows' = Rows /\ Active' = Active /\ WithStatus(Open)' = WithStatus(Open)
      /\ Cancelled' <=> Cancelled
      /\ Answered' <=> Answered
      /\ \A s \in Steps : Favourable(s)' <=> Favourable(s)
      /\ FinalApprovalIsUnanimous' <=> FinalApprovalIsUnanimous
  BY DEF Rows, WithStatus, Cancelled, Answered, Favourable, FinalApprovalIsUnanimous
<1>2. VoteCall(c) /\ Rows \subseteq Steps
  BY DEF VoteInv, Rows
<1> HIDE DEF Active
<1>3. VoteCall(c)'
  BY <1>1, <1>2 DEF VoteCall, Active
<1> QED BY <1>1, <1>3, VoteStepBy DEF VoteInv

\* initiate(): every row can still be approved.
LEMMA VoteInitiateCreate ==
  ASSUME VoteInv, AnswerInv', OneCaller, NEW c \in Callers, InitiateCreate(c)
  PROVE  VoteInv'
<1>1. Rows = {} /\ finals["APPROVED"] = 0
  BY DEF VoteInv, AnswerInv, OrderInv, InitiateCreate, CallInv, Outcomes
<1>2. CASE ~enabled \/ workflow.steps = <<>>
  BY <1>1, <1>2, ReturnOther, VoteNoWrite
     DEF InitiateCreate, VoteInv, AnswerInv, OrderInv, Recorded, Results, Outcomes
<1>3. CASE ~(~enabled \/ workflow.steps = <<>>)
  <2>1. /\ trail' = [s \in Steps |-> InitialRow(workflow, s)]
        /\ call' = [call EXCEPT ![c].pc = "activateRead", ![c].mode = workflow.mode]
        /\ finals' = finals
    BY <1>3 DEF InitiateCreate
  <2>2. call'[c].pc = "activateRead"
    BY <2>1 DEF VoteInv, AnswerInv, OrderInv, TypeOK, Call
  <2>3. \A s \in Steps : trail'[s].status \in {"NONE", "PENDING"} /\ trail'[s].comment = "none"
    BY <2>1 DEF InitialRow, NoRow
  <2>4. ~Cancelled' /\ \A s \in Rows' : Favourable(s)'
    BY <2>3 DEF Cancelled, Rows, Favourable
  <2>5. VoteCall(c)'
    BY <2>2, <2>4 DEF VoteCall, Recorded
  <2>6. FinalApprovalIsUnanimous'
    BY <1>1, <2>1 DEF FinalApprovalIsUnanimous
  <2> QED BY <2>4, <2>5, <2>6, VoteStepBy
<1> QED BY <1>2, <1>3

\* A visited row can still be approved: it is skipped for want of approvers, or ACTIVE.
LEMMA VoteActivateNext ==
  ASSUME VoteInv, AnswerInv', OneCaller, NEW c \in Callers, ActivateNext(c)
  PROVE  VoteInv'
<1>1. PICK s \in call[c].todo : SkipStep(c, s) \/ ActivateStep(c, s)
  BY DEF ActivateNext
<1>2. s \in Steps /\ s \in Rows /\ s # 0 /\ call[c] \in Call /\ call[c].pc = "activate"
  BY DEF ActivateNext, VoteInv, AnswerInv, OrderInv, CallInv, TypeOK, Call, Steps
<1>3. ~Answered /\ ~Cancelled /\ finals' = finals /\ finals["APPROVED"] = 0
  <2>1. ~Answered /\ ~Cancelled /\ finals' = finals
    BY <1>2 DEF VoteInv, VoteCall, AnswerInv, AnswerCall, Recorded, ActivateNext
  <2>2. finals \in [Outcomes -> 0..2]
    BY DEF VoteInv, AnswerInv, OrderInv, TypeOK
  <2> QED BY <2>1, <2>2 DEF Answered, Outcomes
<1>4. \A t \in Rows : Favourable(t)
  BY <1>2, <1>3 DEF VoteInv, VoteCall
<1>5. trail \in [Steps -> Row] /\ call \in [Callers -> Call]
  BY DEF VoteInv, AnswerInv, OrderInv, TypeOK
<1>6. /\ \A t \in Steps \ {s} : trail'[t] = trail[t]
      /\ \/ trail'[s].status = "SKIPPED" /\ trail'[s].comment = "auto"
            /\ WithStatus({"ACTIVE"})' = WithStatus({"ACTIVE"}) \ {s}
            /\ call'[c].first = call[c].first
         \/ trail'[s].status = "ACTIVE" /\ trail'[s].comment = trail[s].comment
      /\ call'[c].pc = "activate"
  <2>1. CASE SkipStep(c, s)
    <3>1. /\ \A t \in Steps \ {s} : trail'[t] = trail[t]
          /\ trail'[s].status = "SKIPPED" /\ trail'[s].comment = "auto"
      BY <1>2, <1>5, <2>1 DEF SkipStep, Row
    <3>2. call'[c].first = call[c].first /\ call'[c].pc = "activate"
      BY <1>2, <1>5, <2>1 DEF SkipStep, Call
    <3>3. WithStatus({"ACTIVE"})' = WithStatus({"ACTIVE"}) \ {s}
      BY <1>2, <3>1 DEF WithStatus
    <3> QED BY <3>1, <3>2, <3>3
  <2>2. CASE ActivateStep(c, s)
    <3>1. call' = [call EXCEPT
            ![c].todo = IF call[c].mode = "SEQUENTIAL" THEN {} ELSE @ \ {s},
            ![c].first = IF @ = 0 THEN s ELSE @]
      BY <2>2 DEF ActivateStep
    <3>2. call'[c].pc = "activate"
      BY <1>2, <1>5, <3>1 DEF Call
    <3>3. /\ \A t \in Steps \ {s} : trail'[t] = trail[t]
          /\ trail'[s].status = "ACTIVE" /\ trail'[s].comment = trail[s].comment
      BY <1>2, <1>5, <2>2 DEF ActivateStep, Row
    <3> QED BY <3>2, <3>3
  <2> QED BY <1>1, <2>1, <2>2
<1>7. RowsKept
  BY <1>2, <1>6 DEF RowsKept, Rows
<1>8. \A t \in Rows' : Favourable(t)'
  BY <1>2, <1>4, <1>6, <1>7 DEF RowsKept, Rows, Favourable
<1>9. ~Cancelled'
  BY <1>2, <1>3, <1>6 DEF Cancelled
<1>10. call'[c].first # 0 => WithStatus({"ACTIVE"})' # {}
  <2>1. CASE trail'[s].status = "ACTIVE"
    BY <1>2, <2>1 DEF WithStatus
  <2>2. CASE trail'[s].status = "SKIPPED" /\ call'[c].first = call[c].first
    \* the row skipped was PENDING, so the one activated before is another
    <3>1. call[c].first # 0 => WithStatus({"ACTIVE"}) # {}
      BY <1>2 DEF VoteInv, VoteCall
    <3>2. s \notin WithStatus({"ACTIVE"})
      BY <1>1, <1>2 DEF VoteInv, AnswerInv, AnswerCall, WithStatus
    <3> QED BY <1>6, <2>2, <3>1, <3>2
  <2> QED BY <1>6, <2>1, <2>2
<1>11. VoteCall(c)'
  BY <1>6, <1>8, <1>9, <1>10 DEF VoteCall, Recorded
<1>12. FinalApprovalIsUnanimous'
  BY <1>3 DEF FinalApprovalIsUnanimous
<1> QED BY <1>9, <1>11, <1>12, VoteStepBy

\* The list used up: either a row is ACTIVE, or every row has voted for the request.
LEMMA VoteActivateReturn ==
  ASSUME VoteInv, AnswerInv', OneCaller, NEW c \in Callers, ActivateReturn(c)
  PROVE  VoteInv'
<1>1. call[c].pc = "activate" /\ call[c].todo = {} /\ trail' = trail
  BY DEF ActivateReturn
<1>2. TypeOK
  BY DEF VoteInv, AnswerInv, OrderInv
<1>3. CASE call[c].first = 0
  <2>1. WithStatus({"ACTIVE"}) = {} /\ WithStatus({"PENDING"}) = {} /\ ~Answered
    BY <1>1, <1>3 DEF VoteInv, AnswerInv, AnswerCall, OrderInv, CallInv, Recorded
  <2>2. ~Cancelled /\ \A s \in Rows : Favourable(s)
    BY <1>1, <2>1 DEF VoteInv, VoteCall, Recorded
  <2>3. finals'["APPROVED"] = 1 /\ call'[c].pc = "returned"
    BY <1>2, <1>3, <2>1, ReturnFirst DEF ActivateReturn, Outcomes
  <2>4. FinalApprovalIsUnanimous'
    BY <1>1, <2>1, <2>2 DEF FinalApprovalIsUnanimous, Favourable, Rows, WithStatus
  <2>5. ~Cancelled'
    BY <1>1, <2>2 DEF Cancelled
  <2>6. VoteCall(c)'
    BY <2>3 DEF VoteCall, Answered, Outcomes, Recorded
  <2> QED BY <2>4, <2>5, <2>6, VoteStepBy
<1>4. CASE call[c].first # 0
  <2>1. WithStatus({"ACTIVE"}) # {}
    BY <1>1, <1>4 DEF VoteInv, VoteCall
  <2>2. finals' = finals /\ call'[c].pc = "returned"
    BY <1>2, <1>4, ReturnOther DEF ActivateReturn, Results, Outcomes
  <2> QED BY <1>1, <2>1, <2>2, VoteNoWrite DEF Recorded
<1> QED BY <1>3, <1>4

\* decide() reads, and refuses or goes on.
LEMMA VoteDecideRead ==
  ASSUME VoteInv, AnswerInv', OneCaller, NEW c \in Callers, DecideRead(c)
  PROVE  VoteInv'
<1>1. TypeOK /\ call[c].pc = "decide" /\ trail' = trail
  BY DEF VoteInv, AnswerInv, OrderInv, DecideRead
<1>2. finals' = finals /\ call'[c].pc \in {"returned", "record"}
  <2>1. CASE Rows = {} \/ WithStatus({"ACTIVE"}) = {}
    BY <1>1, <2>1, ReturnOther DEF DecideRead, Results, Outcomes
  <2>2. CASE ~(Rows = {} \/ WithStatus({"ACTIVE"}) = {})
    BY <1>1, <2>2 DEF DecideRead, TypeOK, Call
  <2> QED BY <2>1, <2>2
<1> QED BY <1>1, <1>2, VoteNoWrite DEF Recorded

\* decide() writes the one vote of the chain against it on the way to closing it.
LEMMA VoteDecideRecord ==
  ASSUME VoteInv, AnswerInv', OneCaller, NEW c \in Callers, DecideRecord(c)
  PROVE  VoteInv'
<1> DEFINE me == call[c]
           mine == {s \in me.live : IsEligible(me.user, me.rows[s])}
<1>1. /\ TypeOK /\ me.pc = "record"
      /\ me.live = WithStatus({"ACTIVE"}) /\ WithStatus({"ACTIVE"}) # {}
  BY DEF DecideRecord, VoteInv, AnswerInv, AnswerCall, OrderInv
<1>2. CASE Return(c, "refused") /\ UNCHANGED trail
  <2>1. finals' = finals /\ call'[c].pc = "returned"
    BY <1>1, <1>2, ReturnOther DEF Results, Outcomes
  <2> QED BY <1>1, <1>2, <2>1, VoteNoWrite DEF Recorded
<1>3. ASSUME NEW s \in mine,
             trail' = [trail EXCEPT ![s].decidedBy = me.user, ![s].comment = "none",
               ![s].status = IF me.decision = "REJECT" THEN "REJECTED" ELSE "APPROVED"],
             call' = [call EXCEPT
               ![c] = [me EXCEPT !.step = s, !.live = @ \ {s}, !.rows = Blank,
                         !.pc = IF me.decision = "REJECT" THEN "close" ELSE "advance"]],
             UNCHANGED finals
      PROVE VoteInv'
  <2>1. me \in Call /\ s \in Steps /\ s \in WithStatus({"ACTIVE"})
    BY <1>1 DEF TypeOK, Call
  <2>2. ~Cancelled /\ ~Answered
    BY <2>1 DEF VoteInv, AnswerInv, WithStatus, Open
  <2>3. \A t \in Rows : Favourable(t)
    BY <1>1, <2>2 DEF VoteInv, VoteCall
  <2>4. /\ \A t \in Steps \ {s} : trail'[t] = trail[t]
        /\ trail'[s].comment = "none"
        /\ trail'[s].status = IF me.decision = "REJECT" THEN "REJECTED" ELSE "APPROVED"
    BY <1>1, <1>3, <2>1 DEF TypeOK, Row
  <2>5. call'[c].pc = IF me.decision = "REJECT" THEN "close" ELSE "advance"
    BY <1>1, <1>3, <2>1 DEF TypeOK, Call
  <2>6. ~Cancelled'
    BY <2>1, <2>2, <2>4 DEF Cancelled
  <2>7. call'[c].pc # "close" => \A t \in Rows' : Favourable(t)'
    BY <2>1, <2>3, <2>4, <2>5 DEF Rows, WithStatus, Favourable
  <2>8. VoteCall(c)'
    BY <2>5, <2>6, <2>7 DEF VoteCall, Recorded
  <2>9. FinalApprovalIsUnanimous'
    BY <1>1, <1>3, <2>2 DEF FinalApprovalIsUnanimous, Answered, Outcomes
  <2> QED BY <2>6, <2>8, <2>9, VoteStepBy
<1> QED BY <1>2, <1>3 DEF DecideRecord

\* The refusal is returned with the chain closed: it cannot be approved any more.
LEMMA VoteRejectClose ==
  ASSUME VoteInv, AnswerInv', OneCaller, NEW c \in Callers, RejectClose(c)
  PROVE  VoteInv'
<1>1. TypeOK /\ call[c].pc = "close" /\ CloseTrail("closed") /\ ~Answered
  BY DEF RejectClose, VoteInv, AnswerInv, AnswerCall, OrderInv, Recorded
<1>2. /\ finals' = [o \in Outcomes |-> IF o = "REJECTED" THEN 1 ELSE 0]
      /\ call'[c].pc = "returned"
  BY <1>1, ReturnFirst DEF RejectClose, Outcomes
<1>3. WithStatus(Open)' = {}
  BY <1>1, CloseShuts
<1>4. VoteCall(c)'
  BY <1>2 DEF VoteCall, Answered, Outcomes, Recorded
<1>5. FinalApprovalIsUnanimous'
  BY <1>2 DEF FinalApprovalIsUnanimous, Outcomes
<1> QED BY <1>3, <1>4, <1>5, VoteStepBy

\* An approved step waits only for siblings that are ACTIVE now.
LEMMA VoteAdvance ==
  ASSUME VoteInv, AnswerInv', OneCaller, NEW c \in Callers, Advance(c)
  PROVE  VoteInv'
<1>1. /\ TypeOK /\ call[c].pc = "advance" /\ trail' = trail
      /\ call[c].live = WithStatus({"ACTIVE"})
  BY DEF Advance, VoteInv, AnswerInv, AnswerCall, OrderInv
<1>2. CASE call[c].live # {}
  <2>1. finals' = finals /\ call'[c].pc = "returned"
    BY <1>1, <1>2, ReturnOther DEF Advance, Results, Outcomes
  <2> QED BY <1>1, <1>2, <2>1, VoteNoWrite DEF Recorded
<1>3. CASE call[c].live = {}
  <2>1. finals' = finals /\ call'[c].pc = "activateRead"
    BY <1>1, <1>3 DEF Advance, TypeOK, Call
  <2> QED BY <1>1, <2>1, VoteNoWrite DEF Recorded
<1> QED BY <1>2, <1>3

\* Withdrawing an answered chain changes no row; any other chain is withdrawn.
LEMMA VoteAbandon ==
  ASSUME VoteInv, AnswerInv', OneCaller, NEW c \in Callers, Abandon(c)
  PROVE  VoteInv'
<1>1. /\ TypeOK /\ call[c].pc = "abandon" /\ CloseTrail("cancelled")
      /\ WithStatus(Open)' = {}
  BY CloseShuts DEF Abandon, VoteInv, AnswerInv, OrderInv
<1>2. finals' = finals /\ call'[c].pc = "returned"
  BY <1>1, ReturnOther DEF Abandon, Results, Outcomes
<1>3. CASE WithStatus(Open) = {}
  <2>1. \A s \in Steps : trail'[s] = trail[s]
    BY <1>1, <1>3 DEF CloseTrail, WithStatus
  <2>2. trail' = trail
    BY <1>1, <2>1 DEF TypeOK, CloseTrail
  <2> QED BY <1>1, <1>2, <2>2, VoteNoWrite DEF Recorded
<1>4. CASE WithStatus(Open) # {}
  <2>1. PICK s \in Steps : trail[s].status \in Open
    BY <1>4 DEF WithStatus
  <2>2. trail'[s].comment = "cancelled"
    BY <1>1, <2>1 DEF CloseTrail, TypeOK, Row
  <2>3. Cancelled'
    BY <2>2 DEF Cancelled
  <2>4. finals["APPROVED"] = 0
    BY <1>1, <1>4 DEF VoteInv, AnswerInv, Answered, TypeOK, Outcomes
  <2>5. VoteCall(c)'
    BY <1>2, <2>3 DEF VoteCall, Recorded
  <2>6. FinalApprovalIsUnanimous'
    BY <1>2, <2>4 DEF FinalApprovalIsUnanimous
  <2> QED BY <1>1, <2>5, <2>6, VoteStepBy
<1> QED BY <1>3, <1>4

\* Starting or finishing a call changes nothing of the vote.
LEMMA VoteEnter ==
  ASSUME VoteInv, AnswerInv', OneCaller, NEW c \in Callers,
         CallInitiate(c) \/ CallDecide(c) \/ CallAbandon(c) \/ CallDone(c)
  PROVE  VoteInv'
<1>1. trail' = trail /\ finals' = finals /\ call \in [Callers -> Call]
  BY DEF CallInitiate, CallDecide, CallAbandon, CallDone, VoteInv, AnswerInv, OrderInv, TypeOK
<1>2. /\ call[c].pc \in {"idle", "returned"}
      /\ call'[c].pc \in {"initiate", "decide", "abandon", "idle"}
  <2>1. CASE CallInitiate(c) \/ CallAbandon(c)
    BY <1>1, <2>1 DEF CallInitiate, CallAbandon, Enter, Call
  <2>2. CASE CallDecide(c)
    <3>1. PICK u \in Users, d \in Decisions : EnterDecide(c, u, d)
      BY <2>2 DEF CallDecide
    <3> QED BY <1>1, <3>1 DEF EnterDecide, Call
  <2>3. CASE CallDone(c)
    BY <1>1, <2>3 DEF CallDone, Done, Idle
  <2> QED BY <2>1, <2>2, <2>3
<1> QED BY <1>1, <1>2, VoteNoWrite DEF Recorded

\* Every step of calls that do not overlap keeps VoteInv, when none is cut off.
LEMMA VoteStep ==
  ASSUME OneCaller, ~MayCrash, VoteInv, [Next]_engineVars
  PROVE  VoteInv'
<1>1. AnswerInv'
  BY AnswerStep DEF VoteInv
<1>2. ASSUME NEW c \in Callers, ActivateRead(c) PROVE VoteInv'
  <2>1. /\ call[c].pc = "activateRead" /\ call'[c].pc = "activate"
        /\ call'[c].first = 0 /\ trail' = trail /\ finals' = finals
    BY <1>2 DEF ActivateRead, VoteInv, AnswerInv, OrderInv, CallInv, TypeOK, Call
  <2> QED BY <1>1, <2>1, VoteNoWrite DEF Recorded
<1>3. ASSUME NEW c \in Callers, EngineStep(c) PROVE VoteInv'
  BY <1>1, <1>2, <1>3, VoteInitiateCreate, VoteActivateNext, VoteActivateReturn,
     VoteDecideRead, VoteDecideRecord, VoteRejectClose, VoteAdvance, VoteAbandon
     DEF EngineStep
<1>4. ASSUME NEW c \in Callers,
             CallInitiate(c) \/ CallDecide(c) \/ CallAbandon(c) \/ CallDone(c)
      PROVE VoteInv'
  BY <1>1, <1>4, VoteEnter
<1>5. CASE UNCHANGED <<trail, call, finals>>
  BY <1>1, <1>5 DEF VoteInv, VoteCall, Favourable, FinalApprovalIsUnanimous, Answered,
                    Cancelled, WithStatus, Rows
<1>6. ConfigureWorkflow \/ DirectoryChanges \/ UNCHANGED engineVars
        => UNCHANGED <<trail, call, finals>>
  BY DEF ConfigureWorkflow, DirectoryChanges, engineVars
<1>7. ~Crash
  BY DEF Crash
<1> QED BY <1>3, <1>4, <1>5, <1>6, <1>7 DEF Next

\* The invariant of the vote holds while calls neither overlap nor are cut off.
THEOREM VoteCorrect ==
  ASSUME OneCaller, ~MayCrash
  PROVE  Spec => []VoteInv
<1>1. VoteInv /\ [Next]_engineVars => VoteInv'
  BY VoteStep
<1> QED BY <1>1, VoteInit, PTL DEF Spec

\* What VoteInv says of a chain that nobody works on.
LEMMA VoteNeverStuck == VoteInv => ChainNeverStuck
<1> SUFFICES ASSUME VoteInv, Quiet, Rows # {}, ~Cancelled
             PROVE  WithStatus({"ACTIVE"}) # {} \/ Answered
  BY DEF ChainNeverStuck, Answered
<1>1. PICK c \in Callers : TRUE
  BY DEF VoteInv
<1> QED BY <1>1 DEF VoteInv, VoteCall, Quiet, Recorded

\* A request is returned as APPROVED only if each step accepted or had nobody to ask.
THEOREM ApprovalIsUnanimous ==
  ASSUME OneCaller, ~MayCrash
  PROVE  Spec => []FinalApprovalIsUnanimous
<1>1. VoteInv => FinalApprovalIsUnanimous
  BY DEF VoteInv
<1> QED BY <1>1, VoteCorrect, PTL

\* A chain at rest that is neither answered nor withdrawn waits for an approver.
THEOREM NeverStuck ==
  ASSUME OneCaller, ~MayCrash
  PROVE  Spec => []ChainNeverStuck
  BY VoteCorrect, VoteNeverStuck, PTL
=============================================================================
