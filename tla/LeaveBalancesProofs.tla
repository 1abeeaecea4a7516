-------------------------- MODULE LeaveBalancesProofs --------------------------
(***************************************************************************)
(* Proofs about LeaveBalances: a lost race of deductions never overdraws   *)
(* the balance on record, for any number of overlapping calls; the accrual *)
(* runs once a month; calls that do not overlap keep the two rows of the   *)
(* balance in step and account for every day.                              *)
(***************************************************************************)
EXTENDS LeaveBalances, TLAPS

\* An idle call is a call record.
LEMMA IdleIsProc ==
    /\ Idle \in Proc
    /\ Idle.pc = "idle" /\ Idle.op \in RaisingOperations /\ ~Idle.legacy.exists
<1>1. Missing \in Row /\ ~Missing.exists
  BY DEF Missing, Row
<1>2. Idle \in Proc
  BY <1>1 DEF Idle, Proc, PCs, AllOperations
<1> QED BY <1>1, <1>2 DEF Idle, RaisingOperations

\* The days carried over, given or kept, are a number of days.
LEMMA CarriedTypes ==
  ASSUME NEW given \in Nat \cup {NotGiven}
  PROVE  /\ \A row \in Row : Carried(row, given) \in Nat
         /\ Carried(Missing, given) \in Nat /\ Missing \in Row
  BY DEF Carried, Row, Missing

\* Either no row or two opened by an administrator, alike and unused.
LEMMA InitRows ==
  ASSUME Init
  PROVE  /\ legacy \in Row /\ typed = legacy /\ legacy.used = 0 /\ entitled \in Nat
         /\ legacy.exists => legacy.allocated = TypeDefault /\ entitled = TypeDefault
         /\ ~legacy.exists => legacy = Missing
<1>1. CASE legacy = Missing /\ entitled = 0
  BY <1>1, CarriedTypes DEF Init, Missing
<1>2. CASE /\ \E k \in CarryOvers : legacy = [NewRow(TypeDefault, 0) EXCEPT !.carriedOver = k]
           /\ entitled = TypeDefault
  <2>1. PICK k \in CarryOvers : legacy = [NewRow(TypeDefault, 0) EXCEPT !.carriedOver = k]
    BY <1>2
  <2>2. k \in Nat /\ TypeDefault \in Nat
    BY BalanceAssumption
  <2>3. /\ legacy \in Row /\ legacy.exists /\ legacy.used = 0
        /\ legacy.allocated = TypeDefault
    BY <2>1, <2>2 DEF NewRow, Row
  <2> QED BY <1>2, <2>2, <2>3 DEF Init
<1> QED BY <1>1, <1>2 DEF Init

\* Rows without days used and idle calls.
LEMMA OverdraftInit == Init => OverdraftInv
<1> SUFFICES ASSUME Init PROVE OverdraftInv
  OBVIOUS
<1>1. TypeOK
  BY InitRows, IdleIsProc DEF Init, TypeOK
<1>2. \A c \in Callers : CallInv(c)
  BY IdleIsProc DEF Init, CallInv
<1> QED BY <1>1, <1>2, InitRows DEF Init, OverdraftInv, NeverOverdrawn, Row

\* A call that ends owes nothing any more.
LEMMA LeaveInv ==
  ASSUME proc \in [Callers -> Proc], NEW c \in Callers, Leave(c)
  PROVE  /\ proc' \in [Callers -> Proc] /\ CallInv(c)'
         /\ \A d \in Callers \ {c} : proc'[d] = proc[d]
<1>1. proc' \in [Callers -> Proc] /\ proc'[c] = Idle
  BY IdleIsProc DEF Leave
<1>2. \A d \in Callers \ {c} : proc'[d] = proc[d]
  BY DEF Leave
<1>3. CallInv(c)'
  BY <1>1, IdleIsProc DEF CallInv
<1> QED BY <1>1, <1>2, <1>3

\* A call that goes on without writing keeps what it read.
LEMMA GotoEffect ==
  ASSUME proc \in [Callers -> Proc], NEW c \in Callers, NEW pc \in PCs, Goto(c, pc)
  PROVE  /\ proc' \in [Callers -> Proc]
         /\ proc'[c].pc = pc /\ proc'[c].op = proc[c].op /\ proc'[c].n = proc[c].n
         /\ proc'[c].carry = proc[c].carry
         /\ proc'[c].legacy = proc[c].legacy /\ proc'[c].typed = proc[c].typed
         /\ \A d \in Callers \ {c} : proc'[d] = proc[d]
<1>1. [proc[c] EXCEPT !.pc = pc] \in Proc
  BY DEF Proc
<1> QED BY <1>1 DEF Goto, Proc

\* What a call relies on survives the steps of the others: rows do not vanish,
\* allocations do not fall, AUTO rows are only added.
LEMMA OtherCalls ==
  ASSUME NEW d \in Callers, CallInv(d), proc'[d] = proc[d], proc[d] \in Proc,
         typed \in Row, typed' \in Row,
         typed.exists => /\ typed'.exists /\ typed'.allocated >= typed.allocated
                         /\ typed'.carriedOver = typed.carriedOver,
         legacy.exists => legacy'.exists,
         autoRuns \in Nat, autoRuns' \in Nat, autoRuns' >= autoRuns
  PROVE  CallInv(d)'
  BY DEF CallInv, Proc, Row

\* The facts about the rows, apart from the calls.
RowsInv ==
    /\ NeverOverdrawn
    /\ typed.exists => typed.allocated \in {TypeDefault, TypeDefault + 1}
    /\ typed.exists => legacy.exists
    /\ ~typed.exists => typed.used = 0 /\ legacy.used = 0
    /\ legacy.exists /\ autoRuns = 0 => legacy.allocated = TypeDefault

\* What one step of call c owes.
LEMMA CallStep ==
  ASSUME OverdraftInv, NEW c \in Callers,
         legacy' \in Row, typed' \in Row, autoRuns' \in 0..2,
         charged' \in Nat, entitled' \in Nat,
         proc' \in [Callers -> Proc], CallInv(c)',
         \A d \in Callers \ {c} : proc'[d] = proc[d],
         typed.exists => /\ typed'.exists /\ typed'.allocated >= typed.allocated
                         /\ typed'.carriedOver = typed.carriedOver,
         legacy.exists => legacy'.exists,
         autoRuns' >= autoRuns, RowsInv'
  PROVE  OverdraftInv'
<1>1. ASSUME NEW d \in Callers PROVE CallInv(d)'
  <2>1. CASE d = c
    BY <2>1
  <2>2. CASE d # c
    BY <2>2, OtherCalls DEF OverdraftInv, TypeOK
  <2> QED BY <2>1, <2>2
<1> QED BY <1>1 DEF OverdraftInv, RowsInv, TypeOK

\* Each step of a deduction, a reading or the monthly accrual keeps the
\* invariant.
LEMMA OverdraftStep ==
  ASSUME Operations \subseteq RaisingOperations, LegacyDefault = TypeDefault,
         OverdraftInv, [Next]_vars
  PROVE  OverdraftInv'
<1> USE BalanceAssumption
<1>0. /\ legacy \in Row /\ typed \in Row /\ autoRuns \in 0..2
      /\ charged \in Nat /\ entitled \in Nat /\ proc \in [Callers -> Proc]
      /\ typed.allocated >= typed.allocated /\ autoRuns >= autoRuns
  BY DEF OverdraftInv, TypeOK, Row
<1>00. RowsInv
  BY DEF OverdraftInv, RowsInv
<1>000. \A c \in Callers : proc[c].legacy.exists => legacy.exists
  BY DEF OverdraftInv, CallInv
<1>1. ASSUME NEW c \in Callers, Start(c) PROVE OverdraftInv'
  <2>0. PICK op \in Operations : \E n \in Amounts(op), k \in Carries(op) :
          proc' = [proc EXCEPT ![c] = [Idle EXCEPT !.op = op, !.n = n, !.carry = k,
                     !.pc = IF op = "updateType" THEN "readType" ELSE "readLegacy"]]
    BY <1>1 DEF Start
  <2>1. PICK n \in Amounts(op), k \in Carries(op) :
          proc' = [proc EXCEPT ![c] = [Idle EXCEPT !.op = op, !.n = n, !.carry = k,
                     !.pc = IF op = "updateType" THEN "readType" ELSE "readLegacy"]]
    BY <2>0
  <2>2. n \in Nat /\ k \in Nat \cup {NotGiven} /\ op \in RaisingOperations
    BY DEF Amounts, Carries, RaisingOperations
  <2>3. [Idle EXCEPT !.op = op, !.n = n, !.carry = k, !.pc = "readLegacy"] \in Proc
    BY <2>2, IdleIsProc DEF Proc, PCs, AllOperations, RaisingOperations
  <2>4. /\ proc' \in [Callers -> Proc]
        /\ proc'[c].pc = "readLegacy" /\ proc'[c].op = op
        /\ proc'[c].legacy = Idle.legacy
        /\ \A d \in Callers \ {c} : proc'[d] = proc[d]
    BY <1>0, <2>1, <2>2, <2>3 DEF Proc, RaisingOperations
  <2>5. CallInv(c)'
    BY <2>2, <2>4, IdleIsProc DEF CallInv
  <2>6. UNCHANGED <<legacy, typed, autoRuns, charged, entitled>>
    BY <1>1 DEF Start
  <2>7. RowsInv'
    BY <1>00, <2>6 DEF RowsInv, NeverOverdrawn
  <2> QED BY <1>0, <2>4, <2>5, <2>6, <2>7, CallStep
<1>2. ASSUME NEW c \in Callers, ReadLegacy(c) PROVE OverdraftInv'
  <2> DEFINE op == proc[c].op
             pc == IF legacy.exists \/ op = "accrueAll" THEN AfterLegacy(op) ELSE "init"
  <2>1. UNCHANGED <<legacy, typed, autoRuns, charged, entitled>>
    BY <1>2 DEF ReadLegacy
  <2>2. op \in RaisingOperations
    BY DEF OverdraftInv, CallInv
  <2>3. pc \in {"readType", "readHistory", "initTypes", "init"}
    BY <2>2 DEF AfterLegacy, RaisingOperations
  <2>4. [proc[c] EXCEPT !.legacy = legacy, !.pc = pc] \in Proc
    BY <1>0, <2>3 DEF Proc, PCs
  <2>5. /\ proc' \in [Callers -> Proc]
        /\ proc'[c].pc = pc /\ proc'[c].op = op /\ proc'[c].legacy = legacy
        /\ \A d \in Callers \ {c} : proc'[d] = proc[d]
    BY <1>0, <1>2, <2>4 DEF ReadLegacy, Proc
  <2>6. CallInv(c)'
    <3>1. /\ pc \in {"readType", "initTypes"} => legacy.exists
          /\ pc \in {"init", "initTypes"} => op # "accrueAll"
          /\ pc = "readType" => op = "deduct"
      BY <2>2 DEF AfterLegacy, RaisingOperations
    <3> QED BY <1>00, <2>1, <2>2, <2>3, <2>5, <3>1 DEF CallInv, RowsInv
  <2>7. RowsInv'
    BY <1>00, <2>1 DEF RowsInv, NeverOverdrawn
  <2> QED BY <1>0, <2>1, <2>5, <2>6, <2>7, CallStep
<1>3. ASSUME NEW c \in Callers, InitLegacy(c) PROVE OverdraftInv'
  <2>1. CASE legacy.exists
    <3>1. UNCHANGED <<legacy, typed, autoRuns, charged, entitled>> /\ Leave(c)
      BY <1>3, <2>1 DEF InitLegacy
    <3>2. RowsInv'
      BY <1>00, <3>1 DEF RowsInv, NeverOverdrawn
    <3> QED BY <1>0, <3>1, <3>2, LeaveInv, CallStep
  <2>2. CASE ~legacy.exists
    <3>1. /\ legacy' = NewRow(LegacyDefault, 0) /\ entitled' = LegacyDefault
          /\ proc' = [proc EXCEPT ![c].legacy = legacy',
               ![c].pc = IF proc[c].op = "reset" THEN "resetType" ELSE "initTypes"]
          /\ UNCHANGED <<typed, autoRuns, charged>>
      BY <1>3, <2>2 DEF InitLegacy
    <3>2. legacy' \in Row /\ legacy'.exists /\ legacy'.used = 0 /\ legacy'.allocated = TypeDefault
      BY <3>1 DEF NewRow, Row
    <3>3. proc[c].op \in RaisingOperations
      BY DEF OverdraftInv, CallInv
    <3>4. [proc[c] EXCEPT !.legacy = legacy', !.pc = "initTypes"] \in Proc
      BY <1>0, <3>2 DEF Proc, PCs
    <3>5. /\ proc' \in [Callers -> Proc]
          /\ proc'[c].pc = "initTypes" /\ proc'[c].op = proc[c].op /\ proc[c].op # "accrueAll"
          /\ \A d \in Callers \ {c} : proc'[d] = proc[d]
      BY <1>0, <1>3, <3>1, <3>3, <3>4 DEF Proc, RaisingOperations, OverdraftInv, CallInv, InitLegacy
    <3>6. CallInv(c)'
      BY <3>2, <3>3, <3>5 DEF CallInv
    <3>7. RowsInv'
      BY <1>00, <3>1, <3>2 DEF RowsInv, NeverOverdrawn
    <3> QED BY <1>0, <3>1, <3>2, <3>5, <3>6, <3>7, CallStep
  <2> QED BY <2>1, <2>2
<1>4. ASSUME NEW c \in Callers, InitTypes(c) PROVE OverdraftInv'
  <2>1. /\ typed' = IF typed.exists THEN typed ELSE NewRow(TypeDefault, 0)
        /\ UNCHANGED <<legacy, autoRuns, charged, entitled>>
    BY <1>4 DEF InitTypes
  <2>2. typed' \in Row /\ (typed.exists => typed' = typed)
    BY <1>0, <2>1 DEF NewRow, Row
  <2>3. legacy.exists
    BY <1>4 DEF InitTypes, OverdraftInv, CallInv
  <2>4. RowsInv'
    BY <1>00, <2>1, <2>3 DEF RowsInv, NeverOverdrawn, NewRow
  <2>5. CASE Leave(c)
    BY <1>0, <2>1, <2>2, <2>4, <2>5, LeaveInv, CallStep
  <2>6. CASE proc[c].op # "get" /\ Goto(c, AfterLegacy(proc[c].op))
    <3>1. proc[c].op = "deduct"
      BY <1>4, <2>6 DEF OverdraftInv, CallInv, InitTypes, RaisingOperations
    <3>2. AfterLegacy(proc[c].op) = "readType"
      BY <3>1 DEF AfterLegacy
    <3>3. CallInv(c)'
      BY <1>0, <1>000, <2>1, <2>3, <2>6, <3>1, <3>2, GotoEffect DEF CallInv, PCs, RaisingOperations
    <3> QED BY <1>0, <2>1, <2>2, <2>4, <2>6, <3>2, <3>3, GotoEffect, CallStep DEF PCs
  <2> QED BY <1>4, <2>5, <2>6 DEF InitTypes
<1>5. ASSUME NEW c \in Callers, ReadType(c) PROVE OverdraftInv'
  <2>1. UNCHANGED <<legacy, typed, autoRuns, charged, entitled>>
    BY <1>5 DEF ReadType
  <2>2. RowsInv'
    BY <1>00, <2>1 DEF RowsInv, NeverOverdrawn
  <2>3. proc[c].op \in RaisingOperations
    BY DEF OverdraftInv, CallInv
  <2>4. CASE Goto(c, "createType")
    <3>0. legacy.exists /\ proc[c].op = "deduct"
      BY <1>5 DEF ReadType, OverdraftInv, CallInv
    <3>1. CallInv(c)'
      BY <1>0, <1>000, <2>1, <2>3, <2>4, <3>0, GotoEffect DEF CallInv, PCs
    <3> QED BY <1>0, <2>1, <2>2, <2>4, <3>1, GotoEffect, CallStep DEF PCs
  <2>5. CASE Leave(c)
    BY <1>0, <2>1, <2>2, <2>5, LeaveInv, CallStep
  <2>6. CASE /\ typed.exists /\ Fits(typed, proc[c].n)
             /\ proc' = [proc EXCEPT ![c].typed = typed, ![c].pc = "writeUsed"]
    <3>1. [proc[c] EXCEPT !.typed = typed, !.pc = "writeUsed"] \in Proc
      BY <1>0 DEF Proc, PCs
    <3>2. /\ proc' \in [Callers -> Proc]
          /\ proc'[c].pc = "writeUsed" /\ proc'[c].op = proc[c].op
          /\ proc'[c].n = proc[c].n /\ proc'[c].typed = typed
              /\ proc'[c].legacy = proc[c].legacy
          /\ \A d \in Callers \ {c} : proc'[d] = proc[d]
      BY <1>0, <2>6, <3>1 DEF Proc
    <3>3. CallInv(c)'
      BY <1>000, <2>1, <2>3, <2>6, <3>2 DEF CallInv, Fits
    <3> QED BY <1>0, <2>1, <2>2, <3>2, <3>3, CallStep
  <2> QED BY <1>5, <2>3, <2>4, <2>5, <2>6 DEF ReadType, RaisingOperations
<1>6. ASSUME NEW c \in Callers, CreateType(c) PROVE OverdraftInv'
  <2>1. proc[c].op \in RaisingOperations /\ UNCHANGED <<legacy, autoRuns, charged, entitled>>
    BY <1>6 DEF OverdraftInv, CallInv, CreateType
  <2>2. CASE typed.exists
    <3>1. Leave(c) /\ UNCHANGED typed
      BY <1>6, <2>2 DEF CreateType
    <3>2. RowsInv'
      BY <1>00, <2>1, <3>1 DEF RowsInv, NeverOverdrawn
    <3> QED BY <1>0, <2>1, <3>1, <3>2, LeaveInv, CallStep
  <2>3. CASE ~typed.exists
    <3>1. proc[c].op = "deduct" /\ legacy.exists
      BY <1>6 DEF OverdraftInv, CallInv, CreateType
    <3> DEFINE new == [NewRow(TypeDefault, 0) EXCEPT !.carriedOver = Carried(Missing, proc[c].carry)]
    <3>2. /\ typed' = new
          /\ \/ Leave(c)
             \/ /\ Fits(new, proc[c].n)
                /\ proc' = [proc EXCEPT ![c].typed = new, ![c].pc = "writeUsed"]
      BY <1>6, <2>3, <3>1 DEF CreateType
    <3>3. /\ new \in Row /\ new.exists /\ new.used = 0 /\ new.allocated = TypeDefault
          /\ new.carriedOver \in Nat
      BY <1>0, CarriedTypes DEF NewRow, Row, Proc
    <3> HIDE DEF new
    <3>4. RowsInv'
      BY <1>00, <2>1, <3>1, <3>2, <3>3 DEF RowsInv, NeverOverdrawn
    <3>5. CASE Leave(c)
      BY <1>0, <2>1, <2>3, <3>2, <3>3, <3>4, <3>5, LeaveInv, CallStep
    <3>6. CASE /\ Fits(new, proc[c].n)
               /\ proc' = [proc EXCEPT ![c].typed = new, ![c].pc = "writeUsed"]
      <4>1. [proc[c] EXCEPT !.typed = new, !.pc = "writeUsed"] \in Proc
        BY <1>0, <3>3 DEF Proc, PCs
      <4>2. /\ proc' \in [Callers -> Proc]
            /\ proc'[c].pc = "writeUsed" /\ proc'[c].op = proc[c].op
            /\ proc'[c].n = proc[c].n /\ proc'[c].typed = new
            /\ \A d \in Callers \ {c} : proc'[d] = proc[d]
        BY <1>0, <3>6, <4>1 DEF Proc
      <4>3. CallInv(c)'
        BY <2>1, <3>1, <3>2, <3>3, <3>6, <4>2 DEF CallInv, Fits
      <4> QED BY <1>0, <2>1, <2>3, <3>2, <3>3, <3>4, <4>2, <4>3, CallStep
    <3> QED BY <3>2, <3>5, <3>6
  <2> QED BY <2>2, <2>3
<1>7. ASSUME NEW c \in Callers, WriteUsed(c) PROVE OverdraftInv'
  <2>1. /\ typed' = [typed EXCEPT !.used = proc[c].typed.used + proc[c].n]
        /\ Goto(c, "writeLegacyUsed")
        /\ UNCHANGED <<legacy, autoRuns, charged, entitled>>
    BY <1>7 DEF WriteUsed
  <2>2. /\ typed.exists /\ proc[c].typed.used + proc[c].n <= typed.allocated + typed.carriedOver
        /\ proc[c].op \in RaisingOperations
    BY <1>7 DEF WriteUsed, OverdraftInv, CallInv
  <2>3. /\ typed' \in Row /\ typed'.exists = typed.exists
        /\ typed'.allocated = typed.allocated /\ typed'.carriedOver = typed.carriedOver
        /\ typed'.used = proc[c].typed.used + proc[c].n
    BY <1>0, <2>1 DEF Row, Proc
  <2>4. RowsInv'
    BY <1>00, <2>1, <2>2, <2>3 DEF RowsInv, NeverOverdrawn
  <2>5. CallInv(c)'
    BY <1>0, <1>000, <2>1, <2>2, <2>3, GotoEffect DEF CallInv, PCs
  <2> QED BY <1>0, <2>1, <2>3, <2>4, <2>5, GotoEffect, CallStep DEF PCs
<1>8. ASSUME NEW c \in Callers, WriteLegacyUsed(c) PROVE OverdraftInv'
  <2>1. /\ legacy' = [legacy EXCEPT !.used = proc[c].legacy.used + proc[c].n]
        /\ charged' = charged + proc[c].n /\ Leave(c)
        /\ UNCHANGED <<typed, autoRuns, entitled>>
    BY <1>8 DEF WriteLegacyUsed
  <2>2. typed.exists
    BY <1>8 DEF WriteLegacyUsed, OverdraftInv, CallInv
  <2>3. /\ legacy' \in Row /\ legacy'.exists = legacy.exists
        /\ legacy'.allocated = legacy.allocated /\ charged' \in Nat
    BY <1>0, <2>1 DEF Row, Proc
  <2>4. RowsInv'
    BY <1>00, <2>1, <2>2, <2>3 DEF RowsInv, NeverOverdrawn
  <2> QED BY <1>0, <2>1, <2>3, <2>4, LeaveInv, CallStep
<1>9. ASSUME NEW c \in Callers, ReadHistory(c) PROVE OverdraftInv'
  <2>1. UNCHANGED <<legacy, typed, autoRuns, charged, entitled>>
    BY <1>9 DEF ReadHistory
  <2>2. RowsInv'
    BY <1>00, <2>1 DEF RowsInv, NeverOverdrawn
  <2>3. CASE Leave(c)
    BY <1>0, <2>1, <2>2, <2>3, LeaveInv, CallStep
  <2>4. CASE autoRuns = 0 /\ Goto(c, "accrueTx")
    <3>1. /\ proc[c].op \in RaisingOperations
          /\ proc[c].legacy.exists => proc[c].legacy.allocated = TypeDefault
      BY <1>9, <2>4 DEF ReadHistory, OverdraftInv, CallInv
    <3>2. CallInv(c)'
      BY <1>0, <1>000, <2>1, <2>4, <3>1, GotoEffect DEF CallInv, PCs
    <3> QED BY <1>0, <2>1, <2>2, <2>4, <3>2, GotoEffect, CallStep DEF PCs
  <2> QED BY <1>0, <1>9, <2>3, <2>4 DEF ReadHistory
<1>10. ASSUME NEW c \in Callers, AccrueTx(c) PROVE OverdraftInv'
  <2> DEFINE before == proc[c].legacy
  <2>1. before \in Row /\ (before.exists => before.allocated = TypeDefault)
    BY <1>0, <1>10 DEF AccrueTx, OverdraftInv, CallInv, Proc
  <2>2. /\ Leave(c) /\ charged' = charged
        /\ autoRuns' = IF autoRuns < 2 THEN autoRuns + 1 ELSE autoRuns
    BY <1>10 DEF AccrueTx
  <2>3. autoRuns' \in 0..2 /\ autoRuns' >= autoRuns /\ autoRuns' # 0
    BY <1>0, <2>2
  <2>4. CASE before.exists
    <3>1. /\ legacy' = [legacy EXCEPT !.allocated = TypeDefault + 1]
          /\ typed' = Upserted(typed, TypeDefault + 1, legacy.used)
          /\ entitled' = entitled + 1
      BY <1>10, <2>1, <2>4 DEF AccrueTx
    <3>2. /\ legacy' \in Row /\ legacy'.exists = legacy.exists /\ legacy'.used = legacy.used
          /\ typed' \in Row /\ typed'.exists /\ typed'.allocated = TypeDefault + 1
          /\ typed'.used = IF typed.exists THEN typed.used ELSE legacy.used
          /\ typed.exists => typed'.carriedOver = typed.carriedOver
          /\ entitled' \in Nat
      BY <1>0, <3>1 DEF Row, Upserted, NewRow
    <3>3. legacy.exists
      BY <1>10, <2>4 DEF AccrueTx, OverdraftInv, CallInv
    <3>4. typed.exists => /\ typed.allocated <= TypeDefault + 1
                          /\ typed.used <= TypeDefault + 1 + typed.carriedOver
      BY <1>0, <1>00 DEF RowsInv, NeverOverdrawn, Row
    <3>5. NeverOverdrawn'
      <4>1. CASE typed.exists
        BY <3>2, <3>4, <4>1 DEF NeverOverdrawn
      <4>2. CASE ~typed.exists
        <5>1. typed'.used = 0 /\ typed'.allocated \in Nat /\ typed'.carriedOver \in Nat
          BY <1>00, <3>2, <4>2 DEF RowsInv, Row
        <5> QED BY <5>1 DEF NeverOverdrawn
      <4> QED BY <4>1, <4>2
    <3>6. RowsInv'
      BY <1>00, <2>3, <3>2, <3>3, <3>5 DEF RowsInv
    <3> QED BY <1>0, <2>2, <2>3, <3>2, <3>4, <3>6, LeaveInv, CallStep
  <2>5. CASE ~before.exists
    <3>1. /\ legacy' = IF legacy.exists THEN legacy ELSE NewRow(LegacyDefault + 1, 0)
          /\ typed' = IF typed.exists THEN typed ELSE NewRow(LegacyDefault + 1, 0)
          /\ entitled' = IF legacy.exists THEN entitled + 1 ELSE LegacyDefault + 1
      BY <1>10, <2>5 DEF AccrueTx
    <3>2. legacy' \in Row /\ typed' \in Row /\ entitled' \in Nat
      BY <1>0, <3>1 DEF Row, NewRow
    <3>3. RowsInv'
      BY <1>0, <1>00, <2>3, <3>1 DEF RowsInv, NeverOverdrawn, NewRow, Row
    <3> QED BY <1>0, <2>2, <2>3, <3>1, <3>2, <3>3, LeaveInv, CallStep
  <2> QED BY <2>4, <2>5
<1>11. ASSUME NEW c \in Callers,
              \/ WriteAnnual(c) \/ UpsertAllocated(c) \/ WriteAllocated(c)
              \/ UpsertLegacy(c) \/ ResetType(c) \/ ResetAnnual(c)
       PROVE OverdraftInv'
  BY <1>11 DEF WriteAnnual, UpsertAllocated, WriteAllocated, UpsertLegacy, ResetType,
               ResetAnnual, OverdraftInv, CallInv
<1>12. CASE Crash
  <2>1. /\ proc' = [c \in Callers |-> Idle]
        /\ UNCHANGED <<legacy, typed, autoRuns, charged, entitled>>
    BY <1>12 DEF Crash
  <2>2. \A c \in Callers : CallInv(c)'
    BY <2>1, IdleIsProc DEF CallInv
  <2>3. TypeOK'
    BY <2>1, IdleIsProc DEF OverdraftInv, TypeOK
  <2> QED BY <1>00, <2>1, <2>2, <2>3 DEF OverdraftInv, RowsInv, NeverOverdrawn
<1>13. CASE UNCHANGED vars
  BY <1>13 DEF vars, OverdraftInv, TypeOK, NeverOverdrawn, CallInv
<1> QED
  BY <1>1, <1>2, <1>3, <1>4, <1>5, <1>6, <1>7, <1>8, <1>9, <1>10, <1>11, <1>12, <1>13
     DEF Next, Step

\* Deductions, readings and the monthly accrual, overlapping in any number and
\* crashing anywhere, never leave more days used than allocated on record, when
\* the library's default agrees with the built-in one.
THEOREM NoOverdraft ==
  ASSUME Operations \subseteq RaisingOperations, LegacyDefault = TypeDefault
  PROVE  Spec => []NeverOverdrawn
<1>1. OverdraftInv /\ [Next]_vars => OverdraftInv'
  BY OverdraftStep
<1>2. OverdraftInv => NeverOverdrawn
  BY DEF OverdraftInv
<1> QED BY <1>1, <1>2, OverdraftInit, PTL DEF Spec

-----------------------------------------------------------------------------
(* Types *)

\* Rows written by the service are rows.
LEMMA RowTypes ==
  ASSUME NEW row \in Row, NEW n \in Nat, NEW u \in Nat
  PROVE  /\ NewRow(n, u) \in Row /\ Upserted(row, n, u) \in Row
         /\ NewRow(n, u).exists /\ NewRow(n, u).allocated = n /\ NewRow(n, u).used = u
         /\ Upserted(row, n, u).exists /\ Upserted(row, n, u).allocated = n
         /\ Upserted(row, n, u).used = IF row.exists THEN row.used ELSE u
  BY DEF NewRow, Upserted, Row

\* A call that ends is idle.
LEMMA LeaveEffect ==
  ASSUME proc \in [Callers -> Proc], NEW c \in Callers, Leave(c)
  PROVE  proc' \in [Callers -> Proc] /\ proc'[c] = Idle
  BY IdleIsProc DEF Leave

\* Rows of days, idle calls.
LEMMA TypeInit == Init => TypeOK
  BY InitRows, IdleIsProc DEF Init, TypeOK

\* Every step keeps the rows, the counters and the calls well typed.
LEMMA TypeStep ==
  ASSUME TypeOK, [Next]_vars
  PROVE  TypeOK'
<1> USE BalanceAssumption
<1>0. /\ legacy \in Row /\ typed \in Row /\ autoRuns \in 0..2
      /\ charged \in Nat /\ entitled \in Nat /\ proc \in [Callers -> Proc]
  BY DEF TypeOK
<1>1. ASSUME NEW c \in Callers, Step(c) PROVE TypeOK'
  <2>0. /\ proc[c].legacy \in Row /\ proc[c].typed \in Row /\ proc[c].n \in Nat
        /\ proc[c].carry \in Nat \cup {NotGiven}
    BY <1>0 DEF Proc
  <2>1. CASE Start(c)
    <3>1. PICK op \in Operations : \E n \in Amounts(op), k \in Carries(op) :
            proc' = [proc EXCEPT ![c] = [Idle EXCEPT !.op = op, !.n = n, !.carry = k,
                       !.pc = IF op = "updateType" THEN "readType" ELSE "readLegacy"]]
      BY <2>1 DEF Start
    <3>2. PICK n \in Amounts(op), k \in Carries(op) :
            proc' = [proc EXCEPT ![c] = [Idle EXCEPT !.op = op, !.n = n, !.carry = k,
                       !.pc = IF op = "updateType" THEN "readType" ELSE "readLegacy"]]
      BY <3>1
    <3>3. n \in Nat /\ k \in Nat \cup {NotGiven} /\ op \in AllOperations
      BY DEF Amounts, Carries
    <3>4. [Idle EXCEPT !.op = op, !.n = n, !.carry = k,
             !.pc = IF op = "updateType" THEN "readType" ELSE "readLegacy"] \in Proc
      BY <3>3, IdleIsProc DEF Proc, PCs
    <3> QED BY <1>0, <2>1, <3>2, <3>4 DEF Start, TypeOK
  <2>2. CASE ReadLegacy(c)
    <3>1. AfterLegacy(proc[c].op) \in PCs
      BY DEF AfterLegacy, PCs
    <3>2. [proc[c] EXCEPT !.legacy = legacy,
             !.pc = IF legacy.exists \/ proc[c].op = "accrueAll"
                    THEN AfterLegacy(proc[c].op) ELSE "init"] \in Proc
      BY <1>0, <3>1 DEF Proc, PCs
    <3> QED BY <1>0, <2>2, <3>2 DEF ReadLegacy, TypeOK
  <2>3. CASE InitLegacy(c)
    <3>1. NewRow(LegacyDefault, 0) \in Row
      BY <1>0, RowTypes
    <3>2. [proc[c] EXCEPT !.legacy = NewRow(LegacyDefault, 0),
             !.pc = IF proc[c].op = "reset" THEN "resetType" ELSE "initTypes"] \in Proc
      BY <1>0, <3>1 DEF Proc, PCs
    <3>3. CASE legacy.exists
      BY <1>0, <2>3, <3>3, LeaveEffect DEF InitLegacy, TypeOK
    <3>4. CASE ~legacy.exists
      BY <1>0, <2>3, <3>1, <3>2, <3>4 DEF InitLegacy, TypeOK
    <3> QED BY <3>3, <3>4
  <2>4. CASE InitTypes(c)
    <3>1. AfterLegacy(proc[c].op) \in PCs
      BY DEF AfterLegacy, PCs
    <3>2. typed' \in Row
      BY <1>0, <2>4, RowTypes DEF InitTypes
    <3> QED BY <1>0, <2>4, <3>1, <3>2, LeaveEffect, GotoEffect DEF InitTypes, TypeOK
  <2>5. CASE ReadType(c)
    <3>1. [proc[c] EXCEPT !.typed = typed, !.pc = "writeUsed"] \in Proc
      BY <1>0 DEF Proc, PCs
    <3>2. proc' \in [Callers -> Proc]
      BY <1>0, <2>5, <3>1, LeaveEffect, GotoEffect DEF ReadType, PCs
    <3> QED BY <1>0, <2>5, <3>2 DEF ReadType, TypeOK
  <2>6. CASE CreateType(c)
    <3> DEFINE n == IF proc[c].op = "deduct" THEN TypeDefault ELSE proc[c].n
               new == [NewRow(n, 0) EXCEPT !.carriedOver = Carried(Missing, proc[c].carry)]
    <3>1. new \in Row
      BY <1>0, <2>0, CarriedTypes DEF NewRow, Row
    <3> HIDE DEF new
    <3>2. [proc[c] EXCEPT !.typed = new, !.pc = "writeUsed"] \in Proc
      BY <1>0, <3>1 DEF Proc, PCs
    <3>3. proc' \in [Callers -> Proc] /\ typed' \in Row
      BY <1>0, <2>6, <3>1, <3>2, LeaveEffect, GotoEffect DEF CreateType, PCs, new
    <3> QED BY <1>0, <2>6, <3>3 DEF CreateType, TypeOK
  <2>7. CASE WriteUsed(c)
    <3>1. typed' \in Row
      BY <1>0, <2>0, <2>7 DEF WriteUsed, Row
    <3> QED BY <1>0, <2>7, <3>1, GotoEffect DEF WriteUsed, TypeOK, PCs
  <2>8. CASE WriteLegacyUsed(c)
    <3>1. legacy' \in Row /\ charged' \in Nat
      BY <1>0, <2>0, <2>8 DEF WriteLegacyUsed, Row
    <3> QED BY <1>0, <2>8, <3>1, LeaveEffect DEF WriteLegacyUsed, TypeOK
  <2>9. CASE WriteAnnual(c)
    <3>1. Target(proc[c]) \in Nat
      BY <1>0, <2>0 DEF Target, Row
    <3>2. legacy' \in Row /\ entitled' \in Nat
      BY <1>0, <2>0, <2>9, <3>1 DEF WriteAnnual, Row
    <3> QED BY <1>0, <2>9, <3>2, GotoEffect DEF WriteAnnual, TypeOK, PCs
  <2>10. CASE UpsertAllocated(c)
    <3>1. Target(proc[c]) \in Nat /\ proc[c].legacy.used \in Nat
      BY <1>0, <2>0 DEF Target, Row
    <3>2. typed' \in Row
      BY <1>0, <2>10, <3>1, RowTypes DEF UpsertAllocated
    <3> QED BY <1>0, <2>10, <3>2, LeaveEffect DEF UpsertAllocated, TypeOK
  <2>11. CASE WriteAllocated(c)
    <3>1. typed' \in Row
      BY <1>0, <2>0, <2>11, CarriedTypes DEF WriteAllocated, Row
    <3> QED BY <1>0, <2>11, <3>1, GotoEffect DEF WriteAllocated, TypeOK, PCs
  <2>12. CASE UpsertLegacy(c)
    <3>1. legacy' \in Row
      BY <1>0, <2>0, <2>12, CarriedTypes DEF UpsertLegacy, Upserted, NewRow, Row
    <3> QED BY <1>0, <2>0, <2>12, <3>1, LeaveEffect DEF UpsertLegacy, TypeOK
  <2>13. CASE ReadHistory(c)
    BY <1>0, <2>13, LeaveEffect, GotoEffect DEF ReadHistory, TypeOK, PCs
  <2>14. CASE AccrueTx(c)
    <3>1. legacy' \in Row /\ typed' \in Row
      <4>1. /\ proc[c].legacy.allocated + 1 \in Nat /\ legacy.used \in Nat
            /\ LegacyDefault + 1 \in Nat
        BY <1>0, <2>0 DEF Row
      <4>2. [legacy EXCEPT !.allocated = proc[c].legacy.allocated + 1] \in Row
        BY <1>0, <4>1 DEF Row
      <4>3. /\ Upserted(typed, proc[c].legacy.allocated + 1, legacy.used) \in Row
            /\ NewRow(LegacyDefault + 1, 0) \in Row
        BY <1>0, <4>1 DEF Upserted, NewRow, Row
      <4>4. legacy' \in {legacy, [legacy EXCEPT !.allocated = proc[c].legacy.allocated + 1],
                         NewRow(LegacyDefault + 1, 0)}
        BY <2>14 DEF AccrueTx
      <4>5. typed' \in {typed, Upserted(typed, proc[c].legacy.allocated + 1, legacy.used),
                        NewRow(LegacyDefault + 1, 0)}
        BY <2>14 DEF AccrueTx
      <4> QED BY ONLY <1>0, <4>2, <4>3, <4>4, <4>5
    <3>2. entitled' \in Nat /\ autoRuns' \in 0..2
      BY <1>0, <2>14 DEF AccrueTx
    <3> QED BY <1>0, <2>14, <3>1, <3>2, LeaveEffect DEF AccrueTx, TypeOK
  <2>15. CASE ResetType(c)
    <3>1. typed' \in Row
      BY <1>0, <2>15, RowTypes DEF ResetType
    <3> QED BY <1>0, <2>15, <3>1, GotoEffect DEF ResetType, TypeOK, PCs
  <2>16. CASE ResetAnnual(c)
    <3>1. legacy' \in Row
      BY <1>0, <2>16 DEF ResetAnnual, Row
    <3> QED BY <1>0, <2>16, <3>1, LeaveEffect DEF ResetAnnual, TypeOK
  <2> QED
    BY <1>1, <2>1, <2>2, <2>3, <2>4, <2>5, <2>6, <2>7, <2>8, <2>9, <2>10, <2>11, <2>12,
       <2>13, <2>14, <2>15, <2>16 DEF Step
<1>2. CASE Crash
  BY <1>0, <1>2, IdleIsProc DEF Crash, TypeOK
<1>3. CASE UNCHANGED vars
  BY <1>3 DEF vars, TypeOK
<1> QED BY <1>1, <1>2, <1>3 DEF Next

-----------------------------------------------------------------------------
(* Calls that do not overlap *)

OneCaller == \A c, d \in Callers : c = d

\* The transaction of the accrual follows a history read without a run.
AccrualInv ==
    /\ TypeOK
    /\ AccruedOncePerMonth
    /\ \A c \in Callers : proc[c].pc = "accrueTx" => autoRuns = 0

\* Only ReadHistory leads to the transaction, and only the transaction adds a run.
LEMMA AccrualStep ==
  ASSUME OneCaller, AccrualInv, [Next]_vars
  PROVE  AccrualInv'
<1>1. TypeOK'
  BY TypeStep DEF AccrualInv
<1>2. ASSUME NEW c \in Callers, Step(c)
      PROVE  AccruedOncePerMonth' /\ (proc'[c].pc = "accrueTx" => autoRuns' = 0)
  <2>0. proc \in [Callers -> Proc] /\ autoRuns \in 0..1
    BY DEF AccrualInv, AccruedOncePerMonth, TypeOK
  <2>1. CASE Start(c) \/ ReadLegacy(c) \/ InitLegacy(c) \/ InitTypes(c)
    <3>1. autoRuns' = autoRuns
      BY <2>1 DEF Start, ReadLegacy, InitLegacy, InitTypes
    <3> SUFFICES proc'[c].pc # "accrueTx"
      BY <3>1 DEF AccrualInv, AccruedOncePerMonth
    <3>2. AfterLegacy(proc[c].op) # "accrueTx"
      BY DEF AfterLegacy
    <3>3. CASE Start(c)
      BY <2>0, <3>3 DEF Start, Idle
    <3>4. CASE ReadLegacy(c)
      BY <2>0, <3>2, <3>4 DEF ReadLegacy, Proc
    <3>5. CASE InitLegacy(c)
      BY <2>0, <3>5, LeaveEffect DEF InitLegacy, Idle, Proc
    <3>6. CASE InitTypes(c)
      BY <2>0, <3>2, <3>6, LeaveEffect DEF InitTypes, Goto, Idle, Proc
    <3> QED BY <2>1, <3>3, <3>4, <3>5, <3>6
  <2>2. CASE \/ ReadType(c) \/ CreateType(c) \/ WriteUsed(c) \/ WriteLegacyUsed(c)
             \/ WriteAnnual(c) \/ UpsertAllocated(c) \/ WriteAllocated(c) \/ UpsertLegacy(c)
             \/ ResetType(c) \/ ResetAnnual(c)
    <3>1. autoRuns' = autoRuns
      BY <2>2 DEF ReadType, CreateType, WriteUsed, WriteLegacyUsed, WriteAnnual,
                  UpsertAllocated, WriteAllocated, UpsertLegacy, ResetType, ResetAnnual
    <3>2. proc'[c].pc # "accrueTx"
      BY <2>0, <2>2, LeaveEffect
         DEF ReadType, CreateType, WriteUsed, WriteLegacyUsed, WriteAnnual, UpsertAllocated,
             WriteAllocated, UpsertLegacy, ResetType, ResetAnnual, Goto, Idle, Proc
    <3> QED BY <3>1, <3>2 DEF AccrualInv, AccruedOncePerMonth
  <2>3. CASE ReadHistory(c)
    BY <2>0, <2>3, LeaveEffect DEF ReadHistory, AccruedOncePerMonth, Idle
  <2>4. CASE AccrueTx(c)
    <3>1. proc'[c].pc = "idle" /\ autoRuns = 0
      BY <2>0, <2>4, LeaveEffect DEF AccrueTx, Idle, AccrualInv
    <3> QED BY <2>4, <3>1 DEF AccrueTx, AccruedOncePerMonth
  <2> QED BY <1>2, <2>1, <2>2, <2>3, <2>4 DEF Step
<1>3. CASE Crash
  BY <1>1, <1>3 DEF Crash, AccrualInv, AccruedOncePerMonth, Idle
<1>4. CASE UNCHANGED vars
  BY <1>1, <1>4 DEF vars, AccrualInv, AccruedOncePerMonth
<1> QED BY <1>4, <1>1, <1>2, <1>3 DEF Next, AccrualInv, OneCaller

\* The accrual runs once a month as long as two runs do not overlap, wherever the
\* process dies: the history is written in the transaction of the balances.
THEOREM AccruesOnce ==
  ASSUME OneCaller
  PROVE  Spec => []AccruedOncePerMonth
<1>1. Init => AccrualInv
  BY TypeInit DEF Init, AccrualInv, AccruedOncePerMonth, Idle
<1>2. AccrualInv /\ [Next]_vars => AccrualInv'
  BY AccrualStep
<1>3. AccrualInv => AccruedOncePerMonth
  BY DEF AccrualInv
<1> QED BY <1>1, <1>2, <1>3, PTL DEF Spec

-----------------------------------------------------------------------------
(* One call at a time, none cut off: the two rows mirror each other *)

Same(a, b) ==
    /\ a.exists <=> b.exists
    /\ a.allocated = b.allocated /\ a.used = b.used /\ a.carriedOver = b.carriedOver

\* The rows between two calls.
Steady ==
    /\ Same(legacy, typed)
    /\ legacy.used = charged
    /\ legacy.exists => legacy.allocated = entitled

\* initBalance() has created the legacy row and not yet the type row.
HalfCreated ==
    /\ legacy.exists /\ ~typed.exists /\ typed.used = 0
    /\ legacy.allocated = TypeDefault /\ legacy.used = 0 /\ charged = 0
    /\ typed.carriedOver = 0 /\ legacy.carriedOver = 0
    /\ entitled = TypeDefault

\* What the call has read is what the rows hold, and the row it has not written
\* yet differs from the other one in what it is about to write.
MirrorCall(c) ==
    LET p == proc[c] IN
    /\ p.pc \in {"idle", "readLegacy", "init", "readType", "createType", "writeUsed",
                 "writeAnnual", "writeAllocated", "readHistory", "accrueTx"} => Steady
    /\ p.pc = "readLegacy" => p.op # "updateType"
    /\ p.pc = "init" => ~legacy.exists /\ p.op \notin {"accrueAll", "updateType"}
    /\ p.pc \in {"readType", "writeUsed"} /\ p.op = "deduct" => legacy.exists
    /\ p.pc \in {"writeAnnual", "writeAllocated"} => legacy.exists
    /\ p.pc \in {"writeUsed", "writeLegacyUsed", "writeAnnual", "initTypes",
                 "readHistory", "accrueTx"}
       \/ (p.pc = "readType" /\ p.op = "deduct") => Same(p.legacy, legacy)
    /\ p.pc = "readType" => p.op \in {"deduct", "updateType"}
    /\ p.pc \in {"createType", "writeAllocated", "upsertLegacy"} => p.op = "updateType"
    /\ p.pc = "createType" => ~typed.exists
    /\ p.pc = "writeUsed" => Same(p.typed, typed)
    /\ p.pc \in {"writeUsed", "writeLegacyUsed"} => p.op = "deduct"
    /\ p.pc \in {"writeAnnual", "upsertAllocated"} => p.op \in {"accrueOne", "update"}
    /\ p.pc = "initTypes" =>
         /\ p.op \in {"deduct", "get", "accrueOne", "update"}
         /\ legacy.exists
         /\ Steady \/ HalfCreated
    /\ p.pc = "resetType" => p.op = "reset" /\ legacy.exists /\ (Steady \/ HalfCreated)
    /\ p.pc = "writeLegacyUsed" =>
         /\ legacy.exists /\ typed.exists /\ typed.allocated = legacy.allocated
         /\ typed.carriedOver = legacy.carriedOver
         /\ legacy.used = charged /\ legacy.allocated = entitled
         /\ typed.used = legacy.used + p.n
    /\ p.pc = "upsertAllocated" =>
         /\ legacy.exists /\ typed.exists
         /\ typed.carriedOver = legacy.carriedOver
         /\ typed.used = legacy.used /\ legacy.used = charged
         /\ legacy.allocated = entitled /\ legacy.allocated = Target(p)
    /\ p.pc = "upsertLegacy" =>
         /\ typed.exists /\ typed.allocated = p.n
         /\ typed.carriedOver = Carried(legacy, p.carry)
         /\ typed.used = legacy.used /\ legacy.used = charged
    /\ p.pc = "resetAnnual" =>
         /\ legacy.exists /\ typed.exists /\ typed.allocated = TypeDefault
         /\ typed.carriedOver = legacy.carriedOver
         /\ typed.used = legacy.used /\ legacy.used = charged

MirrorInv ==
    /\ TypeOK
    /\ ~legacy.exists => legacy.used = 0 /\ legacy.carriedOver = 0
    /\ \A c \in Callers : MirrorCall(c)
    /\ Callers = {} => Steady

\* A step of the only caller owes its own part.
LEMMA MirrorStepBy ==
  ASSUME OneCaller, TypeOK', NEW c \in Callers, MirrorCall(c)',
         ~legacy'.exists => legacy'.used = 0 /\ legacy'.carriedOver = 0
  PROVE  MirrorInv'
<1>1. \A d \in Callers : MirrorCall(d)'
  BY DEF OneCaller
<1> QED BY <1>1 DEF MirrorInv

\* A call that ends, or goes on to read, with the rows in step.
LEMMA MirrorEnds ==
  ASSUME NEW c \in Callers, proc'[c] = Idle, Steady'
  PROVE  MirrorCall(c)'
  BY DEF MirrorCall, Idle

\* There is no row to differ.
LEMMA MirrorInit == Init => MirrorInv
<1> SUFFICES ASSUME Init PROVE MirrorInv
  OBVIOUS
<1>1. /\ Steady /\ legacy.used = 0
      /\ ~legacy.exists => legacy.carriedOver = 0
  BY InitRows DEF Init, Steady, Same, Missing
<1>2. \A c \in Callers : MirrorCall(c)
  BY <1>1 DEF Init, MirrorCall, Idle
<1> QED BY <1>1, <1>2, TypeInit DEF MirrorInv

\* Each step of calls that neither overlap nor are cut off keeps the rows in step,
\* or leaves the call knowing what it has to write.
LEMMA MirrorStep ==
  ASSUME OneCaller, ~MayCrash, LegacyDefault = TypeDefault, MirrorInv, [Next]_vars
  PROVE  MirrorInv'
<1> USE BalanceAssumption
<1>0. TypeOK'
  BY TypeStep DEF MirrorInv
<1>1. ASSUME NEW c \in Callers, Step(c)
      PROVE  MirrorCall(c)' /\ (~legacy'.exists => legacy'.used = 0 /\ legacy'.carriedOver = 0)
  <2> DEFINE p == proc[c]
  <2>0. /\ legacy \in Row /\ typed \in Row /\ charged \in Nat /\ entitled \in Nat
        /\ proc \in [Callers -> Proc] /\ p \in Proc
        /\ p.legacy \in Row /\ p.typed \in Row /\ p.n \in Nat
        /\ p.carry \in Nat \cup {NotGiven}
        /\ MirrorCall(c) /\ (~legacy.exists => legacy.used = 0 /\ legacy.carriedOver = 0)
    BY DEF MirrorInv, TypeOK, Proc
  <2>1. CASE Start(c)
    <3>1. PICK op \in Operations : \E n \in Amounts(op), k \in Carries(op) :
            proc' = [proc EXCEPT ![c] = [Idle EXCEPT !.op = op, !.n = n, !.carry = k,
                       !.pc = IF op = "updateType" THEN "readType" ELSE "readLegacy"]]
      BY <2>1 DEF Start
    <3>2. PICK n \in Amounts(op), k \in Carries(op) :
            proc' = [proc EXCEPT ![c] = [Idle EXCEPT !.op = op, !.n = n, !.carry = k,
                       !.pc = IF op = "updateType" THEN "readType" ELSE "readLegacy"]]
      BY <3>1
    <3>3. /\ proc'[c].op = op
          /\ proc'[c].pc = IF op = "updateType" THEN "readType" ELSE "readLegacy"
      BY <2>0, <3>2 DEF Idle
    <3>4. Steady
      BY <2>0, <2>1 DEF Start, MirrorCall
    <3>5. UNCHANGED <<legacy, typed, charged, entitled>>
      BY <2>1 DEF Start
    <3> QED BY <2>0, <3>3, <3>4, <3>5 DEF MirrorCall, Steady, Same
  <2>2. CASE ReadLegacy(c)
    <3> DEFINE pc == IF legacy.exists \/ p.op = "accrueAll" THEN AfterLegacy(p.op) ELSE "init"
    <3>1. /\ proc'[c].pc = pc /\ proc'[c].op = p.op /\ proc'[c].legacy = legacy
          /\ UNCHANGED <<legacy, typed, charged, entitled>>
      BY <2>0, <2>2 DEF ReadLegacy, Proc
    <3>2. Steady /\ p.op # "updateType" /\ p.op \in AllOperations
      BY <2>0, <2>2 DEF ReadLegacy, MirrorCall, Proc
    <3>3. \/ pc = "init" /\ ~legacy.exists /\ p.op # "accrueAll"
          \/ pc = "readHistory" /\ p.op = "accrueAll"
          \/ legacy.exists /\ \/ pc = "readType" /\ p.op = "deduct"
                              \/ pc = "writeAnnual" /\ p.op \in {"accrueOne", "update"}
                              \/ pc = "resetType" /\ p.op = "reset"
                              \/ pc = "initTypes" /\ p.op = "get"
      BY <3>2 DEF AfterLegacy, AllOperations
    <3> HIDE DEF pc
    <3> QED BY <2>0, <3>1, <3>2, <3>3 DEF MirrorCall, Steady, Same
  <2>3. CASE InitLegacy(c)
    <3>1. Steady /\ ~legacy.exists /\ p.op \notin {"accrueAll", "updateType"}
      BY <2>0, <2>3 DEF InitLegacy, MirrorCall
    <3>2. /\ legacy' = NewRow(LegacyDefault, 0) /\ entitled' = LegacyDefault
          /\ UNCHANGED <<typed, charged>>
          /\ proc' = [proc EXCEPT ![c].legacy = legacy',
                       ![c].pc = IF p.op = "reset" THEN "resetType" ELSE "initTypes"]
      BY <2>3, <3>1 DEF InitLegacy
    <3>3. /\ proc'[c].pc = IF p.op = "reset" THEN "resetType" ELSE "initTypes"
          /\ proc'[c].op = p.op /\ proc'[c].legacy = legacy'
      BY <2>0, <3>2 DEF Proc
    <3>4. /\ legacy'.exists /\ legacy'.allocated = TypeDefault /\ legacy'.used = 0
          /\ legacy'.carriedOver = 0
      BY <3>2 DEF NewRow
    <3>5. HalfCreated'
      BY <2>0, <3>1, <3>2, <3>4 DEF HalfCreated, Steady, Same
    <3>6. p.op \in AllOperations
      BY <2>0 DEF Proc
    <3> QED BY <3>1, <3>3, <3>4, <3>5, <3>6 DEF MirrorCall, Same, AllOperations
  <2>4. CASE InitTypes(c)
    <3>1. /\ p.op \in {"deduct", "get", "accrueOne", "update"} /\ legacy.exists
          /\ Same(p.legacy, legacy) /\ (Steady \/ HalfCreated)
      BY <2>0, <2>4 DEF InitTypes, MirrorCall
    <3>2. /\ typed' = IF typed.exists THEN typed ELSE NewRow(TypeDefault, 0)
          /\ UNCHANGED <<legacy, charged, entitled>>
      BY <2>4 DEF InitTypes
    <3>3. Steady'
      BY <2>0, <3>1, <3>2 DEF Steady, HalfCreated, Same, NewRow
    <3>4. CASE Leave(c)
      BY <2>0, <3>1, <3>2, <3>3, <3>4, LeaveEffect, MirrorEnds
    <3>5. CASE p.op # "get" /\ Goto(c, AfterLegacy(p.op))
      <4>1. \/ AfterLegacy(p.op) = "readType" /\ p.op = "deduct"
            \/ AfterLegacy(p.op) = "writeAnnual" /\ p.op \in {"accrueOne", "update"}
        BY <3>1, <3>5 DEF AfterLegacy
      <4>2. /\ proc'[c].pc = AfterLegacy(p.op) /\ proc'[c].op = p.op
            /\ proc'[c].legacy = p.legacy
        BY <2>0, <3>5, <4>1, GotoEffect DEF PCs
      <4> QED BY <3>1, <3>2, <3>3, <4>1, <4>2 DEF MirrorCall
    <3> QED BY <2>4, <3>4, <3>5 DEF InitTypes
  <2>5. CASE ReadType(c)
    <3>1. /\ UNCHANGED <<legacy, typed, charged, entitled>>
          /\ Steady /\ p.op \in {"deduct", "updateType"}
          /\ p.op = "deduct" => legacy.exists /\ Same(p.legacy, legacy)
      BY <2>0, <2>5 DEF ReadType, MirrorCall
    <3>2. Steady'
      BY <3>1 DEF Steady
    <3>3. CASE ~typed.exists
      <4>1. p.op = "updateType"
        BY <3>1, <3>3 DEF Steady, Same
      <4>2. proc'[c].pc = "createType" /\ proc'[c].op = p.op
        BY <2>0, <2>5, <3>3, GotoEffect DEF ReadType, PCs
      <4> QED BY <2>0, <3>1, <3>2, <3>3, <4>1, <4>2 DEF MirrorCall
    <3>4. CASE typed.exists /\ p.op = "updateType"
      <4>1. proc'[c].pc = "writeAllocated" /\ proc'[c].op = p.op
        BY <2>0, <2>5, <3>4, GotoEffect DEF ReadType, PCs
      <4> QED BY <2>0, <3>1, <3>2, <3>4, <4>1 DEF MirrorCall, Steady, Same
    <3>5. CASE Leave(c)
      BY <2>0, <3>1, <3>2, <3>5, LeaveEffect, MirrorEnds
    <3>6. CASE /\ typed.exists /\ p.op = "deduct"
               /\ proc' = [proc EXCEPT ![c].typed = typed, ![c].pc = "writeUsed"]
      <4>1. /\ proc'[c].pc = "writeUsed" /\ proc'[c].op = p.op
            /\ proc'[c].legacy = p.legacy /\ proc'[c].typed = typed
        BY <2>0, <3>6 DEF Proc
      <4> QED BY <2>0, <3>1, <3>2, <3>6, <4>1 DEF MirrorCall, Same
    <3> QED BY <2>5, <3>1, <3>3, <3>4, <3>5, <3>6 DEF ReadType
  <2>6. CASE CreateType(c)
    <3>1. Steady /\ p.op = "updateType" /\ ~typed.exists
      BY <2>0, <2>6 DEF CreateType, MirrorCall
    <3>2. /\ typed' = [NewRow(p.n, 0) EXCEPT !.carriedOver = Carried(Missing, p.carry)]
          /\ Goto(c, "upsertLegacy") /\ UNCHANGED <<legacy, charged, entitled>>
      BY <2>6, <3>1 DEF CreateType
    <3>3. /\ proc'[c].pc = "upsertLegacy" /\ proc'[c].op = p.op /\ proc'[c].n = p.n
          /\ proc'[c].carry = p.carry
      BY <2>0, <3>2, GotoEffect DEF PCs
    <3>4. /\ typed'.exists /\ typed'.allocated = p.n /\ typed'.used = 0
          /\ typed'.carriedOver = Carried(Missing, p.carry)
      BY <3>2 DEF NewRow
    <3>5. ~legacy.exists /\ legacy.used = 0 /\ legacy.carriedOver = 0 /\ charged = 0
      BY <2>0, <3>1 DEF Steady, Same
    <3>6. Carried(Missing, p.carry) = Carried(legacy, p.carry)
      BY <3>5 DEF Carried, Missing
    <3> QED BY <3>1, <3>2, <3>3, <3>4, <3>5, <3>6 DEF MirrorCall
  <2>7. CASE WriteUsed(c)
    <3>1. /\ Steady /\ p.op = "deduct" /\ legacy.exists
          /\ Same(p.legacy, legacy) /\ Same(p.typed, typed)
      BY <2>0, <2>7 DEF WriteUsed, MirrorCall
    <3>2. /\ typed' = [typed EXCEPT !.used = p.typed.used + p.n]
          /\ Goto(c, "writeLegacyUsed") /\ UNCHANGED <<legacy, charged, entitled>>
      BY <2>7 DEF WriteUsed
    <3>3. /\ proc'[c].pc = "writeLegacyUsed" /\ proc'[c].op = p.op /\ proc'[c].n = p.n
          /\ proc'[c].legacy = p.legacy
      BY <2>0, <3>2, GotoEffect DEF PCs
    <3>4. /\ typed'.exists = typed.exists /\ typed'.allocated = typed.allocated
          /\ typed'.used = p.typed.used + p.n /\ typed'.carriedOver = typed.carriedOver
      BY <2>0, <3>2 DEF Row
    <3> QED BY <2>0, <3>1, <3>2, <3>3, <3>4 DEF MirrorCall, Steady, Same
  <2>8. CASE WriteLegacyUsed(c)
    <3>1. /\ legacy.exists /\ typed.exists /\ typed.allocated = legacy.allocated
          /\ typed.carriedOver = legacy.carriedOver
          /\ legacy.used = charged /\ legacy.allocated = entitled
          /\ typed.used = legacy.used + p.n /\ Same(p.legacy, legacy)
      BY <2>0, <2>8 DEF WriteLegacyUsed, MirrorCall
    <3>2. /\ legacy' = [legacy EXCEPT !.used = p.legacy.used + p.n]
          /\ charged' = charged + p.n /\ Leave(c) /\ UNCHANGED <<typed, entitled>>
      BY <2>8 DEF WriteLegacyUsed
    <3>3. /\ legacy'.exists = legacy.exists /\ legacy'.allocated = legacy.allocated
          /\ legacy'.used = p.legacy.used + p.n /\ legacy'.carriedOver = legacy.carriedOver
      BY <2>0, <3>2 DEF Row
    <3>4. Steady'
      BY <3>1, <3>2, <3>3 DEF Steady, Same
    <3> QED BY <2>0, <3>1, <3>2, <3>3, <3>4, LeaveEffect, MirrorEnds
  <2>9. CASE WriteAnnual(c)
    <3>1. /\ Steady /\ legacy.exists /\ Same(p.legacy, legacy)
          /\ p.op \in {"accrueOne", "update"}
      BY <2>0, <2>9 DEF WriteAnnual, MirrorCall
    <3>2. /\ legacy' = [legacy EXCEPT !.allocated = Target(p)]
          /\ entitled' = IF p.op = "accrueOne" THEN entitled + p.n ELSE p.n
          /\ Goto(c, "upsertAllocated") /\ UNCHANGED <<typed, charged>>
      BY <2>9 DEF WriteAnnual
    <3>3. /\ proc'[c].pc = "upsertAllocated" /\ proc'[c].op = p.op /\ proc'[c].n = p.n
          /\ proc'[c].legacy = p.legacy
      BY <2>0, <3>2, GotoEffect DEF PCs
    <3>4. /\ legacy'.exists = legacy.exists /\ legacy'.used = legacy.used
          /\ legacy'.allocated = Target(p) /\ legacy'.carriedOver = legacy.carriedOver
      BY <2>0, <3>2 DEF Row
    <3>5. Target(p) = entitled' /\ Target(proc'[c]) = Target(p)
      BY <3>1, <3>2, <3>3 DEF Target, Steady, Same
    <3> QED BY <2>0, <3>1, <3>2, <3>3, <3>4, <3>5 DEF MirrorCall, Steady, Same
  <2>10. CASE UpsertAllocated(c)
    <3>1. /\ legacy.exists /\ typed.exists /\ typed.carriedOver = legacy.carriedOver
          /\ typed.used = legacy.used /\ legacy.used = charged
          /\ legacy.allocated = entitled /\ legacy.allocated = Target(p)
      BY <2>0, <2>10 DEF UpsertAllocated, MirrorCall
    <3>2. /\ typed' = [typed EXCEPT !.allocated = Target(p)]
          /\ Leave(c) /\ UNCHANGED <<legacy, charged, entitled>>
      BY <2>10, <3>1 DEF UpsertAllocated, Upserted
    <3>3. Steady'
      BY <2>0, <3>1, <3>2 DEF Steady, Same, Row
    <3> QED BY <2>0, <3>1, <3>2, <3>3, LeaveEffect, MirrorEnds
  <2>11. CASE WriteAllocated(c)
    <3>1. Steady /\ legacy.exists /\ p.op = "updateType"
      BY <2>0, <2>11 DEF WriteAllocated, MirrorCall
    <3>2. /\ typed' = [typed EXCEPT !.allocated = p.n,
                                    !.carriedOver = Carried(typed, p.carry)]
          /\ Goto(c, "upsertLegacy") /\ UNCHANGED <<legacy, charged, entitled>>
      BY <2>11 DEF WriteAllocated
    <3>3. /\ proc'[c].pc = "upsertLegacy" /\ proc'[c].op = p.op /\ proc'[c].n = p.n
          /\ proc'[c].carry = p.carry
      BY <2>0, <3>2, GotoEffect DEF PCs
    <3>4. /\ typed'.exists = typed.exists /\ typed'.used = typed.used
          /\ typed'.allocated = p.n /\ typed'.carriedOver = Carried(typed, p.carry)
      BY <2>0, <3>2 DEF Row
    <3>5. Carried(typed, p.carry) = Carried(legacy, p.carry)
      BY <3>1 DEF Carried, Steady, Same
    <3> QED BY <2>0, <3>1, <3>2, <3>3, <3>4, <3>5 DEF MirrorCall, Steady, Same
  <2>12. CASE UpsertLegacy(c)
    <3>1. /\ typed.exists /\ typed.allocated = p.n
          /\ typed.carriedOver = Carried(legacy, p.carry)
          /\ typed.used = legacy.used /\ legacy.used = charged
      BY <2>0, <2>12 DEF UpsertLegacy, MirrorCall
    <3>2. /\ legacy' = [Upserted(legacy, p.n, 0) EXCEPT !.carriedOver = Carried(legacy, p.carry)]
          /\ entitled' = p.n /\ Leave(c) /\ UNCHANGED <<typed, charged>>
      BY <2>12 DEF UpsertLegacy
    <3>3. /\ legacy'.exists /\ legacy'.allocated = p.n /\ legacy'.used = legacy.used
          /\ legacy'.carriedOver = Carried(legacy, p.carry)
      BY <2>0, <3>2 DEF Upserted, NewRow, Row
    <3>4. Steady'
      BY <3>1, <3>2, <3>3 DEF Steady, Same
    <3> QED BY <2>0, <3>2, <3>3, <3>4, LeaveEffect, MirrorEnds
  <2>13. CASE ReadHistory(c)
    <3>1. Steady /\ Same(p.legacy, legacy) /\ UNCHANGED <<legacy, typed, charged, entitled>>
      BY <2>0, <2>13 DEF ReadHistory, MirrorCall
    <3>2. Steady'
      BY <3>1 DEF Steady
    <3>3. CASE Leave(c)
      BY <2>0, <3>1, <3>2, <3>3, LeaveEffect, MirrorEnds
    <3>4. CASE Goto(c, "accrueTx")
      <4>1. proc'[c].pc = "accrueTx" /\ proc'[c].legacy = p.legacy
        BY <2>0, <3>4, GotoEffect DEF PCs
      <4> QED BY <2>0, <3>1, <3>2, <4>1 DEF MirrorCall
    <3> QED BY <2>13, <3>3, <3>4 DEF ReadHistory
  <2>14. CASE AccrueTx(c)
    <3>1. Steady /\ Same(p.legacy, legacy)
      BY <2>0, <2>14 DEF AccrueTx, MirrorCall
    <3>2. Leave(c) /\ charged' = charged
      BY <2>14 DEF AccrueTx
    <3>3. CASE p.legacy.exists
      <4>1. /\ legacy' = [legacy EXCEPT !.allocated = p.legacy.allocated + 1]
            /\ typed' = [typed EXCEPT !.allocated = p.legacy.allocated + 1]
            /\ entitled' = entitled + 1
        BY <2>14, <3>1, <3>3 DEF AccrueTx, Upserted, Steady, Same
      <4>2. /\ legacy'.exists = legacy.exists /\ legacy'.used = legacy.used
            /\ legacy'.allocated = p.legacy.allocated + 1
            /\ legacy'.carriedOver = legacy.carriedOver
            /\ typed'.carriedOver = typed.carriedOver
            /\ typed'.exists = typed.exists /\ typed'.used = typed.used
            /\ typed'.allocated = p.legacy.allocated + 1
        BY <2>0, <4>1 DEF Row
      <4>3. Steady'
        BY <3>1, <3>2, <3>3, <4>1, <4>2 DEF Steady, Same
      <4> QED BY <2>0, <3>2, <4>2, <4>3, LeaveEffect, MirrorEnds
    <3>4. CASE ~p.legacy.exists
      <4>1. /\ legacy' = NewRow(LegacyDefault + 1, 0) /\ typed' = NewRow(LegacyDefault + 1, 0)
            /\ entitled' = LegacyDefault + 1
        BY <2>14, <3>1, <3>4 DEF AccrueTx, Steady, Same
      <4>2. Steady'
        BY <2>0, <3>1, <3>2, <3>4, <4>1 DEF Steady, Same, NewRow
      <4> QED BY <2>0, <3>2, <4>1, <4>2, LeaveEffect, MirrorEnds DEF NewRow
    <3> QED BY <3>3, <3>4
  <2>15. CASE ResetType(c)
    <3>1. p.op = "reset" /\ legacy.exists /\ (Steady \/ HalfCreated)
      BY <2>0, <2>15 DEF ResetType, MirrorCall
    <3>2. /\ typed' = Upserted(typed, TypeDefault, 0)
          /\ Goto(c, "resetAnnual") /\ UNCHANGED <<legacy, charged, entitled>>
      BY <2>15 DEF ResetType
    <3>3. proc'[c].pc = "resetAnnual"
      BY <2>0, <3>2, GotoEffect DEF PCs
    <3>4. /\ typed'.exists /\ typed'.allocated = TypeDefault
          /\ typed'.used = IF typed.exists THEN typed.used ELSE 0
          /\ typed'.carriedOver = IF typed.exists THEN typed.carriedOver ELSE 0
      BY <2>0, <3>2 DEF Upserted, NewRow, Row
    <3>5. /\ typed'.used = legacy.used /\ legacy.used = charged
          /\ typed'.carriedOver = legacy.carriedOver
      BY <3>1, <3>4 DEF Steady, HalfCreated, Same
    <3> QED BY <2>0, <3>1, <3>2, <3>3, <3>4, <3>5 DEF MirrorCall
  <2>16. CASE ResetAnnual(c)
    <3>1. /\ legacy.exists /\ typed.exists /\ typed.allocated = TypeDefault
          /\ typed.carriedOver = legacy.carriedOver
          /\ typed.used = legacy.used /\ legacy.used = charged
      BY <2>0, <2>16 DEF ResetAnnual, MirrorCall
    <3>2. /\ legacy' = [legacy EXCEPT !.allocated = TypeDefault] /\ entitled' = TypeDefault
          /\ Leave(c) /\ UNCHANGED <<typed, charged>>
      BY <2>16 DEF ResetAnnual
    <3>3. /\ legacy'.exists = legacy.exists /\ legacy'.used = legacy.used
          /\ legacy'.allocated = TypeDefault /\ legacy'.carriedOver = legacy.carriedOver
      BY <2>0, <3>2 DEF Row
    <3>4. Steady'
      BY <3>1, <3>2, <3>3 DEF Steady, Same
    <3> QED BY <2>0, <3>1, <3>2, <3>3, <3>4, LeaveEffect, MirrorEnds
  <2> QED
    BY <1>1, <2>1, <2>2, <2>3, <2>4, <2>5, <2>6, <2>7, <2>8, <2>9, <2>10, <2>11, <2>12,
       <2>13, <2>14, <2>15, <2>16 DEF Step
<1>2. CASE UNCHANGED vars
  BY <1>0, <1>2 DEF vars, MirrorInv, MirrorCall, Steady, HalfCreated, Same
<1>3. ~Crash
  BY DEF Crash
<1> QED BY <1>0, <1>1, <1>2, <1>3, MirrorStepBy DEF Next

\* The invariant of calls that neither overlap nor are cut off.
THEOREM MirrorCorrect ==
  ASSUME OneCaller, ~MayCrash, LegacyDefault = TypeDefault
  PROVE  Spec => []MirrorInv
<1>1. MirrorInv /\ [Next]_vars => MirrorInv'
  BY MirrorStep
<1> QED BY <1>1, MirrorInit, PTL DEF Spec

\* Between two calls the rows are in step.
LEMMA MirrorAtRest == MirrorInv /\ AllIdle => Steady
  BY DEF MirrorInv, MirrorCall, AllIdle

\* Payroll and the leave screen, which read the legacy row, see what the checks of
\* the type row see, after every method of the service.
THEOREM BothRowsAgree ==
  ASSUME OneCaller, ~MayCrash, LegacyDefault = TypeDefault
  PROVE  Spec => []RowsAgree
<1>1. MirrorInv => RowsAgree
  BY MirrorAtRest DEF RowsAgree, Steady, Same
<1> QED BY <1>1, MirrorCorrect, PTL

\* The days used are the days of the deductions that returned.
THEOREM UsedIsCharged ==
  ASSUME OneCaller, ~MayCrash, LegacyDefault = TypeDefault
  PROVE  Spec => []ChargedIsUsed
<1>1. MirrorInv => ChargedIsUsed
  BY MirrorAtRest DEF ChargedIsUsed, Steady, Same
<1> QED BY <1>1, MirrorCorrect, PTL

\* The allocation is what the completed accruals and corrections add up to.
THEOREM AllocationAddsUp ==
  ASSUME OneCaller, ~MayCrash, LegacyDefault = TypeDefault
  PROVE  Spec => []AllocationExplained
<1>1. MirrorInv => AllocationExplained
  BY MirrorAtRest DEF AllocationExplained, Steady
<1> QED BY <1>1, MirrorCorrect, PTL
=============================================================================
