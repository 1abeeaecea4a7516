----------------------------- MODULE LeaveBalances -----------------------------
(***************************************************************************)
(* The annual-leave balance of one employee in one year                    *)
(* (leave-balances/leave-balances.service.ts).  It is kept twice: in the   *)
(* legacy LeaveBalance row and in the LeaveTypeBalance row the checks use. *)
(* Every method reads, computes in memory and writes absolute values, one  *)
(* query per action; only the monthly accrual writes in a transaction.     *)
(* The days carried over are an administrator's: updateTypeBalance() alone *)
(* moves them, in both rows; every other creation writes zero.             *)
(***************************************************************************)
EXTENDS Integers

CONSTANTS
    Callers,       \* concurrent calls of the service
    Operations,    \* which methods they call
    LegacyDefault, \* DEFAULT_ANNUAL_LEAVE
    TypeDefault,   \* defaultDays of the Annual Leave library item
    Days,          \* days of a leave request, or of a manual accrual
    Allocations,   \* allocations an administrator sets
    CarryOvers,    \* carriedOver, when an administrator states it
    MaxDays,       \* bound on the allocation and on the days charged
    MayCrash       \* whether the process may die between two queries

AllOperations == {"deduct", "get", "accrueOne", "accrueAll", "update", "updateType", "reset"}

\* The methods that only take days, and the accrual of the month.
RaisingOperations == {"deduct", "get", "accrueAll"}

ASSUME BalanceAssumption ==
    /\ Operations \subseteq AllOperations
    /\ LegacyDefault \in Nat /\ TypeDefault \in Nat /\ MaxDays \in Nat
    /\ Days \subseteq Nat \ {0} /\ Allocations \subseteq Nat /\ CarryOvers \subseteq Nat
    /\ MayCrash \in BOOLEAN

VARIABLES
    legacy,   \* the LeaveBalance row
    typed,    \* the LeaveTypeBalance row of Annual Leave
    autoRuns, \* AUTO rows of LeaveAccrualHistory for this month
    charged,  \* history: the days of the deductions that returned
    entitled, \* history: the allocation the completed calls add up to
    proc      \* the local state of each call

vars == <<legacy, typed, autoRuns, charged, entitled, proc>>

Row == [exists : BOOLEAN, allocated : Nat, used : Nat, carriedOver : Nat]
Missing == [exists |-> FALSE, allocated |-> 0, used |-> 0, carriedOver |-> 0]
NewRow(n, u) == [exists |-> TRUE, allocated |-> n, used |-> u, carriedOver |-> 0]

\* carriedOver is optional: a row keeps its own, a new one starts from zero.
NotGiven == -1
Carried(row, given) == IF given = NotGiven THEN row.carriedOver ELSE given

PCs == {"idle", "readLegacy", "init", "initTypes", "readType", "createType", "writeUsed",
        "writeLegacyUsed", "writeAnnual", "upsertAllocated", "writeAllocated", "upsertLegacy",
        "readHistory", "accrueTx", "resetType", "resetAnnual"}

\* legacy, typed: the rows as this call read them
Proc == [pc : PCs, op : AllOperations, n : Nat, carry : Nat \cup {NotGiven},
         legacy : Row, typed : Row]
Idle == [pc |-> "idle", op |-> "get", n |-> 0, carry |-> NotGiven,
         legacy |-> Missing, typed |-> Missing]

TypeOK ==
    /\ legacy \in Row /\ typed \in Row
    /\ autoRuns \in 0..2
    /\ charged \in Nat /\ entitled \in Nat
    /\ proc \in [Callers -> Proc]

-----------------------------------------------------------------------------
(* Control *)

Amounts(op) ==
    CASE op \in {"deduct", "accrueOne"} -> Days
      [] op \in {"update", "updateType"} -> Allocations
      [] OTHER -> {0}

Carries(op) == IF op = "updateType" THEN CarryOvers \cup {NotGiven} ELSE {NotGiven}

Start(c) ==
    /\ proc[c].pc = "idle"
    /\ \E op \in Operations : \E n \in Amounts(op), k \in Carries(op) :
         /\ op = "deduct" => charged < MaxDays
         /\ op = "accrueOne" => legacy.allocated + n <= MaxDays
         /\ proc' = [proc EXCEPT ![c] = [Idle EXCEPT !.op = op, !.n = n, !.carry = k,
              !.pc = IF op = "updateType" THEN "readType" ELSE "readLegacy"]]
    /\ UNCHANGED <<legacy, typed, autoRuns, charged, entitled>>

Goto(c, pc) == proc' = [proc EXCEPT ![c].pc = pc]
\* Returning, and throwing: nothing is rolled back either way.
Leave(c) == proc' = [proc EXCEPT ![c] = Idle]

AfterLegacy(op) ==
    CASE op = "deduct" -> "readType"
      [] op \in {"accrueOne", "update"} -> "writeAnnual"
      [] op = "accrueAll" -> "readHistory"
      [] op = "reset" -> "resetType"
      [] OTHER -> "initTypes"

\* accrueLeaveForAllEmployees() creates a missing row inside its transaction,
\* the other methods call initBalance() first.
ReadLegacy(c) ==
    LET op == proc[c].op IN
    /\ proc[c].pc = "readLegacy"
    /\ proc' = [proc EXCEPT ![c].legacy = legacy,
         ![c].pc = IF legacy.exists \/ op = "accrueAll" THEN AfterLegacy(op) ELSE "init"]
    /\ UNCHANGED <<legacy, typed, autoRuns, charged, entitled>>

-----------------------------------------------------------------------------
(* initBalance(): a row that appeared in the meantime makes it throw *)

InitLegacy(c) ==
    /\ proc[c].pc = "init"
    /\ IF legacy.exists
       THEN Leave(c) /\ UNCHANGED <<legacy, entitled>>
       ELSE /\ legacy' = NewRow(LegacyDefault, 0)
            /\ entitled' = LegacyDefault
            /\ proc' = [proc EXCEPT ![c].legacy = legacy',
                 ![c].pc = IF proc[c].op = "reset" THEN "resetType" ELSE "initTypes"]
    /\ UNCHANGED <<typed, autoRuns, charged>>

\* createMany with skipDuplicates; getBalance() ends here too
InitTypes(c) ==
    /\ proc[c].pc = "initTypes"
    /\ typed' = IF typed.exists THEN typed ELSE NewRow(TypeDefault, 0)
    /\ IF proc[c].op = "get" THEN Leave(c) ELSE Goto(c, AfterLegacy(proc[c].op))
    /\ UNCHANGED <<legacy, autoRuns, charged, entitled>>

-----------------------------------------------------------------------------
(* deductDays() *)

\* Seeded fault: the check forgets the days already used.
FitsAllocated(row, n) == n <= row.allocated

Fits(row, n) == row.used + n <= row.allocated + row.carriedOver

\* The row is read, or created; a balance that is too short throws.
ReadType(c) ==
    /\ proc[c].pc = "readType"
    /\ IF ~typed.exists THEN Goto(c, "createType")
       ELSE IF proc[c].op = "updateType" THEN Goto(c, "writeAllocated")
       ELSE IF ~Fits(typed, proc[c].n) THEN Leave(c)
       ELSE proc' = [proc EXCEPT ![c].typed = typed, ![c].pc = "writeUsed"]
    /\ UNCHANGED <<legacy, typed, autoRuns, charged, entitled>>

\* The unique index makes the second of two creations throw.
CreateType(c) ==
    LET n == IF proc[c].op = "deduct" THEN TypeDefault ELSE proc[c].n
        new == [NewRow(n, 0) EXCEPT !.carriedOver = Carried(Missing, proc[c].carry)] IN
    /\ proc[c].pc = "createType"
    /\ IF typed.exists
       THEN Leave(c) /\ UNCHANGED typed
       ELSE /\ typed' = new
            /\ IF proc[c].op = "updateType" THEN Goto(c, "upsertLegacy")
               ELSE IF ~Fits(new, proc[c].n) THEN Leave(c)
               ELSE proc' = [proc EXCEPT ![c].typed = new, ![c].pc = "writeUsed"]
    /\ UNCHANGED <<legacy, autoRuns, charged, entitled>>

\* Seeded fault: the days of the request replace the days used so far.
WriteUsedReplaced(c) ==
    /\ proc[c].pc = "writeUsed"
    /\ typed' = [typed EXCEPT !.used = proc[c].n]
    /\ Goto(c, "writeLegacyUsed")
    /\ UNCHANGED <<legacy, autoRuns, charged, entitled>>

WriteUsed(c) ==
    /\ proc[c].pc = "writeUsed"
    /\ typed' = [typed EXCEPT !.used = proc[c].typed.used + proc[c].n]
    /\ Goto(c, "writeLegacyUsed")
    /\ UNCHANGED <<legacy, autoRuns, charged, entitled>>

\* Seeded fault: the legacy column is not synchronised.
WriteLegacyUsedSkipped(c) ==
    /\ proc[c].pc = "writeLegacyUsed"
    /\ charged' = charged + proc[c].n
    /\ Leave(c)
    /\ UNCHANGED <<legacy, typed, autoRuns, entitled>>

WriteLegacyUsed(c) ==
    /\ proc[c].pc = "writeLegacyUsed"
    /\ legacy' = [legacy EXCEPT !.used = proc[c].legacy.used + proc[c].n]
    /\ charged' = charged + proc[c].n
    /\ Leave(c)
    /\ UNCHANGED <<typed, autoRuns, entitled>>

-----------------------------------------------------------------------------
(* updateBalance() and accrueLeaveForEmployee(): legacy row, then type row *)

\* Seeded fault: a manual accrual replaces the allocation.
TargetReplaced(p) == p.n

Target(p) == IF p.op = "accrueOne" THEN p.legacy.allocated + p.n ELSE p.n

WriteAnnual(c) ==
    /\ proc[c].pc = "writeAnnual"
    /\ legacy' = [legacy EXCEPT !.allocated = Target(proc[c])]
    /\ entitled' = IF proc[c].op = "accrueOne" THEN entitled + proc[c].n ELSE proc[c].n
    /\ Goto(c, "upsertAllocated")
    /\ UNCHANGED <<typed, autoRuns, charged>>

Upserted(row, n, u) == IF row.exists THEN [row EXCEPT !.allocated = n] ELSE NewRow(n, u)

UpsertAllocated(c) ==
    LET p == proc[c] IN
    /\ p.pc = "upsertAllocated"
    /\ typed' = Upserted(typed, Target(p), IF p.op = "accrueOne" THEN p.legacy.used ELSE 0)
    /\ Leave(c)
    /\ UNCHANGED <<legacy, autoRuns, charged, entitled>>

-----------------------------------------------------------------------------
(* updateTypeBalance(): type row, then legacy row *)

WriteAllocated(c) ==
    /\ proc[c].pc = "writeAllocated"
    /\ typed' = [typed EXCEPT !.allocated = proc[c].n,
                              !.carriedOver = Carried(typed, proc[c].carry)]
    /\ Goto(c, "upsertLegacy")
    /\ UNCHANGED <<legacy, autoRuns, charged, entitled>>

UpsertLegacy(c) ==
    /\ proc[c].pc = "upsertLegacy"
    /\ legacy' = [Upserted(legacy, proc[c].n, 0) EXCEPT
                    !.carriedOver = Carried(legacy, proc[c].carry)]
    /\ entitled' = proc[c].n
    /\ Leave(c)
    /\ UNCHANGED <<typed, autoRuns, charged>>

-----------------------------------------------------------------------------
(* accrueLeaveForAllEmployees(), for this employee *)

\* Seeded fault: the history is not consulted.
ReadHistoryIgnored(c) ==
    /\ proc[c].pc = "readHistory"
    /\ Goto(c, "accrueTx")
    /\ UNCHANGED <<legacy, typed, autoRuns, charged, entitled>>

ReadHistory(c) ==
    /\ proc[c].pc = "readHistory"
    /\ IF autoRuns > 0 THEN Leave(c) ELSE Goto(c, "accrueTx")
    /\ UNCHANGED <<legacy, typed, autoRuns, charged, entitled>>

\* One transaction; the new total was computed before it began.
AccrueTx(c) ==
    LET before == proc[c].legacy IN
    /\ proc[c].pc = "accrueTx"
    /\ IF before.exists
       THEN /\ legacy' = [legacy EXCEPT !.allocated = before.allocated + 1]
            /\ typed' = Upserted(typed, before.allocated + 1, legacy.used)
            /\ entitled' = entitled + 1
       ELSE /\ legacy' = IF legacy.exists THEN legacy ELSE NewRow(LegacyDefault + 1, 0)
            /\ typed' = IF typed.exists THEN typed ELSE NewRow(LegacyDefault + 1, 0)
            /\ entitled' = IF legacy.exists THEN entitled + 1 ELSE LegacyDefault + 1
    /\ autoRuns' = IF autoRuns < 2 THEN autoRuns + 1 ELSE autoRuns
    /\ Leave(c)
    /\ UNCHANGED charged

-----------------------------------------------------------------------------
(* setBulkDefaultBalances(), for this employee *)

ResetType(c) ==
    /\ proc[c].pc = "resetType"
    /\ typed' = Upserted(typed, TypeDefault, 0)
    /\ Goto(c, "resetAnnual")
    /\ UNCHANGED <<legacy, autoRuns, charged, entitled>>

ResetAnnual(c) ==
    /\ proc[c].pc = "resetAnnual"
    /\ legacy' = [legacy EXCEPT !.allocated = TypeDefault]
    /\ entitled' = TypeDefault
    /\ Leave(c)
    /\ UNCHANGED <<typed, autoRuns, charged>>

-----------------------------------------------------------------------------
(* Specification *)

Crash ==
    /\ MayCrash
    /\ \E c \in Callers : proc[c].pc # "idle"
    /\ proc' = [c \in Callers |-> Idle]
    /\ UNCHANGED <<legacy, typed, autoRuns, charged, entitled>>

Step(c) ==
    \/ Start(c) \/ ReadLegacy(c) \/ InitLegacy(c) \/ InitTypes(c)
    \/ ReadType(c) \/ CreateType(c) \/ WriteUsed(c) \/ WriteLegacyUsed(c)
    \/ WriteAnnual(c) \/ UpsertAllocated(c) \/ WriteAllocated(c) \/ UpsertLegacy(c)
    \/ ReadHistory(c) \/ AccrueTx(c) \/ ResetType(c) \/ ResetAnnual(c)

\* A year without rows, or one an administrator has opened with days carried
\* over from the last.
Init ==
    /\ \/ legacy = Missing /\ entitled = 0
       \/ /\ \E k \in CarryOvers : legacy = [NewRow(TypeDefault, 0) EXCEPT !.carriedOver = k]
          /\ entitled = TypeDefault
    /\ typed = legacy
    /\ autoRuns = 0
    /\ charged = 0
    /\ proc = [c \in Callers |-> Idle]

Next == (\E c \in Callers : Step(c)) \/ Crash

Spec == Init /\ [][Next]_vars
-----------------------------------------------------------------------------
(* Properties *)

AllIdle == \A c \in Callers : proc[c].pc = "idle"

\* The two rows mirror each other once a call has ended: payroll and the leave
\* screen read the legacy columns, the checks read the type row.
RowsAgree ==
    AllIdle /\ legacy.exists /\ typed.exists
        => /\ legacy.allocated = typed.allocated
           /\ legacy.used = typed.used
           /\ legacy.carriedOver = typed.carriedOver

\* Every deduction that returned moved the balance: the days of the approved
\* leaves are the days used.
ChargedIsUsed == AllIdle => typed.used = charged

\* No accrual and no correction is lost: the allocation is what the completed
\* calls add up to.
AllocationExplained == AllIdle /\ legacy.exists => legacy.allocated = entitled

\* "A second run in the same company month skips every employee".
AccruedOncePerMonth == autoRuns <= 1

\* However calls overlap and wherever the process dies, the balance never shows
\* more days used than allocated and carried over, as long as neither is lowered:
\* each deduction writes a total it has checked.
NeverOverdrawn == typed.used <= typed.allocated + typed.carriedOver

-----------------------------------------------------------------------------
(* The inductive invariant behind NeverOverdrawn *)

\* What a call may rely on between the check and the write.
CallInv(c) ==
    LET p == proc[c] IN
    /\ p.pc = "writeUsed" =>
         typed.exists /\ p.typed.used + p.n <= typed.allocated + typed.carriedOver
    /\ p.pc = "writeLegacyUsed" => typed.exists
    /\ p.pc \in {"initTypes", "readType", "createType"} => legacy.exists
    /\ p.pc \in {"init", "initTypes"} => p.op # "accrueAll"
    /\ p.pc \in {"readType", "createType"} => p.op = "deduct"
    /\ p.legacy.exists => legacy.exists
    /\ p.pc = "readHistory" /\ p.legacy.exists /\ autoRuns = 0
         => p.legacy.allocated = TypeDefault
    /\ p.pc = "accrueTx" /\ p.legacy.exists => p.legacy.allocated = TypeDefault
    /\ p.pc \in {"idle", "readLegacy", "init", "initTypes", "readType", "createType",
                 "writeUsed", "writeLegacyUsed", "readHistory", "accrueTx"}
    /\ p.op \in RaisingOperations

\* Without a method that lowers allocations there are two levels in a month:
\* the default, and the default plus the accrued day.
OverdraftInv ==
    /\ TypeOK
    /\ NeverOverdrawn
    /\ typed.exists => typed.allocated \in {TypeDefault, TypeDefault + 1}
    /\ typed.exists => legacy.exists
    /\ ~typed.exists => typed.used = 0 /\ legacy.used = 0
    /\ legacy.exists /\ autoRuns = 0 => legacy.allocated = TypeDefault
    /\ \A c \in Callers : CallInv(c)
=============================================================================
