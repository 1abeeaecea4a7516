---------------------------- MODULE LeaveLifecycle ----------------------------
(***************************************************************************)
(* What a leave request promises to the employee and to payroll: it is     *)
(* submitted once, answered at most once, and its days are charged exactly *)
(* when it is approved.  LeaveRequest implements it as long as calls for   *)
(* the same request do not overlap.                                        *)
(***************************************************************************)
EXTENDS Naturals

VARIABLES
    request,  \* the status of the request, NONE before it exists
    paid      \* how often its days were charged

lifecycleVars == <<request, paid>>

Submit  == request = "NONE" /\ request' = "PENDING" /\ UNCHANGED paid
Approve == request = "PENDING" /\ request' = "APPROVED" /\ paid' = paid + 1
Decline ==
    /\ request = "PENDING"
    /\ request' \in {"REJECTED", "CANCELLED"}
    /\ UNCHANGED paid

LifecycleSpec ==
    /\ request = "NONE" /\ paid = 0
    /\ [][Submit \/ Approve \/ Decline]_lifecycleVars
=============================================================================
