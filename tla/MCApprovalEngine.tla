-------------------------- MODULE MCApprovalEngine --------------------------
(* Instances of ApprovalEngine: a supervisor, an HR manager and the requester. *)
EXTENDS ApprovalEngine

CONSTANTS sup, hr, emp

Stable == {[SUPERVISOR |-> {sup}, MANAGER |-> {}, HR_MANAGER |-> {hr}, ADMIN |-> {}]}

ParallelPair == {[mode |-> "PARALLEL", steps |-> <<"SUPERVISOR", "HR_MANAGER">>]}
=============================================================================
