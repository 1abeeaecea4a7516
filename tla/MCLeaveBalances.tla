--------------------------- MODULE MCLeaveBalances ---------------------------
(* TLC instances of LeaveBalances: twelve days are scaled down to two. *)
EXTENDS LeaveBalances

CONSTANTS c1, c2
=============================================================================
