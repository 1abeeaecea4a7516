---------------------------- MODULE MCLeaveRequest ----------------------------
(* TLC instances of LeaveRequest: a supervisor, an HR manager, the employee. *)
EXTENDS LeaveRequest

CONSTANTS sup, hr, emp, c1, c2

Directory(s, m, h, a) == [SUPERVISOR |-> s, MANAGER |-> m, HR_MANAGER |-> h, ADMIN |-> a]

\* The supervisor leaves and the employee gets a manager who is no supervisor;
\* the requester is promoted to HR manager, or the HR manager to ADMIN.
Reorganised == {Directory({sup}, {}, {hr}, {}), Directory({}, {sup}, {hr}, {}),
                Directory({sup}, {}, {hr, emp}, {}), Directory({sup}, {}, {}, {hr})}
Stable == {Directory({sup}, {}, {hr}, {})}

Workflow(m, s) == [mode |-> m, steps |-> s]
TwoSteps == {Workflow(m, <<"SUPERVISOR", "HR_MANAGER">>) : m \in Modes}
HRTwice == <<"HR_MANAGER", "SUPERVISOR", "HR_MANAGER">>
Chains == TwoSteps \union {Workflow(m, HRTwice) : m \in Modes}
=============================================================================
