---------------------------- MODULE MCAttendance ----------------------------
(* TLC instances of Attendance: lunch from instant 2, the day ends at 3, midnight is 4. *)
EXTENDS Attendance

CONSTANTS c1, c2

\* Everything in turn, and beside it what creates the row of the day.
Creating == [c \in {c1, c2} |-> IF c = c1 THEN AllOperations ELSE {"markAbsent", "leave"}]

\* Before the day's end, so that punches can still follow it.
ForgottenOut == {<<0, 2>>}

\* HR enters a whole day, or a holiday with a check-out only.
ByHR == {[status |-> "PRESENT", in |-> 1, out |-> 3], [status |-> "HOLIDAY", in |-> 0, out |-> 2]}

\* The device saw nobody, or two stretches the second of which is still open.
ByDevice == {[status |-> "ABSENT", in |-> 0, out |-> 0, list |-> <<>>],
             [status |-> "PRESENT", in |-> 1, out |-> 2, list |-> <<>>],
             [status |-> "PRESENT", in |-> 1, out |-> 2, list |-> <<<<1, 2>>, <<2, 0>>>>]}
=============================================================================
