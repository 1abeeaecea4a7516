------------------------------ MODULE MCOvertime ------------------------------
(***************************************************************************)
(* TLC instances of Overtime: evenings that end before, at and after       *)
(* midnight, and policies that differ in all their rules.                  *)
(***************************************************************************)
EXTENDS Overtime

CONSTANTS c1, r1, r2

Serial == [c \in Callers |-> AllDuties]
Evenings == {[start |-> 20, end |-> 22], [start |-> 21, end |-> 1], [start |-> 19, end |-> 20]}
Midnight == [eligible |-> TRUE, late |-> 22, dayEnd |-> 0, maxDay |-> 4, maxMonth |-> 5]
Rules == {Midnight,
          [eligible |-> TRUE, late |-> 0, dayEnd |-> 2, maxDay |-> 4, maxMonth |-> 4],
          [eligible |-> FALSE, late |-> 22, dayEnd |-> 22, maxDay |-> 2, maxMonth |-> 3]}
OneRule == {Midnight}
=============================================================================
