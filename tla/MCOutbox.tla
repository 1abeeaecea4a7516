------------------------------- MODULE MCOutbox -------------------------------
(* TLC instances of Outbox: a plain notification, one with buttons, one direct. *)
EXTENDS Outbox

CONSTANTS note, ask, login, p1, p2
=============================================================================
