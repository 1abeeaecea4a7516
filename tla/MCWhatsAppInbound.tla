-------------------------- MODULE MCWhatsAppInbound --------------------------
(* TLC instances of WhatsAppInbound: what the two messages of a chat say, and  *)
(* the question of the flow the chat is at before them.                        *)
EXTENDS WhatsAppInbound

CONSTANTS m1, m2

Says(k, l, step) == [says |-> [m \in Messages |-> IF m = m1 THEN k ELSE l], step |-> step]
Decisions == {Says("answer", "no", 1), Says("approve", "yes", 0), Says("approve", "reject", 0),
              Says("direct", "cancel", 0), Says("command", "back", 2)}
Answers == {Says("answer", "answer", 1)}
=============================================================================
