-------------------------------- MODULE OutboxMC --------------------------------
(* The constants of Outbox for TLC: an event with two handlers, and one of    *)
(* the realtime worker with one.                                              *)
EXTENDS Outbox

CONSTANTS fanout, realtime
MCHandlersOf == [e \in Events |-> IF e = fanout THEN 2 ELSE 1]

================================================================================
