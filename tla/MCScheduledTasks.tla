------------------------- MODULE MCScheduledTasks --------------------------
(* Small instances of ScheduledTasks: one task due every minute, one later. *)
EXTENDS ScheduledTasks

(* Two seconds make a minute.                                              *)
MCMinuteOf == [t \in Seconds |-> t \div 2]
MCDueMinutes == [t \in Tasks |-> IF t = 1 THEN {0, 1} ELSE {1}]
=============================================================================
