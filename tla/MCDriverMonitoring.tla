------------------------- MODULE MCDriverMonitoring -------------------------
(***************************************************************************)
(* DriverMonitoring on a small scale: awareness is four units, of which a  *)
(* frame takes one; the vision policy warns and alarms earlier.            *)
(***************************************************************************)
EXTENDS DriverMonitoring

MCStep == [p \in Policy |-> 1]
MCThreshold1 == [p \in Policy |-> IF p = "vision" THEN 3 ELSE 2]
MCThreshold2 == [p \in Policy |-> IF p = "vision" THEN 2 ELSE 1]
MCLockoutTimes == <<2, 3>>
=============================================================================
