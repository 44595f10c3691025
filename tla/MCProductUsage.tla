--------------------------- MODULE MCProductUsage ---------------------------
(***************************************************************************)
(* Instances of ProductUsage for TLC.  Request q2 retries with the key of  *)
(* q1; the small quotas are reached by two or three units.                 *)
(***************************************************************************)
EXTENDS ProductUsage

CONSTANTS q1, q2, q3, k1, k2

AllDetections == [q \in Request |-> "detection"]

RetriedKey == [q \in Request |-> IF q = q3 THEN k2 ELSE k1]

FreeOneProTwo == [p \in Plan |-> [m \in Meter |-> IF p = "free" THEN 1 ELSE 2]]
=============================================================================
