--------------------------- MODULE MCTrafficCurve ---------------------------
(* Moments of four days in a zone that goes to summer time on the second, at  *)
(* two in the morning; among them the midnights of the zone.                  *)
EXTENDS TrafficCurve

InstantsDef == {h * 3600000 : h \in {0, 12, 24, 36, 47, 48, 60, 71}}
OffsetDef == [t \in InstantsDef |-> IF t >= 26 * 3600000 THEN 3600000 ELSE 0]
=============================================================================
