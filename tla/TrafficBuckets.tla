--------------------------- MODULE TrafficBuckets ---------------------------
(* The buckets of the traffic curves (lib/trafficAgg.ts): hours and local     *)
(* days.  Offset is the zone of the process: local time minus UTC at each     *)
(* instant.                                                                   *)
EXTENDS Integers

CONSTANTS
    Instants,    \* moments, in epoch ms
    Offset       \* local time minus UTC at each of them, in ms

HOUR_MS == 3600000
DAY_MS == 24 * HOUR_MS
Buckets == {"hour", "day"}

(* The number of the local day of t, and the instant that day began:          *)
(* new Date(d.getFullYear(), d.getMonth(), d.getDate()).                      *)
LocalDay(t) == (t + Offset[t]) \div DAY_MS
DayStart(t) == CHOOSE m \in Instants : m + Offset[m] = LocalDay(t) * DAY_MS

BucketStart(ts, bucket) ==
    IF bucket = "day" THEN DayStart(ts)
    ELSE DayStart(ts) + ((ts - DayStart(ts)) \div HOUR_MS) * HOUR_MS

Step(bucket) == IF bucket = "hour" THEN HOUR_MS ELSE DAY_MS

(* bucketSeries: the values of t in its loop.                                 *)
BucketSeries(from, to, bucket) ==
    LET start == BucketStart(from, bucket)
    IN {start + k * Step(bucket) : k \in 0..((to - 1 - start) \div Step(bucket))}
=============================================================================
