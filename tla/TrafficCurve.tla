---------------------------- MODULE TrafficCurve ----------------------------
(* GET /api/links/:id/traffic: the samples the ledger wrote, added up in      *)
(* buckets of an hour or of a local day (lib/trafficAgg.ts, listSamples of    *)
(* db/monitoringRepo.ts, routes/links.ts).                                    *)
EXTENDS TrafficBuckets, FiniteSetsExt

CONSTANTS
    Volumes,     \* what a sample may count
    MaxSamples   \* bound on the samples written

VARIABLES
    now,
    samples,     \* traffic_samples of one link: ts and bytes
    asked,       \* the query answered last: bucket, from, to
    curve        \* its answer: bytes by bucket

vars == <<now, samples, asked, curve>>

----------------------------------------------------------------------------
(* listSamples.                                                               *)
InRange(from, to) == {s \in samples : s.ts >= from /\ s.ts < to}

Bytes(S) == MapThenSumSet(LAMBDA s : s.bytes, S)

(* aggregateTraffic and toTrafficSeries.                                      *)
Curve(from, to, bucket) ==
    [t \in BucketSeries(from, to, bucket) |->
        Bytes({s \in InRange(from, to) : BucketStart(s.ts, bucket) = t})]

----------------------------------------------------------------------------
Init ==
    /\ now \in Instants
    /\ samples = {}
    /\ asked = [bucket |-> "hour", from |-> now, to |-> now]
    /\ curve = <<>>

Tick ==
    /\ \E t \in Instants : t > now /\ now' = t
    /\ UNCHANGED <<samples, asked, curve>>

Sample ==
    /\ Cardinality(samples) < MaxSamples
    /\ \A s \in samples : s.ts < now
    /\ \E n \in Volumes : samples' = samples \cup {[ts |-> now, bytes |-> n]}
    /\ UNCHANGED <<now, asked, curve>>

Ask(bucket, from) ==
    /\ from < now
    /\ asked' = [bucket |-> bucket, from |-> from, to |-> now]
    /\ curve' = Curve(from, now, bucket)
    /\ UNCHANGED <<now, samples>>

Next ==
    \/ Tick
    \/ Sample
    \/ \E bucket \in Buckets, from \in Instants : Ask(bucket, from)

Spec == Init /\ [][Next]_vars

----------------------------------------------------------------------------
(* The buckets of the curve are complete (trafficAgg.ts:25): when the curve   *)
(* is answered, what it shows adds up to what the samples of the range count. *)
CurveComplete ==
    [][curve' # curve =>
        MapThenSumSet(LAMBDA t : curve'[t], DOMAIN curve')
            = Bytes(InRange(asked'.from, asked'.to))]_vars
=============================================================================
