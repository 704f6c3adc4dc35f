---------------------------- MODULE MCCollector ----------------------------
(* Instances of Collector: one monitored address m and two others. *)
EXTENDS Collector

CONSTANTS m, x, y

MCIPs == {m, x, y}
Flow(s, t) == [src |-> s, dst |-> t]

(* Flows that cross the boundary of the monitored network. *)
Crossing == {Flow(x, m), Flow(y, m), Flow(m, x)}

(* One flow towards m that is measured, and two that evict each other. *)
Churn == {Flow(x, m), Flow(m, x), Flow(m, y)}

(* One sender. *)
OneWay == {Flow(x, m)}

(* The hash buckets: two flows share one, or each has its own. *)
CrossingBucket == [f \in Crossing |-> IF f = Flow(x, m) THEN 1 ELSE 2]
ChurnBucket ==
  [f \in Churn |-> IF f = Flow(x, m) THEN 1 ELSE IF f = Flow(m, x) THEN 2 ELSE 3]
OneWayBucket == [f \in OneWay |-> 1]
=============================================================================
