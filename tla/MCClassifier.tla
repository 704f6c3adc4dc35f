---------------------------- MODULE MCClassifier ----------------------------
(* Instances of Classifier: one monitored address m and two others. *)
EXTENDS Classifier

CONSTANTS m, x, y

MCIPs == {m, x, y}
Flow(s, t) == [src |-> s, dst |-> t]

(* Flows into and out of the monitored network, one more than elements. *)
MCFlows == {Flow(x, m), Flow(m, x), Flow(m, y)}
=============================================================================
