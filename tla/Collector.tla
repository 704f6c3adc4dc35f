----------------------------- MODULE Collector -----------------------------
(***************************************************************************)
(* The collection loop of main.go: on every tick the main goroutine walks  *)
(* flow_cnt with the iterator of cilium/ebpf, turns counters into rates    *)
(* against the baseline of the previous pass, sums the rates per address,  *)
(* bans the addresses over a threshold and replaces the baseline.  The     *)
(* classifier runs on the other CPUs all the while.                        *)
(*                                                                         *)
(* A rate is a counter difference over deltaTime, the time since the       *)
(* previous pass; deltaTime is common to every rate of a pass, so rates    *)
(* and thresholds are in packets per pass here.                            *)
(***************************************************************************)
EXTENDS FlowMap, Sequences, Functions

CONSTANTS
  Bucket,      \* Bucket[k]: the hash bucket of key k
  NoKey,       \* the iterator's nil cursor
  BanRx,       \* BanPpsRx in packets per pass, 0 = disabled
  BanTx,       \* BanPpsTx
  MaxStrays,   \* bound: packets of other flows that each flow receives, per direction
  MaxPackets   \* bound: packets in a behaviour

ASSUME BucketAssumption == Bucket \in [Flows -> Nat]
(* Addresses have 128 bits, so there are finitely many keys. *)
ASSUME FiniteAssumption == IsFiniteSet(Flows)
ASSUME NoKeyAssumption == NoKey \notin Flows
ASSUME BanAssumption == BanRx \in Nat /\ BanTx \in Nat
ASSUME StraysAssumption == MaxStrays \in Nat /\ MaxPackets \in Nat

VARIABLES
  ahead,       \* the order in the buckets of flow_cnt: <<j, k>> iff j and k are
               \* in one bucket, j nearer to its head
  pc,          \* where the main goroutine is in its loop
  attempt,     \* collectFlowData's attempt, 0 or 1
  cursor,      \* MapIterator.cursor
  visits,      \* MapIterator.count
  flows,       \* iterateFlowMap's flows
  current,     \* iterateFlowMap's currentFlowData
  complete,    \* the pass reached the end of the map
  prevStats,   \* the baseline: counters of the previous pass
  bannedIPs    \* the addresses under a ban

(* History: what the invariants compare the program's numbers with. *)
VARIABLES
  lastCredited,  \* credited[k] when the previous pass sampled k
  curCredited,   \* credited[k] when this pass sampled k
  prevIntact,    \* keys of prevStats whose entry lives since it was sampled
  curIntact,     \* keys of current whose entry lives since it was sampled
  stable         \* keys whose entry lives since the iteration started

trafficVars == <<mapVars, ahead>>
iterVars == <<attempt, cursor, visits, flows, current, complete>>
histVars == <<lastCredited, curCredited, prevIntact, curIntact, stable>>
vars == <<trafficVars, pc, iterVars, prevStats, bannedIPs, histVars>>

-----------------------------------------------------------------------------
(* The operators whose comment starts with "Slip" are plausible mistakes in *)
(* the definition that follows; each one breaks a property below.          *)

(* Slip: an idle flow looks like a reset. *)
CalculateFlowMetricsStrict(cur, prev) ==
  [d \in Dirs |-> IF cur[d] > prev[d] THEN cur[d] - prev[d] ELSE cur[d]]

(* calculateFlowMetrics: a counter below its baseline restarted from 0. *)
CalculateFlowMetrics(cur, prev) ==
  [d \in Dirs |-> IF cur[d] >= prev[d] THEN cur[d] - prev[d] ELSE cur[d]]

(* Slip: a flow without a baseline reports everything it ever counted. *)
FlowDeltaFromZero(k, v) ==
  IF k \in DOMAIN prevStats THEN CalculateFlowMetrics(v, prevStats[k]) ELSE v

(* The change of one flow; without a baseline there is none yet. *)
FlowDelta(k, v) ==
  IF k \in DOMAIN prevStats THEN CalculateFlowMetrics(v, prevStats[k]) ELSE Zero

(* How often aggregateIPStats adds flow f to ip: once per monitored end. *)
Weight(f, ip) == Cardinality({e \in {"src", "dst"} : f[e] = ip /\ IsMonitored(ip)})

(* Slip: the destination's share is left out. *)
AggregateIPStatsSource(fs, ip, d) ==
  SumFunction([i \in DOMAIN fs |-> IF fs[i].key.src = ip THEN fs[i].delta[d] ELSE 0])

(* addStats over all entries of the pass. *)
AggregateIPStats(fs, ip, d) ==
  SumFunction([i \in DOMAIN fs |-> Weight(fs[i].key, ip) * fs[i].delta[d]])

OverThreshold(fs, ip) ==
  \/ BanRx > 0 /\ AggregateIPStats(fs, ip, "rx") > BanRx
  \/ BanTx > 0 /\ AggregateIPStats(fs, ip, "tx") > BanTx

(* Slip: the first sample of a key stays its baseline. *)
UpdatePrevStatsOnce(prev, cur) ==
  [k \in DOMAIN prev \cup DOMAIN cur |-> IF k \in DOMAIN prev THEN prev[k] ELSE cur[k]]

(* Slip: the test is the wrong way round. *)
CleanupStatsInverted(prev, cur) == Restrict(prev, DOMAIN prev \ DOMAIN cur)

(* processMap stores every sample, then cleanupStats drops the keys that *)
(* this pass did not see.                                                *)
UpdatePrevStats(prev, cur) ==
  [k \in DOMAIN prev \cup DOMAIN cur |-> IF k \in DOMAIN cur THEN cur[k] ELSE prev[k]]
CleanupStats(prev, cur) == Restrict(prev, DOMAIN prev \cap DOMAIN cur)

(* The order of a walk: bucket by bucket, and from the head of each. *)
Before(j, k) == Bucket[j] < Bucket[k] \/ <<j, k>> \in ahead

(* BPF_MAP_GET_NEXT_KEY: the keys after the cursor, or all of them when    *)
(* there is no cursor or its entry is gone.                                *)
KeysAfter(c) == {k \in DOMAIN flowMap : c \in DOMAIN flowMap => Before(c, k)}
First(S) == {k \in S : \A j \in S \ {k} : Before(k, j)}

(* A new entry goes to the head of its bucket, an overwritten one as well: *)
(* it is replaced by a new element.                                        *)
PutAtHead(f, victims) ==
  LET gone == victims \cup {f}
      rest == {k \in DOMAIN flowMap \ gone : Bucket[k] = Bucket[f]}
  IN  ahead' = {p \in ahead : p[1] \notin gone /\ p[2] \notin gone}
                 \cup {<<f, k>> : k \in rest}

-----------------------------------------------------------------------------
Init ==
  /\ MapInit
  /\ ahead = {}
  /\ pc = "idle"
  /\ attempt = 0
  /\ cursor = NoKey
  /\ visits = 0
  /\ flows = <<>>
  /\ current = Empty
  /\ complete = FALSE
  /\ prevStats = Empty
  /\ bannedIPs = {}
  /\ lastCredited = [f \in Flows |-> Zero]
  /\ curCredited = Empty
  /\ prevIntact = {}
  /\ curIntact = {}
  /\ stable = {}

(* A packet reaches the classifier on any CPU, at any time.  If the element *)
(* is recycled between its lookup and its addition, it is added to another  *)
(* flow, with a direction that flow need not have.                          *)
PacketOnKnownFlow(f, d) ==
  /\ Counted(f)
  /\ AddToFlow(f, d)
  /\ Credit(f, d)
  /\ d \notin Directions(f) => credited[f][d] < MaxStrays
  /\ UNCHANGED <<ahead, pc, iterVars, prevStats, bannedIPs, histVars>>

PacketOnNewFlow(f, d, victims) ==
  /\ Counted(f)
  /\ CreateFlow(f, d, victims)
  /\ PutAtHead(f, victims)
  /\ Credit(f, d)
  /\ prevIntact' = prevIntact \ (victims \cup {f})
  /\ curIntact' = curIntact \ (victims \cup {f})
  /\ stable' = stable \ (victims \cup {f})
  /\ UNCHANGED <<pc, iterVars, prevStats, bannedIPs, lastCredited, curCredited>>

(* iterateFlowMap from scratch: empty result, fresh iterator. *)
StartIteration(a) ==
  /\ pc' = "next"
  /\ attempt' = a
  /\ cursor' = NoKey
  /\ visits' = 0
  /\ flows' = <<>>
  /\ current' = Empty
  /\ curCredited' = Empty
  /\ curIntact' = {}
  /\ stable' = DOMAIN flowMap
  /\ UNCHANGED <<trafficVars, complete, prevStats, lastCredited, prevIntact>>

(* ticker.C fires: checkExpiredBans lets go of the bans that are due (their *)
(* ages are the subject of BanControl), then processMap starts.             *)
Tick ==
  /\ pc = "idle"
  /\ \E expired \in SUBSET bannedIPs : bannedIPs' = bannedIPs \ expired
  /\ StartIteration(0)

(* Slip: one visit too many before the abort. *)
AdvanceCursorLate ==
  /\ pc = "next"
  /\ visits <= MapSize + 1
  /\ cursor' \in First(KeysAfter(cursor))
  /\ visits' = visits + 1
  /\ pc' = "lookup"
  /\ UNCHANGED <<trafficVars, attempt, flows, current, complete, prevStats, bannedIPs, histVars>>

(* MapIterator.Next, first half: move the cursor. *)
AdvanceCursor ==
  /\ pc = "next"
  /\ visits <= MapSize
  /\ cursor' \in First(KeysAfter(cursor))
  /\ visits' = visits + 1
  /\ pc' = "lookup"
  /\ UNCHANGED <<trafficVars, attempt, flows, current, complete, prevStats, bannedIPs, histVars>>

(* MapIterator.Next, second half, and the loop body of iterateFlowMap. *)
VisitEntry ==
  /\ pc = "lookup"
  /\ cursor \in DOMAIN flowMap
  /\ flows' = Append(flows,
       [key    |-> cursor,
        delta  |-> FlowDelta(cursor, flowMap[cursor]),
        credit |-> [d \in Dirs |-> credited[cursor][d] - lastCredited[cursor][d]],
        exact  |-> cursor \in DOMAIN prevStats /\ cursor \in prevIntact])
  /\ current' = [k \in DOMAIN current \cup {cursor} |->
                   IF k = cursor THEN flowMap[k] ELSE current[k]]
  /\ curCredited' = [k \in DOMAIN current \cup {cursor} |->
                       IF k = cursor THEN credited[k] ELSE curCredited[k]]
  /\ curIntact' = curIntact \cup {cursor}
  /\ pc' = "next"
  /\ UNCHANGED <<trafficVars, attempt, cursor, visits, complete, prevStats, bannedIPs,
                 lastCredited, prevIntact, stable>>

(* The iteration is over; whole iff it reached the end of the map. *)
EndPass(whole) ==
  /\ pc' = "commit"
  /\ complete' = whole
  /\ UNCHANGED <<trafficVars, attempt, cursor, visits, flows, current, prevStats, bannedIPs, histVars>>

(* Slip: a missing entry is taken for the end of the map. *)
VisitMissEnds ==
  /\ pc = "lookup"
  /\ cursor \notin DOMAIN flowMap
  /\ EndPass(TRUE)

(* The entry went away between the two calls: the iterator goes on. *)
VisitMiss ==
  /\ pc = "lookup"
  /\ cursor \notin DOMAIN flowMap
  /\ pc' = "next"
  /\ UNCHANGED <<trafficVars, iterVars, prevStats, bannedIPs, histVars>>

(* ErrKeyNotExist after the last key. *)
EndOfMap ==
  /\ pc = "next"
  /\ visits <= MapSize
  /\ KeysAfter(cursor) = {}
  /\ EndPass(TRUE)

(* ErrIterationAborted: once is retried from scratch ... *)
RetryAborted ==
  /\ pc = "next"
  /\ visits > MapSize
  /\ attempt = 0
  /\ StartIteration(1)
  /\ UNCHANGED bannedIPs

(* ... twice settles for partial data, ... *)
SettleForPartial ==
  /\ pc = "next"
  /\ visits > MapSize
  /\ attempt = 1
  /\ EndPass(FALSE)

(* ... and any other error of the two map calls is logged and not retried. *)
IterationError ==
  /\ pc \in {"next", "lookup"}
  /\ pc = "next" => visits <= MapSize
  /\ EndPass(FALSE)

(* The rest of processMap. *)
Commit ==
  /\ pc = "commit"
  /\ bannedIPs' = bannedIPs \cup {ip \in IPs : OverThreshold(flows, ip)}
  /\ prevStats' = CleanupStats(UpdatePrevStats(prevStats, current), current)
  /\ lastCredited' = [k \in Flows |->
                        IF k \in DOMAIN current THEN curCredited[k] ELSE credited[k]]
  /\ prevIntact' = curIntact
  /\ pc' = "idle"
  /\ attempt' = 0
  /\ cursor' = NoKey
  /\ visits' = 0
  /\ flows' = <<>>
  /\ current' = Empty
  /\ complete' = FALSE
  /\ curCredited' = Empty
  /\ curIntact' = {}
  /\ stable' = {}
  /\ UNCHANGED trafficVars

Packets == SumFunction([f \in Flows |-> credited[f]["rx"] + credited[f]["tx"]])

Traffic ==
  /\ Packets < MaxPackets
  /\ \E f \in Flows :
       \/ \E d \in Dirs : PacketOnKnownFlow(f, d)
       \/ \E d \in Directions(f) : \E victims \in SUBSET DOMAIN flowMap :
            PacketOnNewFlow(f, d, victims)

ProcessMap ==
  \/ AdvanceCursor \/ VisitEntry \/ VisitMiss
  \/ EndOfMap \/ RetryAborted \/ SettleForPartial \/ IterationError
  \/ Commit

Next == Traffic \/ Tick \/ ProcessMap

Spec == Init /\ [][Next]_vars

-----------------------------------------------------------------------------
(* What a perfect collector would hold against the thresholds: the packets *)
(* the classifier credited to the flows of ip since the previous sample.   *)
CreditedTo(cred, ip, d) ==
  SumFunction([f \in Flows |-> Weight(f, ip) * (cred[f][d] - lastCredited[f][d])])

CreditedOver(cred, ip) ==
  \/ BanRx > 0 /\ CreditedTo(cred, ip, "rx") > BanRx
  \/ BanTx > 0 /\ CreditedTo(cred, ip, "tx") > BanTx

(* The part this pass is certain of: the flows whose entry lived from the *)
(* previous sample, through all of this pass.                             *)
Survived ==
  [f \in Flows |-> IF f \in stable \cap prevIntact THEN curCredited[f] ELSE lastCredited[f]]

(* The part of an aggregate that travelled towards ip. *)
ReceivedBy(fs, ip, d) ==
  SumFunction([i \in DOMAIN fs |->
    IF fs[i].key.dst = ip /\ IsMonitored(ip) THEN fs[i].delta[d] ELSE 0])

-----------------------------------------------------------------------------
Entries == [key : Flows, delta : Counters, credit : Counters, exact : BOOLEAN]

(* The variables hold what the program can hold.  The iterator does at most *)
(* max_entries + 1 lookups in a pass, however often the map restarts it.    *)
TypeOK ==
  /\ MapTypeOK
  /\ ahead \subseteq (DOMAIN flowMap) \X (DOMAIN flowMap)
  /\ pc \in {"idle", "next", "lookup", "commit"}
  /\ attempt \in {0, 1}
  /\ cursor \in Flows \cup {NoKey}
  /\ pc = "lookup" => cursor \in Flows
  /\ visits \in 0 .. MapSize + 1
  /\ flows \in Seq(Entries)
  /\ DOMAIN current \subseteq Flows
  /\ current \in [DOMAIN current -> Counters]
  /\ complete \in BOOLEAN
  /\ DOMAIN prevStats \subseteq Flows
  /\ prevStats \in [DOMAIN prevStats -> Counters]
  /\ bannedIPs \subseteq IPs
  /\ lastCredited \in [Flows -> Counters]
  /\ curCredited \in [DOMAIN current -> Counters]
  /\ prevIntact \subseteq Flows
  /\ curIntact \subseteq Flows
  /\ stable \subseteq Flows

(* A flow's rate never exceeds what the classifier added under its key     *)
(* since the previous pass, whatever was evicted, recreated or overwritten *)
(* in between: calculateFlowMetrics mistakes a recreated counter for an    *)
(* old one only downwards, and cleanupStats leaves no older baseline.      *)
NoOverReport ==
  \A i \in 1 .. Len(flows) : \A d \in Dirs : flows[i].delta[d] <= flows[i].credit[d]

(* A flow whose entry lived through the interval is measured to the packet. *)
ExactWhenIntact ==
  \A i \in 1 .. Len(flows) : flows[i].exact => flows[i].delta = flows[i].credit

(* A pass that reached the end of the map saw every entry that was there   *)
(* from its start to its end, though evictions restarted the iterator.     *)
CompletePass ==
  (pc = "commit" /\ complete) => stable \subseteq DOMAIN current

(* A complete pass bans every address that is over a threshold by the      *)
(* traffic of the flows whose entry survived alone: neither eviction of    *)
(* other flows nor restarts of the iterator hide it.                       *)
NoMissedBan ==
  [][\A ip \in IPs :
       (/\ pc = "commit" /\ pc' = "idle"
        /\ complete /\ CreditedOver(Survived, ip))
       => ip \in bannedIPs']_vars

(* When no key was visited twice, an address over a threshold did have the *)
(* traffic for it.                                                         *)
BanMatchesTraffic ==
  (pc = "commit" /\ Cardinality(DOMAIN current) = Len(flows)) =>
    \A ip \in IPs : OverThreshold(flows, ip) => CreditedOver(credited, ip)

(* The same without the proviso, which is what -ban-pps-rx promises. *)
BanOnlyOverThreshold ==
  pc = "commit" => \A ip \in IPs : OverThreshold(flows, ip) => CreditedOver(credited, ip)

(* The flows to which a recycled element has brought packets of others. *)
Strayed == {f \in Flows : \E d \in Dirs \ Directions(f) : credited[f][d] > 0}

(* The rx side of an address's aggregate holds flows towards it and no     *)
(* others, whichever hook saw their packets.  Exempt are an address that   *)
(* talks to another monitored one, as their flow is charged to both, and   *)
(* one whose own flows have received strays; what strays into the flows    *)
(* towards it does not matter.                                             *)
RxMeansReceived ==
  pc = "commit" =>
    LET charged == {f \in Flows : IsMonitored(f.src) /\ IsMonitored(f.dst)}
        exempt == {f.src : f \in charged \cup Strayed}
    IN  \A ip \in IPs \ exempt :
          AggregateIPStats(flows, ip, "rx") = ReceivedBy(flows, ip, "rx")

(* What -ban-pps-rx says of any mode: it bans who receives too much. *)
RxBanMeansReceiving ==
  pc = "commit" =>
    \A ip \in IPs : (BanRx > 0 /\ AggregateIPStats(flows, ip, "rx") > BanRx)
                       => ReceivedBy(flows, ip, "rx") > BanRx
=============================================================================
