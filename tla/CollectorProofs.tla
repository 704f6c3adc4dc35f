-------------------------- MODULE CollectorProofs --------------------------
(***************************************************************************)
(* Theorems about Collector, for every set of flows, every map size and    *)
(* every bound.                                                            *)
(*                                                                         *)
(* NoOverReport compares what a pass computed with what the classifier     *)
(* credited, so its strengthening ties every baseline to the counters:     *)
(* Accounted says it of the samples of one pass, and is needed twice, for  *)
(* the previous pass (prevStats) and for the one under way (current).      *)
(* CompletePass needs to know how far the iterator is (PassInv), and that  *)
(* the entries of a bucket stand in a line (OrderInv).                     *)
(***************************************************************************)
EXTENDS Collector, SequenceTheorems, TLAPS

(* samples were taken when the credit stood at sampledAt: an entry of map  *)
(* that lived since has grown by what was credited since, one recreated    *)
(* since holds no more than that.                                          *)
Accounted(map, cred, samples, sampledAt, intact) ==
  \A k \in DOMAIN samples : \A d \in Dirs :
    /\ sampledAt[k][d] <= cred[k][d]
    /\ k \in DOMAIN map =>
         IF k \in intact
         THEN map[k][d] + sampledAt[k][d] = samples[k][d] + cred[k][d]
         ELSE map[k][d] + sampledAt[k][d] <= cred[k][d]

(* A counter never holds more than was credited. *)
MapBound == \A k \in DOMAIN flowMap : \A d \in Dirs : flowMap[k][d] <= credited[k][d]

(* The interval being measured starts in the past. *)
IntervalStarted == \A k \in Flows : \A d \in Dirs : lastCredited[k][d] <= credited[k][d]

AccountInv ==
  /\ TypeOK
  /\ MapBound
  /\ IntervalStarted
  /\ Accounted(flowMap, credited, prevStats, lastCredited, prevIntact)
  /\ Accounted(flowMap, credited, current, curCredited, curIntact)
  /\ NoOverReport
  /\ ExactWhenIntact

(* Each bucket is a list. *)
OrderInv ==
  /\ \A j, k \in DOMAIN flowMap : <<j, k>> \in ahead => Bucket[j] = Bucket[k]
  /\ \A j, k \in DOMAIN flowMap : <<j, k>> \in ahead => <<k, j>> \notin ahead
  /\ \A i, j, k \in DOMAIN flowMap :
       (<<i, j>> \in ahead /\ <<j, k>> \in ahead) => <<i, k>> \in ahead
  /\ \A j, k \in DOMAIN flowMap :
       (j # k /\ Bucket[j] = Bucket[k]) => (<<j, k>> \in ahead \/ <<k, j>> \in ahead)

(* The entries the iterator has passed are in the result. *)
PassInv ==
  /\ stable \subseteq DOMAIN flowMap
  /\ pc = "next" => \A k \in stable :
       (cursor \in Flows /\ (k = cursor \/ Before(k, cursor))) => k \in DOMAIN current
  /\ pc = "lookup" => \A k \in stable :
       Before(k, cursor) => k \in DOMAIN current
  /\ CompletePass

-----------------------------------------------------------------------------
(* A packet counts in one direction. *)
LEMMA DirectionInDirs ==
  ASSUME NEW f
  PROVE  Directions(f) \subseteq Dirs
BY DEF Directions, Direction, Dirs

LEMMA CountersType ==
  /\ Zero \in Counters
  /\ \A c \in Counters, d \in Dirs : Bump(c, d) \in Counters
BY DEF Zero, Counters, Bump

LEMMA BumpValue ==
  ASSUME NEW c \in Counters, NEW d \in Dirs, NEW e \in Dirs
  PROVE  Bump(c, d)[e] = IF e = d THEN c[e] + 1 ELSE c[e]
BY DEF Counters, Bump

(* An atomic add on an entry keeps the account of every earlier sample. *)
LEMMA AddKeepsAccount ==
  ASSUME NEW map, DOMAIN map \subseteq Flows, map \in [DOMAIN map -> Counters],
         NEW cred \in [Flows -> Counters], NEW sampledAt, NEW intact,
         NEW samples, DOMAIN samples \subseteq Flows,
         samples \in [DOMAIN samples -> Counters],
         sampledAt \in [DOMAIN samples -> Counters] \cup [Flows -> Counters],
         NEW f \in DOMAIN map, NEW d \in Dirs,
         Accounted(map, cred, samples, sampledAt, intact)
  PROVE  Accounted([map EXCEPT ![f] = Bump(@, d)], [cred EXCEPT ![f] = Bump(@, d)],
                   samples, sampledAt, intact)
<1> DEFINE map2 == [map EXCEPT ![f] = Bump(@, d)]
           cred2 == [cred EXCEPT ![f] = Bump(@, d)]
<1> SUFFICES ASSUME NEW k \in DOMAIN samples, NEW e \in Dirs
             PROVE  /\ sampledAt[k][e] <= cred2[k][e]
                    /\ k \in DOMAIN map2 =>
                         IF k \in intact
                         THEN map2[k][e] + sampledAt[k][e] = samples[k][e] + cred2[k][e]
                         ELSE map2[k][e] + sampledAt[k][e] <= cred2[k][e]
  BY DEF Accounted
<1>1. /\ DOMAIN map2 = DOMAIN map
      /\ k \in Flows
      /\ cred[k][e] \in Nat /\ sampledAt[k][e] \in Nat /\ samples[k][e] \in Nat
      /\ k \in DOMAIN map => map[k][e] \in Nat
  BY DEF Counters
<1>2. /\ sampledAt[k][e] <= cred[k][e]
      /\ k \in DOMAIN map =>
           IF k \in intact
           THEN map[k][e] + sampledAt[k][e] = samples[k][e] + cred[k][e]
           ELSE map[k][e] + sampledAt[k][e] <= cred[k][e]
  BY DEF Accounted
<1>3. CASE k = f /\ e = d
  <2>1. cred2[k][e] = cred[k][e] + 1 /\ map2[k][e] = map[k][e] + 1
    BY <1>3, <1>1, BumpValue
  <2> QED  BY <1>1, <1>2, <2>1
<1>4. CASE ~(k = f /\ e = d)
  <2>1. cred2[k][e] = cred[k][e]
    BY <1>4, <1>1, BumpValue
  <2>2. k \in DOMAIN map => map2[k][e] = map[k][e]
    BY <1>4, <1>1, BumpValue
  <2> QED  BY <1>1, <1>2, <2>1, <2>2
<1> QED  BY <1>3, <1>4

(* So does a fresh entry, which is then no longer the one sampled. *)
LEMMA CreateKeepsAccount ==
  ASSUME NEW map, DOMAIN map \subseteq Flows, map \in [DOMAIN map -> Counters],
         NEW cred \in [Flows -> Counters], NEW sampledAt, NEW intact,
         NEW samples, DOMAIN samples \subseteq Flows,
         samples \in [DOMAIN samples -> Counters],
         sampledAt \in [DOMAIN samples -> Counters] \cup [Flows -> Counters],
         NEW f \in Flows, NEW d \in Dirs, NEW victims,
         Accounted(map, cred, samples, sampledAt, intact)
  PROVE  Accounted([k \in (DOMAIN map \ victims) \cup {f} |->
                      IF k = f THEN Bump(Zero, d) ELSE map[k]],
                   [cred EXCEPT ![f] = Bump(@, d)],
                   samples, sampledAt, intact \ (victims \cup {f}))
<1> DEFINE map2 == [k \in (DOMAIN map \ victims) \cup {f} |->
                      IF k = f THEN Bump(Zero, d) ELSE map[k]]
           cred2 == [cred EXCEPT ![f] = Bump(@, d)]
           intact2 == intact \ (victims \cup {f})
<1> SUFFICES ASSUME NEW k \in DOMAIN samples, NEW e \in Dirs
             PROVE  /\ sampledAt[k][e] <= cred2[k][e]
                    /\ k \in DOMAIN map2 =>
                         IF k \in intact2
                         THEN map2[k][e] + sampledAt[k][e] = samples[k][e] + cred2[k][e]
                         ELSE map2[k][e] + sampledAt[k][e] <= cred2[k][e]
  BY DEF Accounted
<1>1. /\ k \in Flows
      /\ cred[k][e] \in Nat /\ sampledAt[k][e] \in Nat /\ samples[k][e] \in Nat
      /\ k \in DOMAIN map => map[k][e] \in Nat
  BY DEF Counters
<1>2. /\ sampledAt[k][e] <= cred[k][e]
      /\ k \in DOMAIN map =>
           IF k \in intact
           THEN map[k][e] + sampledAt[k][e] = samples[k][e] + cred[k][e]
           ELSE map[k][e] + sampledAt[k][e] <= cred[k][e]
  BY DEF Accounted
<1>3. CASE k = f
  <2>1. cred2[k][e] = IF e = d THEN cred[k][e] + 1 ELSE cred[k][e]
    BY <1>3, <1>1, BumpValue
  <2>2. map2[k][e] = IF e = d THEN 1 ELSE 0
    BY <1>3, BumpValue, CountersType DEF Zero
  <2>3. k \notin intact2
    BY <1>3
  <2> QED  BY <1>1, <1>2, <2>1, <2>2, <2>3
<1>4. CASE k # f
  <2>1. cred2[k][e] = cred[k][e]
    BY <1>4, <1>1
  <2>2. k \in DOMAIN map2 => /\ k \in DOMAIN map
                             /\ map2[k][e] = map[k][e]
                             /\ k \in intact2 <=> k \in intact
    BY <1>4
  <2> QED  BY <1>1, <1>2, <2>1, <2>2
<1> QED  BY <1>3, <1>4
-----------------------------------------------------------------------------
LEMMA AccountInit == Init => AccountInv
<1> SUFFICES ASSUME Init PROVE AccountInv
  OBVIOUS
<1> USE CountersType, BoundsAssumption
<1>1. TypeOK
  <2>1. MapTypeOK
    BY DEF Init, MapInit, MapTypeOK, Empty
  <2>2. DOMAIN Empty = {} /\ Empty \in [{} -> Counters] /\ ahead = {}
    BY DEF Empty, Init
  <2>3. <<>> \in Seq(Entries) /\ visits \in 0 .. MapSize + 1
    BY DEF Init
  <2> QED
    BY <2>1, <2>2, <2>3 DEF Init, TypeOK
<1>2. MapBound /\ NoOverReport /\ ExactWhenIntact
  BY DEF Init, MapInit, Empty, MapBound, NoOverReport, ExactWhenIntact
<1>3. IntervalStarted
  BY DEF Init, MapInit, IntervalStarted, Zero
<1>4. /\ Accounted(flowMap, credited, prevStats, lastCredited, prevIntact)
      /\ Accounted(flowMap, credited, current, curCredited, curIntact)
  BY DEF Init, Accounted, Empty
<1> QED
  BY <1>1, <1>2, <1>3, <1>4 DEF AccountInv

(* A packet moves the counters and the credit together, and no sample. *)
LEMMA KnownFlowKeepsAccount ==
  ASSUME AccountInv, NEW f \in Flows, NEW d \in Dirs, PacketOnKnownFlow(f, d)
  PROVE  AccountInv'
<1>1. /\ f \in DOMAIN flowMap /\ ahead' = ahead
      /\ flowMap' = [flowMap EXCEPT ![f] = Bump(@, d)]
      /\ credited' = [credited EXCEPT ![f] = Bump(@, d)]
      /\ UNCHANGED <<pc, iterVars, prevStats, bannedIPs, histVars>>
  BY DEF PacketOnKnownFlow, AddToFlow, Credit
<1>2. /\ TypeOK /\ MapTypeOK
      /\ Accounted(flowMap, credited, prevStats, lastCredited, prevIntact)
      /\ Accounted(flowMap, credited, current, curCredited, curIntact)
  BY DEF AccountInv, TypeOK
<1>3. TypeOK'
  <2>1. MapTypeOK'
    <3>1. flowMap[f] \in Counters /\ credited[f] \in Counters
      BY <1>1, <1>2 DEF MapTypeOK
    <3>2. Bump(flowMap[f], d) \in Counters /\ Bump(credited[f], d) \in Counters
      BY <1>1, <3>1, CountersType
    <3> QED
      BY <1>1, <1>2, <3>2 DEF MapTypeOK
  <2> QED
    BY <1>1, <1>2, <2>1 DEF TypeOK, iterVars, histVars
<1>4. MapBound' /\ IntervalStarted'
  <2>1. ASSUME NEW k \in Flows, NEW e \in Dirs
        PROVE  /\ credited'[k][e] = IF k = f /\ e = d THEN credited[k][e] + 1 ELSE credited[k][e]
               /\ k \in DOMAIN flowMap =>
                    flowMap'[k][e] = IF k = f /\ e = d THEN flowMap[k][e] + 1 ELSE flowMap[k][e]
    BY <1>1, <1>2, BumpValue DEF MapTypeOK
  <2>2. DOMAIN flowMap' = DOMAIN flowMap /\ DOMAIN flowMap \subseteq Flows
    BY <1>1, <1>2 DEF MapTypeOK
  <2>3. /\ \A k \in Flows : \A e \in Dirs :
             credited[k][e] \in Nat /\ lastCredited[k][e] \in Nat
        /\ \A k \in DOMAIN flowMap : \A e \in Dirs : flowMap[k][e] \in Nat
    BY <1>2 DEF MapTypeOK, TypeOK, Counters
  <2>4. MapBound'
    BY <2>1, <2>2, <2>3 DEF AccountInv, MapBound
  <2>5. IntervalStarted'
    <3>1. lastCredited' = lastCredited
      BY <1>1 DEF histVars
    <3> QED
      BY <2>1, <2>3, <3>1 DEF AccountInv, IntervalStarted
  <2> QED
    BY <2>4, <2>5
<1>5. Accounted(flowMap, credited, prevStats, lastCredited, prevIntact)'
  <2>1. Accounted(flowMap', credited', prevStats, lastCredited, prevIntact)
    BY <1>1, <1>2, AddKeepsAccount DEF TypeOK, MapTypeOK
  <2> QED
    BY <1>1, <2>1 DEF histVars
<1>6. Accounted(flowMap, credited, current, curCredited, curIntact)'
  <2>1. Accounted(flowMap', credited', current, curCredited, curIntact)
    BY <1>1, <1>2, AddKeepsAccount DEF TypeOK, MapTypeOK
  <2> QED
    BY <1>1, <2>1 DEF histVars, iterVars
<1>7. NoOverReport' /\ ExactWhenIntact'
  BY <1>1 DEF AccountInv, NoOverReport, ExactWhenIntact, iterVars
<1> QED
  BY <1>3, <1>4, <1>5, <1>6, <1>7 DEF AccountInv

LEMMA NewFlowKeepsAccount ==
  ASSUME AccountInv, NEW f \in Flows, NEW d \in Directions(f),
         NEW victims \in SUBSET DOMAIN flowMap, PacketOnNewFlow(f, d, victims)
  PROVE  AccountInv'
<1>1. /\ d \in Dirs
      /\ flowMap' = [k \in (DOMAIN flowMap \ victims) \cup {f} |->
                       IF k = f THEN Bump(Zero, d) ELSE flowMap[k]]
      /\ credited' = [credited EXCEPT ![f] = Bump(@, d)]
      /\ prevIntact' = prevIntact \ (victims \cup {f})
      /\ curIntact' = curIntact \ (victims \cup {f})
      /\ stable' = stable \ (victims \cup {f})
      /\ UNCHANGED <<pc, iterVars, prevStats, bannedIPs, lastCredited, curCredited>>
  BY DirectionInDirs DEF PacketOnNewFlow, CreateFlow, Credit
<1>2. /\ TypeOK /\ MapTypeOK
      /\ Accounted(flowMap, credited, prevStats, lastCredited, prevIntact)
      /\ Accounted(flowMap, credited, current, curCredited, curIntact)
  BY DEF AccountInv, TypeOK
<1>3. TypeOK'
  <2>1. MapTypeOK'
    <3>1. credited[f] \in Counters
      BY <1>1, <1>2 DEF MapTypeOK
    <3>2. Bump(Zero, d) \in Counters /\ Bump(credited[f], d) \in Counters
      BY <1>1, <3>1, CountersType
    <3>3. DOMAIN flowMap' = (DOMAIN flowMap \ victims) \cup {f}
      BY <1>1
    <3>4. \A k \in DOMAIN flowMap' : flowMap'[k] \in Counters
      BY <1>1, <1>2, <3>2 DEF MapTypeOK
    <3>5. flowMap' \in [DOMAIN flowMap' -> Counters]
      BY <1>1, <3>3, <3>4
    <3> QED
      BY <1>1, <1>2, <3>2, <3>3, <3>5 DEF MapTypeOK
  <2>2. (ahead \subseteq (DOMAIN flowMap) \X (DOMAIN flowMap))'
    <3> DEFINE keys == DOMAIN flowMap
               gone == victims \cup {f}
    <3>1. keys' = (keys \ victims) \cup {f}
      BY <1>1
    <3>2. ahead \subseteq keys \X keys
      BY <1>2 DEF TypeOK
    <3>3. ahead' = {p \in ahead : p[1] \notin gone /\ p[2] \notin gone}
                     \cup {<<f, k>> : k \in {k \in keys \ gone : Bucket[k] = Bucket[f]}}
      BY DEF PacketOnNewFlow, PutAtHead
    <3> HIDE DEF keys, gone
    <3>4. gone = victims \cup {f}
      BY DEF gone
    <3>5. \A p \in ahead' : p \in keys' \X keys'
      BY <3>1, <3>2, <3>3, <3>4
    <3> QED
      BY <3>5 DEF keys
  <2> QED
    BY <1>1, <1>2, <2>1, <2>2 DEF TypeOK, iterVars
<1>4. MapBound' /\ IntervalStarted'
  <2>1. ASSUME NEW k \in Flows, NEW e \in Dirs
        PROVE  /\ credited'[k][e] = IF k = f /\ e = d THEN credited[k][e] + 1 ELSE credited[k][e]
               /\ k \in DOMAIN flowMap' =>
                    IF k = f THEN flowMap'[k][e] = IF e = d THEN 1 ELSE 0
                             ELSE k \in DOMAIN flowMap /\ flowMap'[k][e] = flowMap[k][e]
    BY <1>1, <1>2, BumpValue, CountersType DEF MapTypeOK, Zero
  <2>2. DOMAIN flowMap' \subseteq Flows
    BY <1>3 DEF TypeOK, MapTypeOK
  <2>3. /\ \A k \in Flows : \A e \in Dirs :
             credited[k][e] \in Nat /\ lastCredited[k][e] \in Nat
        /\ \A k \in DOMAIN flowMap : \A e \in Dirs : flowMap[k][e] \in Nat
    BY <1>2 DEF MapTypeOK, TypeOK, Counters
  <2>4. MapBound'
    BY <2>1, <2>2, <2>3 DEF AccountInv, MapBound
  <2>5. IntervalStarted'
    <3>1. lastCredited' = lastCredited
      BY <1>1
    <3>2. \A k \in Flows : \A e \in Dirs : credited[k][e] <= credited'[k][e]
      BY <2>1, <2>3
    <3>3. \A k \in Flows : \A e \in Dirs : credited'[k][e] \in Nat
      BY <2>1, <2>3
    <3> QED
      BY <2>3, <3>1, <3>2, <3>3 DEF AccountInv, IntervalStarted
  <2> QED
    BY <2>4, <2>5
<1>5. Accounted(flowMap, credited, prevStats, lastCredited, prevIntact)'
  <2>1. /\ DOMAIN flowMap \subseteq Flows /\ flowMap \in [DOMAIN flowMap -> Counters]
        /\ credited \in [Flows -> Counters]
        /\ DOMAIN prevStats \subseteq Flows
        /\ prevStats \in [DOMAIN prevStats -> Counters] /\ lastCredited \in [Flows -> Counters]
    BY <1>2 DEF TypeOK, MapTypeOK
  <2>2. Accounted(flowMap', credited', prevStats, lastCredited, prevIntact')
    BY <1>1, <1>2, <2>1, CreateKeepsAccount
  <2> QED
    BY <1>1, <2>2
<1>6. Accounted(flowMap, credited, current, curCredited, curIntact)'
  <2>1. /\ DOMAIN flowMap \subseteq Flows /\ flowMap \in [DOMAIN flowMap -> Counters]
        /\ credited \in [Flows -> Counters]
        /\ DOMAIN current \subseteq Flows
        /\ current \in [DOMAIN current -> Counters] /\ curCredited \in [DOMAIN current -> Counters]
    BY <1>2 DEF TypeOK, MapTypeOK
  <2>2. Accounted(flowMap', credited', current, curCredited, curIntact')
    BY <1>1, <1>2, <2>1, CreateKeepsAccount
  <2> QED
    BY <1>1, <2>2 DEF iterVars
<1>7. NoOverReport' /\ ExactWhenIntact'
  BY <1>1 DEF AccountInv, NoOverReport, ExactWhenIntact, iterVars
<1> QED
  BY <1>3, <1>4, <1>5, <1>6, <1>7 DEF AccountInv

(* VisitEntry takes one sample: FlowDelta stays within the credit whatever *)
(* became of the entry since its baseline, and equals it if it lived.      *)
LEMMA DeltaBounded ==
  ASSUME AccountInv, NEW k \in DOMAIN flowMap
  PROVE  /\ FlowDelta(k, flowMap[k]) \in Counters
         /\ \A d \in Dirs : FlowDelta(k, flowMap[k])[d] <= credited[k][d] - lastCredited[k][d]
         /\ (k \in DOMAIN prevStats /\ k \in prevIntact) =>
              \A d \in Dirs : FlowDelta(k, flowMap[k])[d] = credited[k][d] - lastCredited[k][d]
<1>1. /\ k \in Flows
      /\ \A d \in Dirs : /\ flowMap[k][d] \in Nat
                         /\ credited[k][d] \in Nat
                         /\ lastCredited[k][d] \in Nat
                         /\ lastCredited[k][d] <= credited[k][d]
  BY DEF AccountInv, TypeOK, MapTypeOK, Counters, IntervalStarted
<1>2. CASE k \notin DOMAIN prevStats
  BY <1>1, <1>2 DEF FlowDelta, Zero, Counters
<1>3. CASE k \in DOMAIN prevStats
  <2>1. \A d \in Dirs : prevStats[k][d] \in Nat
    BY <1>3 DEF AccountInv, TypeOK, Counters
  <2>2. \A d \in Dirs :
           IF k \in prevIntact
           THEN flowMap[k][d] + lastCredited[k][d] = prevStats[k][d] + credited[k][d]
           ELSE flowMap[k][d] + lastCredited[k][d] <= credited[k][d]
    BY <1>3 DEF AccountInv, Accounted
  <2>3. FlowDelta(k, flowMap[k]) =
          [d \in Dirs |-> IF flowMap[k][d] >= prevStats[k][d]
                          THEN flowMap[k][d] - prevStats[k][d] ELSE flowMap[k][d]]
    BY <1>3 DEF FlowDelta, CalculateFlowMetrics
  <2>4. \A d \in Dirs :
          /\ FlowDelta(k, flowMap[k])[d] \in Nat
          /\ FlowDelta(k, flowMap[k])[d] <= credited[k][d] - lastCredited[k][d]
          /\ k \in prevIntact =>
               FlowDelta(k, flowMap[k])[d] = credited[k][d] - lastCredited[k][d]
    <3> TAKE d \in Dirs
    <3> DEFINE cur == flowMap[k][d]
               prev == prevStats[k][d]
               now == credited[k][d]
               last == lastCredited[k][d]
    <3>1. /\ cur \in Nat /\ prev \in Nat /\ now \in Nat /\ last \in Nat
          /\ last <= now
          /\ IF k \in prevIntact THEN cur + last = prev + now ELSE cur + last <= now
      BY <1>1, <2>1, <2>2
    <3>2. FlowDelta(k, flowMap[k])[d] = IF cur >= prev THEN cur - prev ELSE cur
      BY <2>3
    <3> HIDE DEF cur, prev, now, last
    <3>3. /\ FlowDelta(k, flowMap[k])[d] \in Nat
          /\ FlowDelta(k, flowMap[k])[d] <= now - last
          /\ k \in prevIntact => FlowDelta(k, flowMap[k])[d] = now - last
      BY <3>1, <3>2
    <3> QED
      BY <3>3 DEF now, last
  <2>5. FlowDelta(k, flowMap[k]) \in Counters
    BY <2>3, <2>4 DEF Counters
  <2> QED
    BY <2>4, <2>5
<1> QED
  BY <1>2, <1>3

LEMMA VisitKeepsAccount ==
  ASSUME AccountInv, VisitEntry
  PROVE  AccountInv'
<1> DEFINE e == [key    |-> cursor,
                 delta  |-> FlowDelta(cursor, flowMap[cursor]),
                 credit |-> [d \in Dirs |-> credited[cursor][d] - lastCredited[cursor][d]],
                 exact  |-> cursor \in DOMAIN prevStats /\ cursor \in prevIntact]
<1>1. /\ cursor \in DOMAIN flowMap /\ pc' = "next"
      /\ flows' = Append(flows, e)
      /\ current' = [k \in DOMAIN current \cup {cursor} |->
                       IF k = cursor THEN flowMap[k] ELSE current[k]]
      /\ curCredited' = [k \in DOMAIN current \cup {cursor} |->
                           IF k = cursor THEN credited[k] ELSE curCredited[k]]
      /\ curIntact' = curIntact \cup {cursor}
      /\ UNCHANGED <<trafficVars, attempt, cursor, visits, complete, prevStats, bannedIPs,
                     lastCredited, prevIntact, stable>>
  BY DEF VisitEntry
<1>2. TypeOK /\ MapTypeOK /\ cursor \in Flows
  BY <1>1 DEF AccountInv, TypeOK, MapTypeOK
<1>3. /\ e \in Entries
      /\ \A d \in Dirs : e.delta[d] <= e.credit[d]
      /\ e.exact => e.delta = e.credit
  <2>1. \A d \in Dirs : /\ credited[cursor][d] \in Nat /\ lastCredited[cursor][d] \in Nat
                        /\ lastCredited[cursor][d] <= credited[cursor][d]
    BY <1>2 DEF AccountInv, TypeOK, MapTypeOK, Counters, IntervalStarted
  <2>2. e.credit \in Counters
    BY <2>1 DEF Counters
  <2>3. e.delta \in Counters
    BY <1>1, DeltaBounded
  <2>4. \A d \in Dirs : e.delta[d] <= e.credit[d]
    BY <1>1, DeltaBounded
  <2>5. ASSUME e.exact PROVE e.delta = e.credit
    <3>1. \A d \in Dirs : e.delta[d] = e.credit[d]
      BY <1>1, <2>5, DeltaBounded
    <3> QED
      BY <2>2, <2>3, <3>1 DEF Counters
  <2>6. e.exact \in BOOLEAN
    OBVIOUS
  <2> QED
    BY <1>2, <2>2, <2>3, <2>4, <2>5, <2>6 DEF Entries
<1> HIDE DEF e
<1>4. /\ flows' \in Seq(Entries)
      /\ Len(flows') = Len(flows) + 1
      /\ \A i \in 1 .. Len(flows) : flows'[i] = flows[i]
      /\ flows'[Len(flows) + 1] = e
  BY <1>1, <1>2, <1>3, AppendProperties DEF TypeOK
<1>5. Len(flows) \in Nat
  BY <1>2, LenProperties DEF TypeOK
<1>6. NoOverReport' /\ ExactWhenIntact'
  <2>1. ASSUME NEW i \in 1 .. Len(flows')
        PROVE  /\ \A d \in Dirs : flows'[i].delta[d] <= flows'[i].credit[d]
               /\ flows'[i].exact => flows'[i].delta = flows'[i].credit
    <3>1. CASE i = Len(flows) + 1
      BY <1>3, <1>4, <3>1
    <3>2. CASE i # Len(flows) + 1
      <4>1. i \in 1 .. Len(flows)
        BY <1>4, <1>5, <3>2
      <4> QED
        BY <1>4, <4>1 DEF AccountInv, NoOverReport, ExactWhenIntact
    <3> QED
      BY <3>1, <3>2
  <2> QED
    BY <2>1 DEF NoOverReport, ExactWhenIntact
<1>7. TypeOK'
  <2>1. MapTypeOK'
    BY <1>1, <1>2 DEF MapTypeOK, trafficVars, mapVars
  <2>2. flowMap[cursor] \in Counters /\ credited[cursor] \in Counters
    BY <1>1, <1>2 DEF MapTypeOK
  <2>3. /\ DOMAIN current' = DOMAIN current \cup {cursor}
        /\ DOMAIN current' \subseteq Flows
    BY <1>1, <1>2 DEF TypeOK
  <2>4. current' \in [DOMAIN current' -> Counters] /\ curCredited' \in [DOMAIN current' -> Counters]
    <3>1. \A k \in DOMAIN current : current[k] \in Counters /\ curCredited[k] \in Counters
      BY <1>2 DEF TypeOK
    <3> QED
      BY <1>1, <2>2, <2>3, <3>1
  <2>5. curIntact' \subseteq Flows
    BY <1>1, <1>2 DEF TypeOK
  <2>6. (ahead \subseteq (DOMAIN flowMap) \X (DOMAIN flowMap))'
    BY <1>1, <1>2 DEF TypeOK, trafficVars, mapVars
  <2> QED
    BY <1>1, <1>2, <1>4, <2>1, <2>3, <2>4, <2>5, <2>6 DEF TypeOK
<1>8. MapBound' /\ IntervalStarted'
  BY <1>1 DEF AccountInv, MapBound, IntervalStarted, trafficVars, mapVars
<1>9. Accounted(flowMap, credited, prevStats, lastCredited, prevIntact)'
  BY <1>1 DEF AccountInv, trafficVars, mapVars
<1>10. Accounted(flowMap, credited, current, curCredited, curIntact)'
  <2>1. Accounted(flowMap, credited, current', curCredited', curIntact')
    <3> SUFFICES ASSUME NEW k \in DOMAIN current', NEW d \in Dirs
                 PROVE  /\ curCredited'[k][d] <= credited[k][d]
                        /\ k \in DOMAIN flowMap =>
                             IF k \in curIntact'
                             THEN flowMap[k][d] + curCredited'[k][d] = current'[k][d] + credited[k][d]
                             ELSE flowMap[k][d] + curCredited'[k][d] <= credited[k][d]
      BY DEF Accounted
    <3>1. CASE k = cursor
      <4>1. curCredited'[k] = credited[k] /\ current'[k] = flowMap[k] /\ k \in curIntact'
        BY <1>1, <3>1
      <4>2. credited[k][d] \in Nat /\ flowMap[k][d] \in Nat
        BY <1>1, <1>2, <3>1 DEF MapTypeOK, Counters
      <4> QED
        BY <4>1, <4>2
    <3>2. CASE k # cursor
      <4>1. /\ k \in DOMAIN current
            /\ curCredited'[k] = curCredited[k] /\ current'[k] = current[k]
            /\ k \in curIntact' <=> k \in curIntact
        BY <1>1, <3>2
      <4> QED
        BY <4>1 DEF AccountInv, Accounted
    <3> QED
      BY <3>1, <3>2
  <2> QED
    BY <1>1, <2>1 DEF trafficVars, mapVars
<1> QED
  BY <1>6, <1>7, <1>8, <1>9, <1>10 DEF AccountInv
(* A fresh iteration forgets the samples of the aborted one. *)
LEMMA StartKeepsAccount ==
  ASSUME AccountInv, NEW a \in {0, 1}, StartIteration(a), bannedIPs' \subseteq IPs
  PROVE  AccountInv'
<1>1. /\ pc' = "next" /\ attempt' = a /\ cursor' = NoKey /\ visits' = 0
      /\ flows' = <<>> /\ current' = Empty /\ curCredited' = Empty
      /\ curIntact' = {} /\ stable' = DOMAIN flowMap
      /\ flowMap' = flowMap /\ credited' = credited /\ ahead' = ahead
      /\ UNCHANGED <<complete, prevStats, lastCredited, prevIntact>>
  BY DEF StartIteration, trafficVars, mapVars
<1>2. TypeOK'
  <2>1. MapTypeOK'
    BY <1>1 DEF AccountInv, TypeOK, MapTypeOK
  <2>2. DOMAIN Empty = {} /\ Empty \in [{} -> Counters]
    BY CountersType DEF Empty
  <2>3. flows' \in Seq(Entries) /\ visits' \in 0 .. MapSize + 1
    BY <1>1, BoundsAssumption
  <2>4. stable' \subseteq Flows
    BY <1>1 DEF AccountInv, TypeOK, MapTypeOK
  <2> QED
    BY <1>1, <2>1, <2>2, <2>3, <2>4 DEF AccountInv, TypeOK
<1>3. MapBound' /\ IntervalStarted'
  BY <1>1 DEF AccountInv, MapBound, IntervalStarted
<1>4. Accounted(flowMap, credited, prevStats, lastCredited, prevIntact)'
  BY <1>1 DEF AccountInv
<1>5. Accounted(flowMap, credited, current, curCredited, curIntact)'
  BY <1>1 DEF Accounted, Empty
<1>6. NoOverReport' /\ ExactWhenIntact'
  BY <1>1 DEF NoOverReport, ExactWhenIntact
<1> QED
  BY <1>2, <1>3, <1>4, <1>5, <1>6 DEF AccountInv

(* The steps of the iterator that take no sample. *)
LEMMA IteratorKeepsAccount ==
  ASSUME AccountInv,
         pc' \in {"next", "lookup", "commit"},
         pc' = "lookup" => cursor' \in Flows,
         cursor' \in Flows \cup {NoKey},
         visits' \in 0 .. MapSize + 1,
         complete' \in BOOLEAN,
         UNCHANGED <<trafficVars, attempt, flows, current, prevStats, bannedIPs, histVars>>
  PROVE  AccountInv'
<1>1. TypeOK'
  BY DEF AccountInv, TypeOK, MapTypeOK, trafficVars, mapVars, histVars
<1>2. MapBound' /\ IntervalStarted' /\ NoOverReport' /\ ExactWhenIntact'
  BY DEF AccountInv, MapBound, IntervalStarted, NoOverReport, ExactWhenIntact, trafficVars, mapVars, histVars
<1>3. /\ Accounted(flowMap, credited, prevStats, lastCredited, prevIntact)'
      /\ Accounted(flowMap, credited, current, curCredited, curIntact)'
  BY DEF AccountInv, trafficVars, mapVars, histVars
<1> QED
  BY <1>1, <1>2, <1>3 DEF AccountInv

(* processMap makes the samples of this pass the baseline of the next. *)
LEMMA CommitKeepsAccount ==
  ASSUME AccountInv, Commit
  PROVE  AccountInv'
<1>1. /\ prevStats' = CleanupStats(UpdatePrevStats(prevStats, current), current)
      /\ lastCredited' = [k \in Flows |->
                            IF k \in DOMAIN current THEN curCredited[k] ELSE credited[k]]
      /\ prevIntact' = curIntact
      /\ pc' = "idle" /\ attempt' = 0 /\ cursor' = NoKey /\ visits' = 0
      /\ flows' = <<>> /\ current' = Empty /\ complete' = FALSE
      /\ curCredited' = Empty /\ curIntact' = {} /\ stable' = {}
      /\ flowMap' = flowMap /\ credited' = credited /\ ahead' = ahead
  BY DEF Commit, trafficVars, mapVars
<1>2. bannedIPs' \subseteq IPs
  BY DEF Commit, AccountInv, TypeOK
<1>3. /\ TypeOK /\ MapTypeOK
      /\ DOMAIN current \subseteq Flows
      /\ current \in [DOMAIN current -> Counters]
      /\ curCredited \in [DOMAIN current -> Counters]
      /\ credited \in [Flows -> Counters]
  BY DEF AccountInv, TypeOK, MapTypeOK
<1>4. prevStats' = current
  <2>1. prevStats' = [k \in (DOMAIN prevStats \cup DOMAIN current) \cap DOMAIN current |->
                        IF k \in DOMAIN current THEN current[k] ELSE prevStats[k]]
    BY <1>1 DEF CleanupStats, UpdatePrevStats, Restrict
  <2> QED
    BY <1>3, <2>1
<1>5. TypeOK'
  <2>1. MapTypeOK'
    BY <1>1, <1>3 DEF MapTypeOK
  <2>2. DOMAIN Empty = {} /\ Empty \in [{} -> Counters]
    BY CountersType DEF Empty
  <2>3. flows' \in Seq(Entries) /\ visits' \in 0 .. MapSize + 1
    BY <1>1, BoundsAssumption
  <2>4. lastCredited' \in [Flows -> Counters]
    BY <1>1, <1>3
  <2>5. prevIntact' \subseteq Flows
    BY <1>1, <1>3 DEF TypeOK
  <2> QED
    BY <1>1, <1>2, <1>3, <1>4, <2>1, <2>2, <2>3, <2>4, <2>5 DEF TypeOK
<1>6. MapBound' /\ NoOverReport' /\ ExactWhenIntact'
  BY <1>1 DEF AccountInv, MapBound, NoOverReport, ExactWhenIntact
<1>7. Accounted(flowMap, credited, current, curCredited, curIntact)
  BY DEF AccountInv
<1>8. IntervalStarted'
  <2> SUFFICES ASSUME NEW k \in Flows, NEW d \in Dirs
               PROVE  lastCredited'[k][d] <= credited[k][d]
    BY <1>1 DEF IntervalStarted
  <2>1. CASE k \in DOMAIN current
    BY <1>1, <1>7, <2>1 DEF Accounted
  <2>2. CASE k \notin DOMAIN current
    <3>1. lastCredited'[k] = credited[k] /\ credited[k][d] \in Nat
      BY <1>1, <1>3, <2>2 DEF Counters
    <3> QED
      BY <3>1
  <2> QED
    BY <2>1, <2>2
<1>9. Accounted(flowMap, credited, prevStats, lastCredited, prevIntact)'
  <2>1. \A k \in DOMAIN current : lastCredited'[k] = curCredited[k]
    BY <1>1, <1>3
  <2>2. Accounted(flowMap, credited, current, lastCredited', curIntact)
    BY <1>7, <2>1 DEF Accounted
  <2> QED
    BY <1>1, <1>4, <2>2
<1>10. Accounted(flowMap, credited, current, curCredited, curIntact)'
  BY <1>1 DEF Accounted, Empty
<1> QED
  BY <1>5, <1>6, <1>8, <1>9, <1>10 DEF AccountInv

LEMMA AccountStep == AccountInv /\ [Next]_vars => AccountInv'
<1> SUFFICES ASSUME AccountInv, [Next]_vars PROVE AccountInv'
  OBVIOUS
<1>1. ASSUME NEW f \in Flows, NEW d \in Dirs, PacketOnKnownFlow(f, d)
      PROVE  AccountInv'
  BY <1>1, KnownFlowKeepsAccount
<1>2. ASSUME NEW f \in Flows, NEW d \in Directions(f),
             NEW victims \in SUBSET DOMAIN flowMap, PacketOnNewFlow(f, d, victims)
      PROVE  AccountInv'
  BY <1>2, NewFlowKeepsAccount
<1>3. CASE Tick
  <2>1. bannedIPs' \subseteq IPs
    BY <1>3 DEF Tick, AccountInv, TypeOK
  <2> QED
    BY <1>3, <2>1, StartKeepsAccount DEF Tick
<1>4. CASE AdvanceCursor
  <2>1. cursor' \in Flows
    BY <1>4 DEF AdvanceCursor, First, KeysAfter, AccountInv, TypeOK, MapTypeOK
  <2>2. visits' \in 0 .. MapSize + 1
    BY <1>4, BoundsAssumption DEF AdvanceCursor, AccountInv, TypeOK
  <2>3. complete' \in BOOLEAN
    BY <1>4 DEF AdvanceCursor, AccountInv, TypeOK
  <2> QED
    BY <1>4, <2>1, <2>2, <2>3, IteratorKeepsAccount DEF AdvanceCursor
<1>5. CASE VisitEntry
  BY <1>5, VisitKeepsAccount
<1>6. CASE VisitMiss
  <2>1. /\ cursor' \in Flows \cup {NoKey} /\ visits' \in 0 .. MapSize + 1
        /\ complete' \in BOOLEAN
    BY <1>6 DEF VisitMiss, iterVars, AccountInv, TypeOK
  <2> QED
    BY <1>6, <2>1, IteratorKeepsAccount DEF VisitMiss, iterVars
<1>7. ASSUME NEW whole \in BOOLEAN, EndPass(whole)
      PROVE  AccountInv'
  <2>1. cursor' \in Flows \cup {NoKey} /\ visits' \in 0 .. MapSize + 1
    BY <1>7 DEF EndPass, AccountInv, TypeOK
  <2> QED
    BY <1>7, <2>1, IteratorKeepsAccount DEF EndPass
<1>8. CASE EndOfMap \/ SettleForPartial \/ IterationError
  BY <1>7, <1>8 DEF EndOfMap, SettleForPartial, IterationError
<1>9. CASE RetryAborted
  <2>1. bannedIPs' \subseteq IPs
    BY <1>9 DEF RetryAborted, AccountInv, TypeOK
  <2> QED
    BY <1>9, <2>1, StartKeepsAccount DEF RetryAborted
<1>10. CASE Commit
  BY <1>10, CommitKeepsAccount
<1>11. CASE UNCHANGED vars
  <2>1. /\ UNCHANGED trafficVars /\ UNCHANGED pc /\ UNCHANGED iterVars
        /\ UNCHANGED <<prevStats, bannedIPs>> /\ UNCHANGED histVars
    BY <1>11 DEF vars
  <2>2. TypeOK'
    BY <2>1 DEF AccountInv, TypeOK, MapTypeOK, trafficVars, mapVars, iterVars, histVars
  <2>3. MapBound' /\ IntervalStarted' /\ NoOverReport' /\ ExactWhenIntact'
    BY <2>1 DEF AccountInv, MapBound, IntervalStarted, NoOverReport, ExactWhenIntact,
                trafficVars, mapVars, iterVars, histVars
  <2>4. /\ Accounted(flowMap, credited, prevStats, lastCredited, prevIntact)'
        /\ Accounted(flowMap, credited, current, curCredited, curIntact)'
    BY <2>1 DEF AccountInv, trafficVars, mapVars, iterVars, histVars
  <2> QED
    BY <2>2, <2>3, <2>4 DEF AccountInv
<1> QED
  BY <1>1, <1>2, <1>3, <1>4, <1>5, <1>6, <1>8, <1>9, <1>10, <1>11
  DEF Next, Traffic, ProcessMap

LEMMA AccountAlways == Spec => []AccountInv
BY AccountInit, AccountStep, PTL DEF Spec

(* The type invariant holds of every instance. *)
THEOREM TypeCorrect == Spec => []TypeOK
<1>1. AccountInv => TypeOK
  BY DEF AccountInv
<1> QED
  BY AccountAlways, <1>1, PTL

(* For any flows, traffic and eviction order, calculateFlowMetrics and    *)
(* cleanupStats never report more of a flow than was credited to it.      *)
THEOREM OverReportFree == Spec => []NoOverReport
<1>1. AccountInv => NoOverReport
  BY DEF AccountInv
<1> QED
  BY AccountAlways, <1>1, PTL

(* A flow whose entry was never dropped is measured exactly. *)
THEOREM IntactMeasuredExactly == Spec => []ExactWhenIntact
<1>1. AccountInv => ExactWhenIntact
  BY DEF AccountInv
<1> QED
  BY AccountAlways, <1>1, PTL

-----------------------------------------------------------------------------
(* Where a new entry stands. *)
LEMMA HeadPairs ==
  ASSUME NEW f, NEW victims, PutAtHead(f, victims),
         ahead \subseteq (DOMAIN flowMap) \X (DOMAIN flowMap)
  PROVE  \A j, k : <<j, k>> \in ahead' <=>
           \/ <<j, k>> \in ahead /\ j \notin victims \cup {f} /\ k \notin victims \cup {f}
           \/ /\ j = f /\ k \in DOMAIN flowMap \ (victims \cup {f})
              /\ Bucket[k] = Bucket[f]
<1> SUFFICES ASSUME NEW j, NEW k
             PROVE  <<j, k>> \in ahead' <=>
                      \/ <<j, k>> \in ahead /\ j \notin victims \cup {f} /\ k \notin victims \cup {f}
                      \/ /\ j = f /\ k \in DOMAIN flowMap \ (victims \cup {f})
                         /\ Bucket[k] = Bucket[f]
  OBVIOUS
<1>1. <<j, k>>[1] = j /\ <<j, k>>[2] = k
  OBVIOUS
<1> QED
  BY <1>1 DEF PutAtHead

(* The walk's order is a strict total order of the entries. *)
LEMMA WalkOrder ==
  ASSUME TypeOK, OrderInv
  PROVE  /\ \A j, k \in DOMAIN flowMap : j = k \/ Before(j, k) \/ Before(k, j)
         /\ \A j, k \in DOMAIN flowMap : Before(j, k) => ~Before(k, j)
<1>1. \A k \in DOMAIN flowMap : Bucket[k] \in Nat
  BY BucketAssumption DEF TypeOK, MapTypeOK
<1> QED
  BY <1>1 DEF OrderInv, Before

LEMMA OrderStep == TypeOK /\ OrderInv /\ [Next]_vars => OrderInv'
<1> SUFFICES ASSUME TypeOK, OrderInv, [Next]_vars PROVE OrderInv'
  OBVIOUS
<1>1. ASSUME NEW f \in Flows, NEW d \in Directions(f),
             NEW victims \in SUBSET DOMAIN flowMap, PacketOnNewFlow(f, d, victims)
      PROVE  OrderInv'
  <2>1. /\ DOMAIN flowMap' = (DOMAIN flowMap \ victims) \cup {f}
        /\ PutAtHead(f, victims) /\ victims \subseteq DOMAIN flowMap \ {f}
    BY <1>1 DEF PacketOnNewFlow, CreateFlow
  <2>2. \A j, k : <<j, k>> \in ahead' <=>
          \/ <<j, k>> \in ahead /\ j \notin victims \cup {f} /\ k \notin victims \cup {f}
          \/ /\ j = f /\ k \in DOMAIN flowMap \ (victims \cup {f})
             /\ Bucket[k] = Bucket[f]
    BY <2>1, HeadPairs DEF TypeOK
  <2>3. \A j, k \in DOMAIN flowMap' : <<j, k>> \in ahead' => Bucket[j] = Bucket[k]
    BY <2>1, <2>2 DEF OrderInv
  <2>4. \A j, k \in DOMAIN flowMap' : <<j, k>> \in ahead' => <<k, j>> \notin ahead'
    BY <2>1, <2>2 DEF OrderInv
  <2>5. \A i, j, k \in DOMAIN flowMap' :
          (<<i, j>> \in ahead' /\ <<j, k>> \in ahead') => <<i, k>> \in ahead'
    BY <2>1, <2>2 DEF OrderInv
  <2>6. \A j, k \in DOMAIN flowMap' :
          (j # k /\ Bucket[j] = Bucket[k]) => (<<j, k>> \in ahead' \/ <<k, j>> \in ahead')
    BY <2>1, <2>2 DEF OrderInv
  <2> QED
    BY <2>3, <2>4, <2>5, <2>6 DEF OrderInv
<1>2. ASSUME NEW f \in Flows, NEW d \in Dirs, PacketOnKnownFlow(f, d)
      PROVE  OrderInv'
  <2>1. DOMAIN flowMap' = DOMAIN flowMap /\ ahead' = ahead
    BY <1>2 DEF PacketOnKnownFlow, AddToFlow
  <2> QED
    BY <2>1 DEF OrderInv
<1>3. ASSUME UNCHANGED trafficVars PROVE OrderInv'
  <2>1. flowMap' = flowMap /\ ahead' = ahead
    BY <1>3 DEF trafficVars, mapVars
  <2> QED
    BY <2>1 DEF OrderInv
<1>4. Traffic \/ UNCHANGED trafficVars
  BY DEF Next, ProcessMap, Tick, StartIteration, AdvanceCursor, VisitEntry, VisitMiss,
         EndOfMap, RetryAborted, SettleForPartial, IterationError, EndPass, Commit, vars
<1> QED
  BY <1>1, <1>2, <1>3, <1>4 DEF Traffic

LEMMA OrderAlways == Spec => []OrderInv
<1>1. Init => OrderInv
  BY DEF Init, MapInit, Empty, OrderInv
<1> QED
  BY <1>1, OrderStep, TypeCorrect, PTL DEF Spec

-----------------------------------------------------------------------------
LEMMA PassInit == Init => PassInv
BY DEF Init, PassInv, CompletePass

(* A packet can only shrink what is stable; stable entries are present, and *)
(* none comes to stand before another.                                     *)
LEMMA TrafficKeepsPass ==
  ASSUME PassInv, stable' \subseteq stable, stable' \subseteq DOMAIN flowMap',
         \A k \in stable' : <<k, cursor>> \in ahead' => <<k, cursor>> \in ahead,
         UNCHANGED <<pc, iterVars>>
  PROVE  PassInv'
<1>1. pc' = pc /\ cursor' = cursor /\ current' = current /\ complete' = complete
  BY DEF iterVars
<1>2. \A k \in stable' : Before(k, cursor)' => Before(k, cursor)
  BY <1>1 DEF Before
<1> QED
  BY <1>1, <1>2 DEF PassInv, CompletePass

LEMMA StartKeepsPass ==
  ASSUME NEW a, StartIteration(a)
  PROVE  PassInv'
<1>1. /\ pc' = "next" /\ cursor' = NoKey /\ stable' = DOMAIN flowMap
      /\ flowMap' = flowMap
  BY DEF StartIteration, trafficVars, mapVars
<1> QED
  BY <1>1, NoKeyAssumption DEF PassInv, CompletePass

(* The iterator goes on from the cursor, or all over again, and either way *)
(* an entry it leaves behind is in the result.                             *)
LEMMA AdvanceKeepsPass ==
  ASSUME TypeOK, OrderInv, PassInv, AdvanceCursor
  PROVE  PassInv'
<1>1. /\ pc = "next" /\ pc' = "lookup"
      /\ cursor' \in First(KeysAfter(cursor))
      /\ stable' = stable /\ current' = current /\ flowMap' = flowMap /\ ahead' = ahead
  BY DEF AdvanceCursor, trafficVars, mapVars, histVars
<1>2. DOMAIN flowMap \subseteq Flows /\ cursor' \in DOMAIN flowMap
  BY <1>1 DEF TypeOK, MapTypeOK, First, KeysAfter
<1>3. ASSUME NEW k \in stable, Before(k, cursor')
      PROVE  k \in DOMAIN current
  <2>1. k \in DOMAIN flowMap
    BY DEF PassInv
  <2>2. k \notin KeysAfter(cursor)
    BY <1>1, <1>2, <1>3, <2>1, WalkOrder DEF First
  <2>3. cursor \in DOMAIN flowMap /\ ~Before(cursor, k)
    BY <2>1, <2>2 DEF KeysAfter
  <2>4. k = cursor \/ Before(k, cursor)
    BY <2>1, <2>3, WalkOrder
  <2> QED
    BY <1>1, <1>2, <2>3, <2>4 DEF PassInv
<1>4. \A k : Before(k, cursor)' <=> Before(k, cursor')
  BY <1>1 DEF Before
<1> QED
  BY <1>1, <1>3, <1>4 DEF PassInv, CompletePass

(* The entry under the cursor joins the result. *)
LEMMA VisitKeepsPass ==
  ASSUME TypeOK, PassInv, VisitEntry
  PROVE  PassInv'
<1>1. /\ pc = "lookup" /\ pc' = "next" /\ cursor' = cursor /\ cursor \in DOMAIN flowMap
      /\ DOMAIN current' = DOMAIN current \cup {cursor}
      /\ stable' = stable /\ flowMap' = flowMap /\ ahead' = ahead
  BY DEF VisitEntry, trafficVars, mapVars
<1>2. \A k : Before(k, cursor)' <=> Before(k, cursor)
  BY <1>1 DEF Before
<1> QED
  BY <1>1, <1>2 DEF PassInv, CompletePass

(* An entry that is gone when it is looked up was not stable. *)
LEMMA MissKeepsPass ==
  ASSUME TypeOK, PassInv, VisitMiss
  PROVE  PassInv'
<1>1. /\ pc = "lookup" /\ pc' = "next" /\ cursor' = cursor /\ cursor \notin DOMAIN flowMap
      /\ current' = current /\ stable' = stable /\ flowMap' = flowMap /\ ahead' = ahead
  BY DEF VisitMiss, trafficVars, mapVars, iterVars, histVars
<1>2. \A k : Before(k, cursor)' <=> Before(k, cursor)
  BY <1>1 DEF Before
<1>3. cursor \notin stable
  BY <1>1 DEF PassInv
<1> QED
  BY <1>1, <1>2, <1>3 DEF PassInv, CompletePass

(* Nothing comes after the last key, so everything stable was passed. *)
LEMMA EndKeepsPass ==
  ASSUME TypeOK, OrderInv, PassInv, EndOfMap
  PROVE  PassInv'
<1>1. /\ pc = "next" /\ pc' = "commit" /\ KeysAfter(cursor) = {}
      /\ current' = current /\ stable' = stable /\ flowMap' = flowMap
  BY DEF EndOfMap, EndPass, trafficVars, mapVars, histVars
<1>2. ASSUME NEW k \in stable
      PROVE  k \in DOMAIN current
  <2>1. k \in DOMAIN flowMap /\ DOMAIN flowMap \subseteq Flows
    BY DEF PassInv, TypeOK, MapTypeOK
  <2>2. cursor \in DOMAIN flowMap /\ ~Before(cursor, k)
    BY <1>1, <2>1 DEF KeysAfter
  <2>3. k = cursor \/ Before(k, cursor)
    BY <2>1, <2>2, WalkOrder
  <2> QED
    BY <1>1, <2>1, <2>2, <2>3 DEF PassInv
<1> QED
  BY <1>1, <1>2 DEF PassInv, CompletePass

LEMMA PassStep == TypeOK /\ OrderInv /\ PassInv /\ [Next]_vars => PassInv'
<1> SUFFICES ASSUME TypeOK, OrderInv, PassInv, [Next]_vars PROVE PassInv'
  OBVIOUS
<1>1. ASSUME NEW f \in Flows, NEW d \in Dirs, PacketOnKnownFlow(f, d)
      PROVE  PassInv'
  <2>1. DOMAIN flowMap' = DOMAIN flowMap /\ stable' = stable /\ ahead' = ahead
    BY <1>1 DEF PacketOnKnownFlow, AddToFlow, histVars
  <2> QED
    BY <1>1, <2>1, TrafficKeepsPass DEF PacketOnKnownFlow, PassInv
<1>2. ASSUME NEW f \in Flows, NEW d \in Directions(f),
             NEW victims \in SUBSET DOMAIN flowMap, PacketOnNewFlow(f, d, victims)
      PROVE  PassInv'
  <2>1. /\ DOMAIN flowMap' = (DOMAIN flowMap \ victims) \cup {f}
        /\ stable' = stable \ (victims \cup {f})
        /\ PutAtHead(f, victims)
    BY <1>2 DEF PacketOnNewFlow, CreateFlow
  <2>2. \A k \in stable' : <<k, cursor>> \in ahead' => <<k, cursor>> \in ahead
    BY <2>1, HeadPairs DEF TypeOK
  <2> QED
    BY <1>2, <2>1, <2>2, TrafficKeepsPass DEF PacketOnNewFlow, PassInv
<1>3. CASE Tick \/ RetryAborted
  BY <1>3, StartKeepsPass DEF Tick, RetryAborted
<1>4. CASE AdvanceCursor
  BY <1>4, AdvanceKeepsPass
<1>5. CASE VisitEntry
  BY <1>5, VisitKeepsPass
<1>6. CASE VisitMiss
  BY <1>6, MissKeepsPass
<1>7. CASE EndOfMap
  BY <1>7, EndKeepsPass
<1>8. CASE SettleForPartial \/ IterationError
  BY <1>8 DEF SettleForPartial, IterationError, EndPass, PassInv, CompletePass, trafficVars, mapVars, histVars
<1>9. CASE Commit
  BY <1>9 DEF Commit, PassInv, CompletePass, trafficVars, mapVars
<1>10. CASE UNCHANGED vars
  BY <1>10 DEF vars, trafficVars, mapVars, iterVars, histVars, PassInv, CompletePass, Before
<1> QED
  BY <1>1, <1>2, <1>3, <1>4, <1>5, <1>6, <1>7, <1>8, <1>9, <1>10
  DEF Next, Traffic, ProcessMap

(* Restarted by evictions or not, an iteration that reaches the end of the *)
(* map has seen every entry that lived through it.                         *)
THEOREM PassIsComplete == Spec => []CompletePass
<1>1. Init /\ [][Next]_vars /\ []TypeOK /\ []OrderInv => []PassInv
  BY PassInit, PassStep, PTL
<1>2. PassInv => CompletePass
  BY DEF PassInv
<1> QED
  BY TypeCorrect, OrderAlways, <1>1, <1>2, PTL DEF Spec
=============================================================================
