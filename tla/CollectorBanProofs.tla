------------------------- MODULE CollectorBanProofs -------------------------
(***************************************************************************)
(* What Collector's bans are worth, for every set of flows, every map size *)
(* and both thresholds.  The ban decision compares sums over the entries   *)
(* of a pass with sums over the flows of the network, so these proofs need *)
(* FoldLemmas next to the invariants of CollectorProofs.                   *)
(*                                                                         *)
(* SampleInv relates the two index sets: which flow an entry is about, and *)
(* which entry a flow has.  OneSided says on which side a flow counts.     *)
(***************************************************************************)
EXTENDS CollectorProofs, FoldLemmas

(* An entry claims no more than what was credited to its flow so far. *)
EntriesCredited ==
  \A i \in 1 .. Len(flows) :
    /\ flows[i].key \in DOMAIN current
    /\ \A d \in Dirs :
         flows[i].credit[d] + lastCredited[flows[i].key][d] <= credited[flows[i].key][d]

(* Entry i is flow k's latest, taken when curCredited was. *)
Latest(i, k) ==
  /\ flows[i].key = k
  /\ \A d \in Dirs : flows[i].credit[d] + lastCredited[k][d] = curCredited[k][d]
  /\ k \in prevIntact => flows[i].exact

(* Every flow this pass sampled has such an entry. *)
SamplesEntered == \A k \in DOMAIN current : \E i \in 1 .. Len(flows) : Latest(i, k)

SampleInv ==
  /\ EntriesCredited
  /\ SamplesEntered
  /\ prevIntact \subseteq DOMAIN prevStats
  /\ curIntact \subseteq DOMAIN current

(* f has zeros in d wherever it is. *)
Silent(f, d) ==
  /\ f \in DOMAIN flowMap => flowMap[f][d] = 0
  /\ f \in DOMAIN current => current[f][d] = 0
  /\ f \in DOMAIN prevStats => prevStats[f][d] = 0
  /\ \A i \in 1 .. Len(flows) : flows[i].key = f => flows[i].delta[d] = 0

(* A flow has nothing on the side that its packets do not count for, until *)
(* a packet of another flow strays there.                                   *)
OneSided ==
  \A f \in Flows : \A d \in Dirs \ Directions(f) : credited[f][d] = 0 => Silent(f, d)

(* No flow has two entries. *)
NoFlowTwice == \A i, j \in DOMAIN flows : flows[i].key = flows[j].key => i = j

(* The entry the iterator stands on is neither dropped nor replaced: it is *)
(* there after the step, and no entry has fallen behind it in its bucket.  *)
CursorStays ==
  (pc \in {"next", "lookup"} /\ cursor \in Flows) =>
    /\ cursor \in DOMAIN flowMap'
    /\ \A k \in Flows : <<cursor, k>> \in ahead' => <<cursor, k>> \in ahead

(* The iterator stands on an entry, and everything it listed lies behind   *)
(* it in the order of the walk.                                            *)
InOrder ==
  /\ NoFlowTwice
  /\ (pc \in {"next", "lookup"} /\ cursor \in Flows) => cursor \in DOMAIN flowMap
  /\ pc = "next" => \A i \in DOMAIN flows :
       cursor \in Flows /\ ~Before(cursor, flows[i].key)
  /\ pc = "lookup" => \A i \in DOMAIN flows :
       flows[i].key # cursor /\ ~Before(cursor, flows[i].key)

-----------------------------------------------------------------------------
(* Traffic only adds credit and ends lives; the iterator's steps that take *)
(* no sample do not even that.                                             *)
LEMMA TrafficKeepsSamples ==
  ASSUME AccountInv, SampleInv,
         prevIntact' \subseteq prevIntact, curIntact' \subseteq curIntact,
         UNCHANGED <<flows, current, prevStats, lastCredited, curCredited>>,
         \A k \in Flows : \A d \in Dirs :
           credited'[k][d] \in Nat /\ credited[k][d] <= credited'[k][d]
  PROVE  SampleInv'
<1>1. EntriesCredited'
  <2> SUFFICES ASSUME NEW i \in 1 .. Len(flows)
               PROVE  /\ flows[i].key \in DOMAIN current
                      /\ \A d \in Dirs :
                           flows[i].credit[d] + lastCredited[flows[i].key][d]
                             <= credited'[flows[i].key][d]
    BY DEF EntriesCredited
  <2>1. /\ flows[i].key \in DOMAIN current
        /\ \A d \in Dirs :
             flows[i].credit[d] + lastCredited[flows[i].key][d] <= credited[flows[i].key][d]
    BY DEF SampleInv, EntriesCredited
  <2>2. flows[i] \in Entries
    BY ElementOfSeq DEF AccountInv, TypeOK
  <2>3. flows[i].key \in Flows /\ flows[i].credit \in Counters
    BY <2>2 DEF Entries
  <2>4. \A d \in Dirs :
          /\ flows[i].credit[d] \in Nat /\ lastCredited[flows[i].key][d] \in Nat
          /\ credited[flows[i].key][d] \in Nat
    BY <2>3 DEF AccountInv, TypeOK, MapTypeOK, Counters
  <2>5. ASSUME NEW d \in Dirs
        PROVE  flows[i].credit[d] + lastCredited[flows[i].key][d] <= credited'[flows[i].key][d]
    <3>1. /\ credited[flows[i].key][d] <= credited'[flows[i].key][d]
          /\ credited'[flows[i].key][d] \in Nat
      BY <2>3
    <3> QED  BY <2>1, <2>4, <3>1
  <2> QED  BY <2>1, <2>5
<1>2. SamplesEntered'
  BY DEF SampleInv, SamplesEntered, Latest
<1>3. /\ prevIntact' \subseteq DOMAIN prevStats'
      /\ curIntact' \subseteq DOMAIN current'
  BY DEF SampleInv
<1> QED
  BY <1>1, <1>2, <1>3 DEF SampleInv

(* A pass begins without entries. *)
LEMMA StartKeepsSamples ==
  ASSUME flows' = <<>>, current' = Empty, curIntact' = {},
         prevIntact' \subseteq DOMAIN prevStats'
  PROVE  SampleInv'
BY DEF SampleInv, EntriesCredited, SamplesEntered, Empty

(* What VisitEntry does to the entries. *)
LEMMA VisitAppends ==
  ASSUME AccountInv, VisitEntry
  PROVE  /\ Len(flows') = Len(flows) + 1
         /\ \A i \in 1 .. Len(flows) : flows'[i] = flows[i]
         /\ flows'[Len(flows) + 1] =
              [key    |-> cursor,
               delta  |-> FlowDelta(cursor, flowMap[cursor]),
               credit |-> [d \in Dirs |-> credited[cursor][d] - lastCredited[cursor][d]],
               exact  |-> cursor \in DOMAIN prevStats /\ cursor \in prevIntact]
<1> DEFINE e == [key    |-> cursor,
                 delta  |-> FlowDelta(cursor, flowMap[cursor]),
                 credit |-> [d \in Dirs |-> credited[cursor][d] - lastCredited[cursor][d]],
                 exact  |-> cursor \in DOMAIN prevStats /\ cursor \in prevIntact]
<1>1. cursor \in DOMAIN flowMap /\ flows' = Append(flows, e)
  BY DEF VisitEntry
<1>2. cursor \in Flows /\ flows \in Seq(Entries)
  BY <1>1 DEF AccountInv, TypeOK, MapTypeOK
<1>3. e \in Entries
  <2>1. e.delta \in Counters
    BY <1>1, DeltaBounded
  <2>2. \A d \in Dirs : credited[cursor][d] - lastCredited[cursor][d] \in Nat
    BY <1>2 DEF AccountInv, TypeOK, MapTypeOK, Counters, IntervalStarted
  <2>3. e.credit \in Counters
    BY <2>2 DEF Counters
  <2> QED  BY <1>2, <2>1, <2>3 DEF Entries
<1> HIDE DEF e
<1>4. /\ Len(flows') = Len(flows) + 1
      /\ \A i \in 1 .. Len(flows) : flows'[i] = flows[i]
      /\ flows'[Len(flows) + 1] = e
  BY <1>1, <1>2, <1>3, AppendProperties
<1> QED
  BY <1>4 DEF e

(* A visit appends an entry that is the latest of its flow. *)
LEMMA VisitKeepsSamples ==
  ASSUME AccountInv, SampleInv, VisitEntry
  PROVE  SampleInv'
<1> DEFINE n == Len(flows)
           e == [key    |-> cursor,
                 delta  |-> FlowDelta(cursor, flowMap[cursor]),
                 credit |-> [d \in Dirs |-> credited[cursor][d] - lastCredited[cursor][d]],
                 exact  |-> cursor \in DOMAIN prevStats /\ cursor \in prevIntact]
<1>1. /\ cursor \in DOMAIN flowMap
      /\ flows' = Append(flows, e)
      /\ DOMAIN current' = DOMAIN current \cup {cursor}
      /\ curCredited' = [k \in DOMAIN current \cup {cursor} |->
                           IF k = cursor THEN credited[k] ELSE curCredited[k]]
      /\ curIntact' = curIntact \cup {cursor}
      /\ credited' = credited /\ prevStats' = prevStats
      /\ lastCredited' = lastCredited /\ prevIntact' = prevIntact
  BY DEF VisitEntry, trafficVars, mapVars
<1>2. cursor \in Flows /\ flows \in Seq(Entries) /\ n \in Nat
  BY <1>1, LenProperties DEF AccountInv, TypeOK, MapTypeOK
<1>3. /\ Len(flows') = n + 1
      /\ \A i \in 1 .. n : flows'[i] = flows[i]
      /\ flows'[n + 1] = e
  BY VisitAppends
<1>4. /\ e.key = cursor
      /\ \A d \in Dirs : e.credit[d] + lastCredited[cursor][d] = credited[cursor][d]
      /\ cursor \in prevIntact => e.exact
  <2>1. \A d \in Dirs : credited[cursor][d] \in Nat /\ lastCredited[cursor][d] \in Nat
    BY <1>2 DEF AccountInv, TypeOK, MapTypeOK, Counters
  <2>2. \A d \in Dirs : e.credit[d] = credited[cursor][d] - lastCredited[cursor][d]
    OBVIOUS
  <2>3. cursor \in prevIntact => e.exact
    BY DEF SampleInv
  <2> HIDE DEF e
  <2>4. \A d \in Dirs : e.credit[d] + lastCredited[cursor][d] = credited[cursor][d]
    BY <2>1, <2>2
  <2> QED  BY <2>3, <2>4 DEF e
<1> HIDE DEF e
<1>5. EntriesCredited'
  <2> SUFFICES ASSUME NEW i \in 1 .. Len(flows')
               PROVE  /\ flows'[i].key \in DOMAIN current'
                      /\ \A d \in Dirs :
                           flows'[i].credit[d] + lastCredited[flows'[i].key][d]
                             <= credited[flows'[i].key][d]
    BY <1>1 DEF EntriesCredited
  <2>1. CASE i = n + 1
    <3>1. \A d \in Dirs : credited[cursor][d] \in Nat
      BY <1>2 DEF AccountInv, TypeOK, MapTypeOK, Counters
    <3> QED  BY <1>1, <1>3, <1>4, <2>1, <3>1
  <2>2. CASE i # n + 1
    <3>1. i \in 1 .. n
      BY <1>2, <1>3, <2>2
    <3> QED  BY <1>1, <1>3, <3>1 DEF SampleInv, EntriesCredited
  <2> QED  BY <2>1, <2>2
<1>6. SamplesEntered'
  <2> SUFFICES ASSUME NEW k \in DOMAIN current'
               PROVE  \E i \in 1 .. Len(flows') : Latest(i, k)'
    BY DEF SamplesEntered
  <2>1. CASE k = cursor
    <3>1. curCredited'[k] = credited[cursor] /\ n + 1 \in 1 .. Len(flows')
      BY <1>1, <1>2, <1>3, <2>1
    <3>2. PICK j \in 1 .. Len(flows') : j = n + 1
      BY <3>1
    <3>3. flows'[j] = e
      BY <1>3, <3>2
    <3>4. Latest(j, k)'
      BY <1>1, <1>4, <2>1, <3>1, <3>3 DEF Latest
    <3> QED  BY <3>4
  <2>2. CASE k # cursor
    <3>1. k \in DOMAIN current /\ curCredited'[k] = curCredited[k]
      BY <1>1, <2>2
    <3>2. PICK i \in 1 .. n : Latest(i, k)
      BY <3>1 DEF SampleInv, SamplesEntered
    <3>3. i \in 1 .. Len(flows') /\ flows'[i] = flows[i]
      BY <1>2, <1>3
    <3>4. Latest(i, k)'
      BY <1>1, <3>1, <3>2, <3>3 DEF Latest
    <3> QED  BY <3>3, <3>4
  <2> QED  BY <2>1, <2>2
<1>7. /\ prevIntact' \subseteq DOMAIN prevStats'
      /\ curIntact' \subseteq DOMAIN current'
  BY <1>1 DEF SampleInv
<1> QED
  BY <1>5, <1>6, <1>7 DEF SampleInv

LEMMA CommitKeepsSamples ==
  ASSUME SampleInv, Commit
  PROVE  SampleInv'
<1>1. DOMAIN prevStats' = DOMAIN current
  BY DEF Commit, CleanupStats, UpdatePrevStats, Restrict
<1> QED
  BY <1>1, StartKeepsSamples DEF Commit, SampleInv

LEMMA SampleInit == Init => SampleInv
BY DEF Init, SampleInv, EntriesCredited, SamplesEntered, Empty

LEMMA SampleStep == AccountInv /\ SampleInv /\ [Next]_vars => SampleInv'
<1> SUFFICES ASSUME AccountInv, SampleInv, [Next]_vars PROVE SampleInv'
  OBVIOUS
<1>1. credited \in [Flows -> Counters] /\ \A k \in Flows : \A d \in Dirs : credited[k][d] \in Nat
  BY DEF AccountInv, TypeOK, MapTypeOK, Counters
<1>2. ASSUME NEW f \in Flows, NEW d \in Dirs, Credit(f, d)
      PROVE  \A k \in Flows : \A e \in Dirs :
               credited'[k][e] \in Nat /\ credited[k][e] <= credited'[k][e]
  <2>1. credited' = [credited EXCEPT ![f] = Bump(@, d)]
    BY <1>2 DEF Credit
  <2>2. \A k \in Flows : \A e \in Dirs :
          credited'[k][e] = IF k = f /\ e = d THEN credited[k][e] + 1 ELSE credited[k][e]
    BY <1>1, <2>1, BumpValue
  <2> QED  BY <1>1, <2>2
<1>3. ASSUME NEW f \in Flows, NEW d \in Dirs, PacketOnKnownFlow(f, d)
      PROVE  SampleInv'
  BY <1>2, <1>3, TrafficKeepsSamples DEF PacketOnKnownFlow, iterVars, histVars
<1>4. ASSUME NEW f \in Flows, NEW d \in Directions(f),
             NEW victims \in SUBSET DOMAIN flowMap, PacketOnNewFlow(f, d, victims)
      PROVE  SampleInv'
  BY <1>2, <1>4, DirectionInDirs, TrafficKeepsSamples DEF PacketOnNewFlow, iterVars
<1>5. CASE Tick \/ RetryAborted
  BY <1>5, StartKeepsSamples DEF Tick, RetryAborted, StartIteration, SampleInv
<1>6. ASSUME UNCHANGED <<trafficVars, flows, current, prevStats, histVars>>
      PROVE  SampleInv'
  BY <1>1, <1>6, TrafficKeepsSamples DEF trafficVars, mapVars, histVars
<1>7. CASE \/ AdvanceCursor \/ VisitMiss
           \/ EndOfMap \/ SettleForPartial \/ IterationError \/ UNCHANGED vars
  BY <1>6, <1>7 DEF AdvanceCursor, VisitMiss, EndOfMap, SettleForPartial, IterationError,
                    EndPass, iterVars, vars
<1>8. CASE VisitEntry
  BY <1>8, VisitKeepsSamples
<1>9. CASE Commit
  BY <1>9, CommitKeepsSamples
<1> QED
  BY <1>3, <1>4, <1>5, <1>7, <1>8, <1>9 DEF Next, Traffic, ProcessMap

LEMMA SampleAlways == Spec => []SampleInv
BY SampleInit, SampleStep, AccountAlways, PTL DEF Spec

-----------------------------------------------------------------------------
(* A flow has two ends, so it is charged to an address at most twice. *)
LEMMA WeightValues == \A f, ip : Weight(f, ip) \in {0, 1, 2}
<1> SUFFICES ASSUME NEW f, NEW ip PROVE Weight(f, ip) \in {0, 1, 2}
  OBVIOUS
<1> DEFINE E == {e \in {"src", "dst"} : f[e] = ip /\ IsMonitored(ip)}
<1>1. E \in {{}, {"src"}, {"dst"}, {"src", "dst"}}
  OBVIOUS
<1>2. /\ Cardinality({}) = 0
      /\ Cardinality({"src"}) = 1 /\ Cardinality({"dst"}) = 1
  BY FS_EmptySet, FS_Singleton
<1>3. Cardinality({"src", "dst"}) = 2
  <2>1. IsFiniteSet({"src"}) /\ {"src", "dst"} = {"src"} \cup {"dst"} /\ "dst" \notin {"src"}
    BY FS_Singleton
  <2>2. Cardinality({"src"} \cup {"dst"}) = Cardinality({"src"}) + 1
    BY <2>1, FS_AddElement
  <2> QED  BY <1>2, <2>1, <2>2
<1> HIDE DEF E
<1>4. Cardinality(E) \in {0, 1, 2}
  BY <1>1, <1>2, <1>3
<1> QED
  BY <1>4 DEF Weight, E

(* Being charged more often never lessens the sum. *)
LEMMA WeightedMonotone ==
  ASSUME NEW w \in {0, 1, 2}, NEW a \in Nat, NEW b \in Nat, a <= b
  PROVE  w * a \in Nat /\ w * b \in Nat /\ w * a <= w * b
<1>1. CASE w = 0
  BY <1>1
<1>2. CASE w = 1
  BY <1>2
<1>3. CASE w = 2
  BY <1>3
<1> QED  BY <1>1, <1>2, <1>3

(* What an entry is, in one place. *)
LEMMA EntryFacts ==
  ASSUME AccountInv, SampleInv, NEW i \in DOMAIN flows, NEW d \in Dirs
  PROVE  /\ i \in 1 .. Len(flows)
         /\ flows[i].key \in Flows /\ flows[i].key \in DOMAIN current
         /\ flows[i].delta[d] \in Nat /\ flows[i].credit[d] \in Nat
         /\ flows[i].delta[d] <= flows[i].credit[d]
         /\ flows[i].exact => flows[i].delta[d] = flows[i].credit[d]
         /\ flows[i].credit[d] + lastCredited[flows[i].key][d] <= credited[flows[i].key][d]
<1>1. i \in 1 .. Len(flows) /\ flows[i] \in Entries
  BY LenProperties, ElementOfSeq DEF AccountInv, TypeOK
<1>2. /\ flows[i].key \in Flows
      /\ flows[i].delta[d] \in Nat /\ flows[i].credit[d] \in Nat
  BY <1>1 DEF Entries, Counters
<1>3. /\ flows[i].delta[d] <= flows[i].credit[d]
      /\ flows[i].exact => flows[i].delta[d] = flows[i].credit[d]
  BY <1>1 DEF AccountInv, NoOverReport, ExactWhenIntact
<1>4. /\ flows[i].key \in DOMAIN current
      /\ flows[i].credit[d] + lastCredited[flows[i].key][d] <= credited[flows[i].key][d]
  BY <1>1 DEF SampleInv, EntriesCredited
<1> QED
  BY <1>1, <1>2, <1>3, <1>4

LEMMA EntriesFinite ==
  ASSUME TypeOK
  PROVE  IsFiniteSet(DOMAIN flows) /\ DOMAIN flows = 1 .. Len(flows)
<1>1. DOMAIN flows = 1 .. Len(flows) /\ Len(flows) \in Nat
  BY LenProperties DEF TypeOK
<1> QED
  BY <1>1, FS_Interval

LEMMA EntryInFlows ==
  ASSUME TypeOK, NEW i \in DOMAIN flows
  PROVE  flows[i].key \in Flows
<1>1. i \in 1 .. Len(flows) /\ flows \in Seq(Entries)
  BY EntriesFinite DEF TypeOK
<1>2. flows[i] \in Entries
  BY <1>1, ElementOfSeq
<1> QED
  BY <1>2 DEF Entries

(* As many entries as keys: no key has two. *)
LEMMA KeysDistinct ==
  ASSUME AccountInv, SampleInv, Cardinality(DOMAIN current) = Len(flows)
  PROVE  NoFlowTwice
<1> DEFINE key == [n \in DOMAIN flows |-> flows[n].key]
<1>1. DOMAIN flows = 1 .. Len(flows) /\ Len(flows) \in Nat /\ IsFiniteSet(DOMAIN flows)
  BY EntriesFinite, LenProperties DEF AccountInv, TypeOK
<1>2. key \in Surjection(DOMAIN flows, DOMAIN current)
  <2>1. key \in [DOMAIN flows -> DOMAIN current]
    BY <1>1 DEF SampleInv, EntriesCredited
  <2>2. \A k \in DOMAIN current : \E n \in DOMAIN flows : key[n] = k
    BY <1>1 DEF SampleInv, SamplesEntered, Latest
  <2> QED  BY <2>1, <2>2 DEF Surjection
<1>3. Cardinality(DOMAIN flows) = Cardinality(DOMAIN current)
  BY <1>1, FS_Interval
<1>4. key \in Injection(DOMAIN flows, DOMAIN current)
  <2> HIDE DEF key
  <2> QED  BY <1>1, <1>2, <1>3, FS_SurjSameCardinalityImpliesInj
<1>5. \A i, j \in DOMAIN flows : key[i] = key[j] => i = j
  <2> HIDE DEF key
  <2> QED  BY <1>4 DEF Injection, IsInjective
<1> QED
  BY <1>5 DEF NoFlowTwice

(* The two sums of the ban decision are sums of naturals. *)
LEMMA AggregateTerms ==
  ASSUME AccountInv, SampleInv, NEW ip, NEW d \in Dirs
  PROVE  LET g == [i \in DOMAIN flows |-> Weight(flows[i].key, ip) * flows[i].delta[d]]
         IN  /\ AggregateIPStats(flows, ip, d) = SumFunctionOnSet(g, DOMAIN flows)
             /\ \A i \in DOMAIN flows : g[i] \in Nat
             /\ AggregateIPStats(flows, ip, d) \in Nat
<1> DEFINE g == [i \in DOMAIN flows |-> Weight(flows[i].key, ip) * flows[i].delta[d]]
<1>1. AggregateIPStats(flows, ip, d) = SumFunctionOnSet(g, DOMAIN flows)
  BY DEF AggregateIPStats, SumFunction
<1>2. ASSUME NEW i \in DOMAIN flows
      PROVE  g[i] \in Nat
  BY EntryFacts, WeightValues, WeightedMonotone
<1> HIDE DEF g
<1>3. SumFunctionOnSet(g, DOMAIN flows) \in Nat
  BY <1>2, EntriesFinite, SumType DEF AccountInv
<1> QED
  BY <1>1, <1>2, <1>3 DEF g

LEMMA CreditTerms ==
  ASSUME NEW ip, NEW d \in Dirs, NEW cred,
         \A f \in Flows : /\ cred[f][d] \in Nat /\ lastCredited[f][d] \in Nat
                          /\ lastCredited[f][d] <= cred[f][d]
  PROVE  LET h == [f \in Flows |-> Weight(f, ip) * (cred[f][d] - lastCredited[f][d])]
         IN  /\ CreditedTo(cred, ip, d) = SumFunctionOnSet(h, Flows)
             /\ \A f \in Flows : h[f] \in Nat
             /\ CreditedTo(cred, ip, d) \in Nat
<1> DEFINE h == [f \in Flows |-> Weight(f, ip) * (cred[f][d] - lastCredited[f][d])]
<1>1. CreditedTo(cred, ip, d) = SumFunctionOnSet(h, Flows)
  BY DEF CreditedTo, SumFunction
<1>2. ASSUME NEW f \in Flows
      PROVE  h[f] \in Nat
  <2>1. cred[f][d] - lastCredited[f][d] \in Nat
    OBVIOUS
  <2> QED  BY <2>1, WeightValues, WeightedMonotone
<1> HIDE DEF h
<1>3. SumFunctionOnSet(h, Flows) \in Nat
  BY <1>2, FiniteAssumption, SumType
<1> QED
  BY <1>1, <1>2, <1>3 DEF h

(* Entries of distinct flows add up to no more than the flows' credit. *)
LEMMA AggregateBounded ==
  ASSUME AccountInv, SampleInv, NoFlowTwice, NEW ip, NEW d \in Dirs
  PROVE  /\ AggregateIPStats(flows, ip, d) \in Nat /\ CreditedTo(credited, ip, d) \in Nat
         /\ AggregateIPStats(flows, ip, d) <= CreditedTo(credited, ip, d)
<1> DEFINE g == [i \in DOMAIN flows |-> Weight(flows[i].key, ip) * flows[i].delta[d]]
           h == [f \in Flows |-> Weight(f, ip) * (credited[f][d] - lastCredited[f][d])]
           key == [i \in DOMAIN flows |-> flows[i].key]
<1>1. \A f \in Flows : /\ credited[f][d] \in Nat /\ lastCredited[f][d] \in Nat
                       /\ lastCredited[f][d] <= credited[f][d]
  BY DEF AccountInv, TypeOK, MapTypeOK, Counters, IntervalStarted
<1>2. /\ AggregateIPStats(flows, ip, d) = SumFunctionOnSet(g, DOMAIN flows)
      /\ \A i \in DOMAIN flows : g[i] \in Nat
      /\ AggregateIPStats(flows, ip, d) \in Nat
  BY AggregateTerms
<1>3. /\ CreditedTo(credited, ip, d) = SumFunctionOnSet(h, Flows)
      /\ \A f \in Flows : h[f] \in Nat
      /\ CreditedTo(credited, ip, d) \in Nat
  BY <1>1, CreditTerms
<1>4. ASSUME NEW i \in DOMAIN flows
      PROVE  key[i] \in Flows /\ g[i] <= h[key[i]]
  <2> DEFINE k == flows[i].key
             a == flows[i].delta[d]
             b == credited[k][d] - lastCredited[k][d]
  <2>1. k \in Flows /\ a \in Nat /\ b \in Nat /\ a <= b
    <3>1. /\ k \in Flows /\ a \in Nat /\ flows[i].credit[d] \in Nat
          /\ a <= flows[i].credit[d]
          /\ flows[i].credit[d] + lastCredited[k][d] <= credited[k][d]
      BY EntryFacts
    <3> QED  BY <1>1, <3>1
  <2>2. g[i] = Weight(k, ip) * a /\ key[i] = k /\ h[k] = Weight(k, ip) * b
    BY <2>1
  <2> HIDE DEF g, h, key, k, a, b
  <2>3. Weight(k, ip) * a <= Weight(k, ip) * b
    BY <2>1, WeightValues, WeightedMonotone
  <2> QED  BY <2>1, <2>2, <2>3
<1>5. \A i, j \in DOMAIN flows : key[i] = key[j] => i = j
  BY DEF NoFlowTwice
<1>6. IsFiniteSet(DOMAIN flows)
  BY EntriesFinite DEF AccountInv
<1> HIDE DEF g, h, key
<1>7. SumFunctionOnSet(g, DOMAIN flows) <= SumFunctionOnSet(h, Flows)
  BY <1>2, <1>3, <1>4, <1>5, <1>6, FiniteAssumption, SumCompare
<1> QED
  BY <1>2, <1>3, <1>7

(* So nobody is over a threshold without the traffic for it. *)
LEMMA OverIsCredited ==
  ASSUME AccountInv, SampleInv, NoFlowTwice, NEW ip, OverThreshold(flows, ip)
  PROVE  CreditedOver(credited, ip)
<1>1. "rx" \in Dirs /\ "tx" \in Dirs
  BY DEF Dirs
<1>2. CASE BanRx > 0 /\ AggregateIPStats(flows, ip, "rx") > BanRx
  BY <1>1, <1>2, AggregateBounded, BanAssumption DEF CreditedOver
<1>3. CASE BanTx > 0 /\ AggregateIPStats(flows, ip, "tx") > BanTx
  BY <1>1, <1>3, AggregateBounded, BanAssumption DEF CreditedOver
<1> QED
  BY <1>2, <1>3 DEF OverThreshold

(* No address is banned for traffic it did not have, as long as the pass   *)
(* lists no flow twice: whatever was evicted, recreated or added between   *)
(* the samples, and whichever of the two thresholds it was held against.   *)
THEOREM BansMatchTraffic == Spec => []BanMatchesTraffic
<1>1. AccountInv /\ SampleInv => BanMatchesTraffic
  BY KeysDistinct, OverIsCredited DEF BanMatchesTraffic
<1> QED
  BY AccountAlways, SampleAlways, <1>1, PTL

-----------------------------------------------------------------------------
LEMMA InOrderInit == Init => InOrder
BY DEF Init, InOrder, NoFlowTwice

(* What an earlier key is before, a later key's successors are as well. *)
LEMMA BeforeTransitive ==
  ASSUME TypeOK, OrderInv, NEW i \in DOMAIN flowMap, NEW j \in DOMAIN flowMap,
         NEW k \in Flows, Before(i, j), Before(j, k)
  PROVE  Before(i, k)
<1>1. Bucket[i] \in Nat /\ Bucket[j] \in Nat /\ Bucket[k] \in Nat
  BY BucketAssumption DEF TypeOK, MapTypeOK
<1>2. <<j, k>> \in ahead => k \in DOMAIN flowMap
  BY DEF TypeOK
<1>3. <<i, j>> \in ahead => Bucket[i] = Bucket[j]
  BY DEF OrderInv
<1>4. <<j, k>> \in ahead => Bucket[j] = Bucket[k]
  BY <1>2 DEF OrderInv
<1>5. (<<i, j>> \in ahead /\ <<j, k>> \in ahead) => <<i, k>> \in ahead
  BY <1>2 DEF OrderInv
<1> QED
  BY <1>1, <1>3, <1>4, <1>5 DEF Before

(* A cursor whose entry is there moves on to a later key. *)
LEMMA AdvanceKeepsOrder ==
  ASSUME AccountInv, OrderInv, InOrder, AdvanceCursor
  PROVE  InOrder'
<1>1. /\ pc = "next" /\ pc' = "lookup"
      /\ cursor' \in KeysAfter(cursor)
      /\ flows' = flows /\ flowMap' = flowMap /\ ahead' = ahead
  BY DEF AdvanceCursor, First, trafficVars, mapVars
<1>2. cursor' \in DOMAIN flowMap
  BY <1>1 DEF KeysAfter
<1>3. \A k : Before(cursor, k)' <=> Before(cursor', k)
  BY <1>1 DEF Before
<1>4. ASSUME NEW i \in DOMAIN flows
      PROVE  flows[i].key # cursor' /\ ~Before(cursor', flows[i].key)
  <2>1. cursor \in DOMAIN flowMap /\ ~Before(cursor, flows[i].key)
    BY <1>1 DEF InOrder
  <2>2. Before(cursor, cursor')
    BY <1>1, <2>1 DEF KeysAfter
  <2>3. flows[i].key \in Flows
    BY EntryInFlows DEF AccountInv
  <2> QED
    BY <1>2, <2>1, <2>2, <2>3, BeforeTransitive DEF AccountInv
<1> QED
  BY <1>1, <1>2, <1>3, <1>4 DEF InOrder, NoFlowTwice

LEMMA VisitKeepsOrder ==
  ASSUME AccountInv, OrderInv, InOrder, VisitEntry
  PROVE  InOrder'
<1> DEFINE n == Len(flows)
<1>1. /\ pc = "lookup" /\ pc' = "next" /\ cursor' = cursor /\ cursor \in DOMAIN flowMap
      /\ Len(flows') = n + 1 /\ flows'[n + 1].key = cursor
      /\ \A i \in 1 .. n : flows'[i] = flows[i]
      /\ flowMap' = flowMap /\ ahead' = ahead
  BY VisitAppends DEF VisitEntry, trafficVars, mapVars
<1>2. /\ cursor \in Flows /\ n \in Nat
      /\ DOMAIN flows = 1 .. n
  BY <1>1, EntriesFinite, LenProperties DEF AccountInv, TypeOK
<1>3. DOMAIN flows' = 1 .. n + 1
  <2>1. flows' \in Seq(Entries)
    BY VisitKeepsAccount DEF AccountInv, TypeOK
  <2> QED
    BY <1>1, <2>1, LenProperties
<1>4. ASSUME NEW i \in DOMAIN flows'
      PROVE  \/ i \in DOMAIN flows /\ flows'[i] = flows[i] /\ flows'[i].key # cursor
             \/ i = n + 1 /\ flows'[i].key = cursor
  <2>1. i \in 1 .. n \/ i = n + 1
    BY <1>2, <1>3
  <2> QED
    BY <1>1, <1>2, <2>1 DEF InOrder
<1>5. NoFlowTwice'
  BY <1>4 DEF InOrder, NoFlowTwice
<1>6. \A k : Before(cursor, k)' <=> Before(cursor, k)
  BY <1>1 DEF Before
<1>7. ~Before(cursor, cursor)
  BY <1>1, WalkOrder DEF AccountInv
<1>8. \A i \in DOMAIN flows' : ~Before(cursor, flows'[i].key)
  BY <1>1, <1>4, <1>7 DEF InOrder
<1> QED
  BY <1>1, <1>2, <1>5, <1>6, <1>8 DEF InOrder

LEMMA InOrderStep ==
  ASSUME AccountInv, OrderInv, InOrder, [Next]_vars, [CursorStays]_vars
  PROVE  InOrder'
<1>1. CASE AdvanceCursor
  BY <1>1, AdvanceKeepsOrder
<1>2. CASE VisitEntry
  BY <1>2, VisitKeepsOrder
<1>3. CASE VisitMiss
  BY <1>3 DEF VisitMiss, InOrder, AccountInv, TypeOK
<1>4. CASE Tick \/ RetryAborted
  <2>1. flows' = <<>> /\ cursor' = NoKey /\ pc' = "next"
    BY <1>4 DEF Tick, RetryAborted, StartIteration
  <2> QED
    BY <2>1, NoKeyAssumption DEF InOrder, NoFlowTwice
<1>5. CASE EndOfMap \/ SettleForPartial \/ IterationError \/ Commit
  <2>1. flows' \in {flows, <<>>} /\ pc' \in {"commit", "idle"}
    BY <1>5 DEF EndOfMap, SettleForPartial, IterationError, EndPass, Commit
  <2> QED
    BY <2>1 DEF InOrder, NoFlowTwice
<1>6. CASE Traffic /\ CursorStays
  <2>1. pc' = pc /\ flows' = flows /\ cursor' = cursor
    BY <1>6 DEF Traffic, PacketOnKnownFlow, PacketOnNewFlow, iterVars
  <2>2. ASSUME NEW i \in DOMAIN flows, cursor \in Flows, pc \in {"next", "lookup"},
               Before(cursor, flows[i].key)'
        PROVE  Before(cursor, flows[i].key)
    <3>1. flows[i].key \in Flows
      BY EntryInFlows DEF AccountInv
    <3> QED
      BY <1>6, <2>1, <2>2, <3>1 DEF Before, CursorStays
  <2>3. pc = "lookup" => cursor \in Flows
    BY DEF AccountInv, TypeOK
  <2> QED
    BY <1>6, <2>1, <2>2, <2>3 DEF InOrder, NoFlowTwice, CursorStays
<1>7. CASE UNCHANGED vars
  BY <1>7 DEF vars, trafficVars, mapVars, iterVars, InOrder, NoFlowTwice, Before
<1>8. CASE Traffic /\ ~CursorStays
  BY <1>7, <1>8
<1> QED
  BY <1>1, <1>2, <1>3, <1>4, <1>5, <1>6, <1>7, <1>8 DEF Next, ProcessMap

(* -ban-pps-rx and -ban-pps-tx keep their promise in every behaviour where *)
(* the entry under the iterator's cursor is neither evicted nor replaced   *)
(* by a racing insertion of its key.  A wrong ban needs one of the two:    *)
(* either way the rest of the walk can list a flow for the second time.    *)
THEOREM WrongBansNeedLostCursor == Spec /\ [][CursorStays]_vars => []BanOnlyOverThreshold
<1>1. AccountInv /\ SampleInv /\ InOrder => BanOnlyOverThreshold
  BY OverIsCredited DEF BanOnlyOverThreshold, InOrder
<1>2. AccountInv /\ OrderInv /\ InOrder /\ [Next]_vars /\ [CursorStays]_vars => InOrder'
  BY InOrderStep
<1> QED
  BY AccountAlways, SampleAlways, OrderAlways, InOrderInit, <1>1, <1>2, PTL DEF Spec

-----------------------------------------------------------------------------
(* After a complete pass every flow whose entry survived is in the result  *)
(* with all of its credit, so what survived is never more than the sum.    *)
LEMMA SurvivedBounded ==
  ASSUME AccountInv, SampleInv, stable \subseteq DOMAIN current,
         NEW ip, NEW d \in Dirs
  PROVE  /\ AggregateIPStats(flows, ip, d) \in Nat /\ CreditedTo(Survived, ip, d) \in Nat
         /\ CreditedTo(Survived, ip, d) <= AggregateIPStats(flows, ip, d)
<1> DEFINE g == [i \in DOMAIN flows |-> Weight(flows[i].key, ip) * flows[i].delta[d]]
           h == [f \in Flows |-> Weight(f, ip) * (Survived[f][d] - lastCredited[f][d])]
           Sure == stable \cap prevIntact
           entry == [f \in Flows |-> CHOOSE i \in DOMAIN flows : Latest(i, f)]
<1>1. ASSUME NEW f \in Flows
      PROVE  /\ Survived[f][d] \in Nat /\ lastCredited[f][d] \in Nat
             /\ lastCredited[f][d] <= Survived[f][d]
             /\ f \in Sure => Survived[f] = curCredited[f]
             /\ f \notin Sure => Survived[f][d] = lastCredited[f][d]
  <2>1. lastCredited[f][d] \in Nat
    BY DEF AccountInv, TypeOK, Counters
  <2>2. CASE f \in Sure
    <3>1. f \in DOMAIN current /\ Survived[f] = curCredited[f]
      BY <2>2 DEF Survived
    <3>2. curCredited[f][d] \in Nat
      BY <3>1 DEF AccountInv, TypeOK, Counters
    <3>3. PICK i \in 1 .. Len(flows) : Latest(i, f)
      BY <3>1 DEF SampleInv, SamplesEntered
    <3>4. i \in DOMAIN flows
      BY EntriesFinite DEF AccountInv
    <3>5. flows[i].credit[d] \in Nat /\ flows[i].credit[d] + lastCredited[f][d] = curCredited[f][d]
      BY <3>3, <3>4, EntryFacts DEF Latest
    <3> QED  BY <2>1, <2>2, <3>1, <3>2, <3>5
  <2>3. CASE f \notin Sure
    BY <2>1, <2>3 DEF Survived
  <2> QED  BY <2>2, <2>3
<1>2. /\ AggregateIPStats(flows, ip, d) = SumFunctionOnSet(g, DOMAIN flows)
      /\ \A i \in DOMAIN flows : g[i] \in Nat
      /\ AggregateIPStats(flows, ip, d) \in Nat
  BY AggregateTerms
<1>3. /\ CreditedTo(Survived, ip, d) = SumFunctionOnSet(h, Flows)
      /\ \A f \in Flows : h[f] \in Nat
      /\ CreditedTo(Survived, ip, d) \in Nat
  <2> HIDE DEF Sure
  <2> QED  BY <1>1, CreditTerms
<1>4. ASSUME NEW f \in Sure
      PROVE  entry[f] \in DOMAIN flows /\ Latest(entry[f], f)
  <2>1. f \in DOMAIN current /\ f \in Flows
    BY DEF AccountInv, TypeOK
  <2>2. \E i \in DOMAIN flows : Latest(i, f)
    BY <2>1, EntriesFinite DEF SampleInv, SamplesEntered, AccountInv
  <2> QED  BY <2>1, <2>2
<1>5. ASSUME NEW f \in Flows, h[f] # 0
      PROVE  f \in Sure
  <2>1. f \notin Sure => h[f] = Weight(f, ip) * 0
    <3> HIDE DEF Sure
    <3>1. f \notin Sure => Survived[f][d] - lastCredited[f][d] = 0
      BY <1>1
    <3> QED  BY <3>1
  <2>2. Weight(f, ip) * 0 = 0
    BY WeightValues
  <2> QED  BY <1>5, <2>1, <2>2
<1>6. ASSUME NEW f \in Sure
      PROVE  h[f] = g[entry[f]]
  <2> DEFINE i == entry[f]
  <2>1. i \in DOMAIN flows /\ Latest(i, f) /\ f \in Flows
    BY <1>4 DEF AccountInv, TypeOK
  <2>2. g[i] = Weight(f, ip) * flows[i].delta[d]
    BY <2>1 DEF Latest
  <2>3. h[f] = Weight(f, ip) * (Survived[f][d] - lastCredited[f][d])
    BY <2>1
  <2> HIDE DEF g, h, i
  <2>4. /\ flows[i].delta[d] \in Nat /\ flows[i].credit[d] \in Nat
        /\ flows[i].exact => flows[i].delta[d] = flows[i].credit[d]
    BY <2>1, EntryFacts
  <2>5. flows[i].exact /\ flows[i].credit[d] + lastCredited[f][d] = curCredited[f][d]
    BY <2>1 DEF Latest
  <2>6. Survived[f][d] = curCredited[f][d] /\ lastCredited[f][d] \in Nat /\ Survived[f][d] \in Nat
    BY <1>1, <2>1
  <2>7. Survived[f][d] - lastCredited[f][d] = flows[i].delta[d]
    BY <2>4, <2>5, <2>6
  <2> QED  BY <2>2, <2>3, <2>7 DEF i
<1>7. ASSUME NEW f \in Sure, NEW e \in Sure, entry[f] = entry[e]
      PROVE  f = e
  <2> HIDE DEF Sure, entry
  <2> QED  BY <1>4, <1>7 DEF Latest
<1>8. IsFiniteSet(DOMAIN flows)
  BY EntriesFinite DEF AccountInv
<1> HIDE DEF g, h, Sure, entry
<1>9. \A f \in Flows : h[f] # 0 => entry[f] \in DOMAIN flows /\ h[f] <= g[entry[f]]
  BY <1>2, <1>3, <1>4, <1>5, <1>6
<1>10. \A f, e \in Flows : (h[f] # 0 /\ h[e] # 0 /\ entry[f] = entry[e]) => f = e
  BY <1>5, <1>7
<1>11. SumFunctionOnSet(h, Flows) <= SumFunctionOnSet(g, DOMAIN flows)
  BY <1>2, <1>3, <1>8, <1>9, <1>10, FiniteAssumption, SumCompare
<1> QED
  BY <1>2, <1>3, <1>11

(* An address that is over a threshold by surviving flows alone is banned  *)
(* by the pass that reaches the end of the map, whatever traffic evicted   *)
(* elsewhere and however often the iterator began again.                   *)
THEOREM NoBanMissed == Spec => NoMissedBan
<1> DEFINE Missed(ip) == /\ pc = "commit" /\ pc' = "idle"
                         /\ complete /\ CreditedOver(Survived, ip)
<1>1. AccountInv /\ SampleInv /\ CompletePass /\ [Next]_vars
        => [\A ip \in IPs : Missed(ip) => ip \in bannedIPs']_vars
  <2> SUFFICES ASSUME AccountInv, SampleInv, CompletePass, Next,
                      NEW ip \in IPs, Missed(ip)
               PROVE  ip \in bannedIPs'
    OBVIOUS
  <2>1. Commit
    <3>1. ~Tick /\ ~AdvanceCursor /\ ~VisitEntry /\ ~VisitMiss /\ ~EndOfMap
          /\ ~RetryAborted /\ ~SettleForPartial /\ ~IterationError
      BY DEF Tick, AdvanceCursor, VisitEntry, VisitMiss, EndOfMap, RetryAborted,
             SettleForPartial, IterationError
    <3>2. ~Traffic
      BY DEF Traffic, PacketOnKnownFlow, PacketOnNewFlow
    <3> QED  BY <3>1, <3>2 DEF Next, ProcessMap
  <2>2. stable \subseteq DOMAIN current
    BY DEF CompletePass
  <2>3. "rx" \in Dirs /\ "tx" \in Dirs
    BY DEF Dirs
  <2>4. OverThreshold(flows, ip)
    <3>1. CASE BanRx > 0 /\ CreditedTo(Survived, ip, "rx") > BanRx
      BY <2>2, <2>3, <3>1, SurvivedBounded, BanAssumption DEF OverThreshold
    <3>2. CASE BanTx > 0 /\ CreditedTo(Survived, ip, "tx") > BanTx
      BY <2>2, <2>3, <3>2, SurvivedBounded, BanAssumption DEF OverThreshold
    <3> QED  BY <3>1, <3>2 DEF CreditedOver
  <2> QED
    BY <2>1, <2>4 DEF Commit
<1>2. Spec => [][Next]_vars
  BY DEF Spec
<1> QED
  BY AccountAlways, SampleAlways, PassIsComplete, <1>1, <1>2, PTL DEF NoMissedBan

-----------------------------------------------------------------------------
(* A packet ends the silence of the side it is credited to and no other. *)
LEMMA TrafficKeepsSides ==
  ASSUME TypeOK, OneSided, NEW f \in Flows, NEW d \in Dirs, Credit(f, d),
         DOMAIN flowMap' \subseteq DOMAIN flowMap \cup {f},
         \A k \in DOMAIN flowMap' \ {f} : flowMap'[k] = flowMap[k],
         \/ flowMap'[f] = Bump(Zero, d)
         \/ f \in DOMAIN flowMap /\ flowMap'[f] = Bump(flowMap[f], d),
         UNCHANGED <<flows, current, prevStats>>
  PROVE  OneSided'
<1> SUFFICES ASSUME NEW k \in Flows, NEW e \in Dirs \ Directions(k), credited'[k][e] = 0
             PROVE  Silent(k, e)'
  BY DEF OneSided, Directions, Direction, IsMonitored
<1>1. Silent(k, e) /\ (k # f \/ e # d)
  <2>1. credited \in [Flows -> Counters] /\ credited[k] \in Counters /\ credited[k][e] \in Nat
    BY DEF TypeOK, MapTypeOK, Counters
  <2>2. credited'[k][e] = IF k = f /\ e = d THEN credited[k][e] + 1 ELSE credited[k][e]
    BY <2>1, BumpValue DEF Credit
  <2> QED
    BY <2>1, <2>2 DEF OneSided
<1>2. ASSUME k \in DOMAIN flowMap'
      PROVE  flowMap'[k][e] = 0
  <2>1. CASE k # f
    BY <1>1, <1>2, <2>1 DEF Silent
  <2>2. CASE k = f
    <3>1. e # d /\ Zero \in Counters /\ Zero[e] = 0
      BY <1>1, <2>2, CountersType DEF Zero
    <3>2. k \in DOMAIN flowMap => flowMap[k] \in Counters /\ flowMap[k][e] = 0
      BY <1>1 DEF Silent, TypeOK, MapTypeOK
    <3> QED  BY <1>1, <2>2, <3>1, <3>2, BumpValue
  <2> QED  BY <2>1, <2>2
<1> QED
  BY <1>1, <1>2 DEF Silent

(* A difference of zeros is zero, with or without a baseline. *)
LEMMA VisitKeepsSides ==
  ASSUME AccountInv, OneSided, VisitEntry
  PROVE  OneSided'
<1> DEFINE n == Len(flows)
           e == [key    |-> cursor,
                 delta  |-> FlowDelta(cursor, flowMap[cursor]),
                 credit |-> [d \in Dirs |-> credited[cursor][d] - lastCredited[cursor][d]],
                 exact  |-> cursor \in DOMAIN prevStats /\ cursor \in prevIntact]
<1>1. /\ cursor \in DOMAIN flowMap
      /\ flows' = Append(flows, e)
      /\ current' = [k \in DOMAIN current \cup {cursor} |->
                       IF k = cursor THEN flowMap[k] ELSE current[k]]
      /\ flowMap' = flowMap /\ prevStats' = prevStats /\ credited' = credited
  BY DEF VisitEntry, trafficVars, mapVars
<1>2. flows \in Seq(Entries) /\ n \in Nat /\ cursor \in Flows
  BY <1>1, LenProperties DEF AccountInv, TypeOK, MapTypeOK
<1>3. /\ Len(flows') = n + 1
      /\ \A i \in 1 .. n : flows'[i] = flows[i]
      /\ flows'[n + 1] = e
  BY VisitAppends
<1>4. e.key = cursor /\ e.delta = FlowDelta(cursor, flowMap[cursor])
  OBVIOUS
<1> HIDE DEF e
<1> SUFFICES ASSUME NEW k \in Flows, NEW d \in Dirs \ Directions(k), credited[k][d] = 0
             PROVE  Silent(k, d)'
  BY <1>1 DEF OneSided, Directions, Direction, IsMonitored
<1>5. Silent(k, d)
  BY DEF OneSided
<1>6. ASSUME NEW i \in 1 .. Len(flows'), flows'[i].key = k
      PROVE  flows'[i].delta[d] = 0
  <2>1. CASE i = n + 1
    <3>1. FlowDelta(k, flowMap[k])[d] = 0
      <4>1. k \in DOMAIN flowMap /\ flowMap[k][d] = 0
        BY <1>1, <1>3, <1>4, <1>5, <1>6, <2>1 DEF Silent
      <4>2. CASE k \in DOMAIN prevStats
        <5>1. prevStats[k][d] = 0
          BY <1>5, <4>2 DEF Silent
        <5> QED  BY <4>1, <4>2, <5>1 DEF FlowDelta, CalculateFlowMetrics
      <4>3. CASE k \notin DOMAIN prevStats
        BY <4>3 DEF FlowDelta, Zero
      <4> QED  BY <4>2, <4>3
    <3> QED  BY <1>3, <1>4, <1>6, <2>1, <3>1
  <2>2. CASE i # n + 1
    <3>1. i \in 1 .. n
      BY <1>2, <1>3, <2>2
    <3> QED  BY <1>3, <1>5, <1>6, <3>1 DEF Silent
  <2> QED  BY <2>1, <2>2
<1>7. ASSUME k \in DOMAIN current'
      PROVE  current'[k][d] = 0
  BY <1>1, <1>5, <1>7 DEF Silent
<1> QED
  BY <1>1, <1>5, <1>6, <1>7 DEF Silent

(* The new baseline is this pass's samples. *)
LEMMA CommitKeepsSides ==
  ASSUME OneSided, Commit
  PROVE  OneSided'
<1>1. /\ DOMAIN prevStats' \subseteq DOMAIN current
      /\ \A k \in DOMAIN prevStats' : prevStats'[k] = current[k]
      /\ flows' = <<>> /\ current' = Empty /\ flowMap' = flowMap /\ credited' = credited
  BY DEF Commit, CleanupStats, UpdatePrevStats, Restrict, trafficVars, mapVars
<1> SUFFICES ASSUME NEW k \in Flows, NEW d \in Dirs \ Directions(k), credited[k][d] = 0
             PROVE  Silent(k, d)'
  BY <1>1 DEF OneSided, Directions, Direction, IsMonitored
<1>2. Silent(k, d)
  BY DEF OneSided
<1> QED
  BY <1>1, <1>2 DEF Silent, Empty

LEMMA SidesInit == Init => OneSided
BY DEF Init, MapInit, OneSided, Silent, Empty

LEMMA SidesStep == AccountInv /\ OneSided /\ [Next]_vars => OneSided'
<1> SUFFICES ASSUME AccountInv, OneSided, [Next]_vars PROVE OneSided'
  OBVIOUS
<1> USE DEF AccountInv
<1>1. ASSUME NEW f \in Flows, NEW d \in Dirs, PacketOnKnownFlow(f, d)
      PROVE  OneSided'
  <2>1. /\ f \in DOMAIN flowMap /\ flowMap' = [flowMap EXCEPT ![f] = Bump(@, d)]
        /\ Credit(f, d)
        /\ UNCHANGED <<flows, current, prevStats>>
    BY <1>1 DEF PacketOnKnownFlow, AddToFlow, iterVars
  <2>2. /\ DOMAIN flowMap' = DOMAIN flowMap /\ flowMap'[f] = Bump(flowMap[f], d)
        /\ \A k \in DOMAIN flowMap' \ {f} : flowMap'[k] = flowMap[k]
    BY <2>1
  <2> QED
    BY <2>1, <2>2, TrafficKeepsSides
<1>2. ASSUME NEW f \in Flows, NEW d \in Directions(f),
             NEW victims \in SUBSET DOMAIN flowMap, PacketOnNewFlow(f, d, victims)
      PROVE  OneSided'
  <2>1. /\ flowMap' = [k \in (DOMAIN flowMap \ victims) \cup {f} |->
                         IF k = f THEN Bump(Zero, d) ELSE flowMap[k]]
        /\ UNCHANGED <<flows, current, prevStats>>
        /\ Credit(f, d) /\ d \in Dirs
    BY <1>2, DirectionInDirs DEF PacketOnNewFlow, CreateFlow, iterVars
  <2>2. /\ DOMAIN flowMap' \subseteq DOMAIN flowMap \cup {f}
        /\ flowMap'[f] = Bump(Zero, d)
        /\ \A k \in DOMAIN flowMap' \ {f} : flowMap'[k] = flowMap[k]
    BY <2>1
  <2> QED
    BY <2>1, <2>2, TrafficKeepsSides
<1>3. ASSUME UNCHANGED <<mapVars, prevStats>>,
             UNCHANGED <<flows, current>> \/ (flows' = <<>> /\ current' = Empty)
      PROVE  OneSided'
  <2> SUFFICES ASSUME NEW k \in Flows, NEW d \in Dirs \ Directions(k), credited[k][d] = 0
               PROVE  Silent(k, d)'
    BY <1>3 DEF OneSided, Directions, Direction, IsMonitored, mapVars
  <2>1. Silent(k, d)
    BY DEF OneSided
  <2> QED
    BY <1>3, <2>1 DEF Silent, Empty, mapVars
<1>4. CASE \/ Tick \/ AdvanceCursor \/ VisitMiss \/ EndOfMap \/ RetryAborted
           \/ SettleForPartial \/ IterationError \/ UNCHANGED vars
  BY <1>3, <1>4 DEF Tick, RetryAborted, StartIteration, AdvanceCursor, VisitMiss, EndOfMap,
                    SettleForPartial, IterationError, EndPass, trafficVars, mapVars, iterVars, vars
<1>5. CASE VisitEntry
  BY <1>5, VisitKeepsSides
<1>6. CASE Commit
  BY <1>6, CommitKeepsSides
<1> QED
  BY <1>1, <1>2, <1>4, <1>5, <1>6 DEF Next, Traffic, ProcessMap

LEMMA SidesAlways == Spec => []OneSided
BY SidesInit, SidesStep, AccountAlways, PTL DEF Spec

(* On the rx side an entry is charged to ip exactly when it travels to ip, *)
(* unless a packet strayed into one of ip's own flows.                     *)
LEMMA RxShare ==
  ASSUME AccountInv, SampleInv, OneSided, NEW i \in DOMAIN flows, NEW ip,
         \A f \in Flows : f.src = ip =>
           f \notin Strayed /\ ~(IsMonitored(f.src) /\ IsMonitored(f.dst))
  PROVE  Weight(flows[i].key, ip) * flows[i].delta["rx"]
           = IF flows[i].key.dst = ip /\ IsMonitored(ip) THEN flows[i].delta["rx"] ELSE 0
<1> DEFINE f == flows[i].key
           Ends == {e \in {"src", "dst"} : f[e] = ip /\ IsMonitored(ip)}
<1>1. /\ f \in Flows /\ i \in 1 .. Len(flows) /\ flows[i].delta["rx"] \in Nat
  BY EntryFacts DEF Dirs
<1>2. Cardinality({}) = 0 /\ Cardinality({"dst"}) = 1
  BY FS_EmptySet, FS_Singleton
<1>3. CASE ~IsMonitored(ip) \/ (f.src # ip /\ f.dst # ip)
  <2>1. Ends = {}
    BY <1>3
  <2> HIDE DEF Ends, f
  <2>2. Weight(f, ip) = 0
    BY <1>2, <2>1 DEF Weight, Ends
  <2> QED  BY <1>1, <1>3, <2>2 DEF f
<1>4. CASE IsMonitored(ip) /\ f.src # ip /\ f.dst = ip
  <2>1. Ends = {"dst"}
    BY <1>4
  <2> HIDE DEF Ends, f
  <2>2. Weight(f, ip) = 1
    BY <1>2, <2>1 DEF Weight, Ends
  <2> QED  BY <1>1, <1>4, <2>2 DEF f
<1>5. CASE IsMonitored(ip) /\ f.src = ip
  <2> HIDE DEF f
  <2>1. IsMonitored(f.src) /\ ~IsMonitored(f.dst) /\ f.dst # ip
    BY <1>1, <1>5
  <2>2. "rx" \in Dirs \ Directions(f)
    BY <2>1 DEF Dirs, Directions, Direction
  <2>3. Silent(f, "rx")
    <3>1. credited[f]["rx"] \in Nat
      BY <1>1, <2>2 DEF AccountInv, TypeOK, MapTypeOK, Counters
    <3>2. credited[f]["rx"] = 0
      BY <1>1, <1>5, <2>2, <3>1 DEF Strayed, f
    <3> QED
      BY <1>1, <2>2, <3>2 DEF OneSided
  <2>4. flows[i].delta["rx"] = 0
    BY <1>1, <2>3 DEF Silent, f
  <2>5. Weight(f, ip) * 0 = 0
    BY WeightValues
  <2> QED  BY <2>1, <2>4, <2>5 DEF f
<1> QED
  BY <1>3, <1>4, <1>5

LEMMA RxReceived == AccountInv /\ SampleInv /\ OneSided => RxMeansReceived
<1> SUFFICES ASSUME AccountInv, SampleInv, OneSided, NEW ip \in IPs,
                    \A f \in Flows : f.src = ip =>
                      f \notin Strayed /\ ~(IsMonitored(f.src) /\ IsMonitored(f.dst))
             PROVE  AggregateIPStats(flows, ip, "rx") = ReceivedBy(flows, ip, "rx")
  BY DEF RxMeansReceived
<1> DEFINE g == [i \in DOMAIN flows |-> Weight(flows[i].key, ip) * flows[i].delta["rx"]]
           h == [i \in DOMAIN flows |-> IF flows[i].key.dst = ip /\ IsMonitored(ip)
                                        THEN flows[i].delta["rx"] ELSE 0]
<1>1. g = h
  BY RxShare
<1>2. AggregateIPStats(flows, ip, "rx") = SumFunction(g)
  BY DEF AggregateIPStats
<1>3. ReceivedBy(flows, ip, "rx") = SumFunction(h)
  BY DEF ReceivedBy
<1> HIDE DEF g, h
<1> QED
  BY <1>1, <1>2, <1>3

(* The receive rate held against -ban-pps-rx is the traffic that travelled *)
(* towards the address, for every address whose peers are not monitored    *)
(* and whose own flows no packet of another flow has strayed into.         *)
THEOREM RxIsReceived == Spec => []RxMeansReceived
BY AccountAlways, SampleAlways, SidesAlways, RxReceived, PTL

(* With -networks set so that no flow has both ends inside, -ban-pps-rx    *)
(* bans who receives, as long as no packet has strayed into a recycled     *)
(* element.                                                                *)
THEOREM RxBansReceivers ==
  ASSUME \A f \in Flows : ~(IsMonitored(f.src) /\ IsMonitored(f.dst))
  PROVE  Spec => [](Strayed = {} => RxBanMeansReceiving)
<1>1. RxMeansReceived => (Strayed = {} => RxBanMeansReceiving)
  BY DEF RxMeansReceived, RxBanMeansReceiving
<1> QED
  BY RxIsReceived, <1>1, PTL
=============================================================================
