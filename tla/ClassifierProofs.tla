-------------------------- MODULE ClassifierProofs --------------------------
(***************************************************************************)
(* Theorems about Classifier, for any number of CPUs, elements and flows:  *)
(* it implements FlowMap, once with the packet counters and once with the  *)
(* byte counters of the map.                                               *)
(*                                                                         *)
(* An insertion maps to CreateFlow.  An addition maps to AddToFlow of the  *)
(* key that owns the element by now, whichever it is, and to a stutter if  *)
(* none does.  All that is needed of the state is TypeOK: an element has   *)
(* one owner at most, so an addition touches one entry.                    *)
(***************************************************************************)
EXTENDS Classifier, FiniteSetTheorems, TLAPS

LEMMA CountersType ==
  /\ Zero \in Counters
  /\ \A n \in Counters, d \in Dirs : Bump(n, d) \in Counters
BY DEF Zero, Counters, Bump

(* What a CPU holds while it is in update_flow. *)
LEMMA CpuHolds ==
  ASSUME TypeOK, NEW c \in CPUs
  PROVE  /\ cpu[c].pc = "insert" => cpu[c].key \in Flows /\ cpu[c].dir \in Dirs
         /\ cpu[c].pc \in {"packets", "bytes"} =>
              /\ cpu[c].key \in Flows /\ cpu[c].dir \in Dirs /\ cpu[c].at \in Elems
              /\ [cpu[c] EXCEPT !.pc = "bytes"] \in CpuStates
BY DEF TypeOK, CpuStates, Idle

LEMMA ChargeType ==
  ASSUME NEW cred \in [Flows -> Counters], NEW S, NEW d \in Dirs
  PROVE  Charge(cred, S, d) \in [Flows -> Counters]
BY CountersType DEF Charge

LEMMA DirectionsInDirs ==
  ASSUME NEW f
  PROVE  PacketMap!Directions(f) \subseteq Dirs
BY DEF PacketMap!Directions, PacketMap!Direction, Dirs

LEMMA InsertKeepsType ==
  ASSUME TypeOK, NEW c \in CPUs, NEW victims \in SUBSET DOMAIN buckets, NEW e \in Elems,
         Insert(c, victims, e)
  PROVE  TypeOK'
<1> DEFINE f == cpu[c].key
           d == cpu[c].dir
           kept == (DOMAIN buckets \ victims) \cup {f}
<1>1. f \in Flows /\ d \in Dirs
  BY CpuHolds DEF Insert
<1>2. /\ DOMAIN buckets' = kept
      /\ \A k \in kept : buckets'[k] = IF k = f THEN e ELSE buckets[k]
      /\ buckets' \in [DOMAIN buckets' -> Elems]
  BY DEF Insert, TypeOK
<1>3. \A j, k \in DOMAIN buckets' : buckets'[j] = buckets'[k] => j = k
  <2>1. \A k \in kept \ {f} : buckets[k] # e
    BY DEF Insert, Spare
  <2> QED  BY <1>2, <2>1 DEF TypeOK
<1>4. NewStats(e, d) \in Stats
  BY <1>1, CountersType DEF NewStats, Stats
<1>5. elem' \in [Elems -> Stats]
  BY <1>4 DEF Insert, TypeOK
<1>6. credited' \in [Flows -> Counters] /\ creditedBytes' \in [Flows -> Counters]
  BY <1>1, ChargeType DEF Insert, TypeOK
<1>7. disturbed' \subseteq Elems /\ cpu' \in [CPUs -> CpuStates]
  BY DEF Insert, TypeOK, CpuStates
<1>8. DOMAIN buckets' \subseteq Flows
  BY <1>1, <1>2 DEF TypeOK
<1> QED  BY <1>2, <1>3, <1>5, <1>6, <1>7, <1>8 DEF TypeOK

LEMMA AddKeepsType ==
  ASSUME TypeOK, NEW c \in CPUs, AddPacket(c) \/ AddBytes(c)
  PROVE  TypeOK'
<1> DEFINE e == cpu[c].at
           d == cpu[c].dir
<1>1. e \in Elems /\ d \in Dirs /\ [cpu[c] EXCEPT !.pc = "bytes"] \in CpuStates
  BY CpuHolds DEF AddPacket, AddBytes
<1>2. /\ elem[e] \in Stats
      /\ [elem[e] EXCEPT !.packets = Bump(@, d)] \in Stats
      /\ [elem[e] EXCEPT !.bytes = Bump(@, d)] \in Stats
  BY <1>1, CountersType DEF TypeOK, Stats
<1>3. elem' \in [Elems -> Stats]
  BY <1>1, <1>2 DEF AddPacket, AddBytes, TypeOK
<1>4. credited' \in [Flows -> Counters] /\ creditedBytes' \in [Flows -> Counters]
  BY <1>1, ChargeType DEF AddPacket, AddBytes, TypeOK
<1>5. cpu' \in [CPUs -> CpuStates]
  BY <1>1 DEF AddPacket, AddBytes, TypeOK, CpuStates
<1> QED  BY <1>3, <1>4, <1>5 DEF AddPacket, AddBytes, TypeOK

LEMMA LookupKeepsType ==
  ASSUME TypeOK, NEW c \in CPUs, NEW f \in Flows, NEW d \in Dirs,
         LookupHit(c, f, d) \/ LookupMiss(c, f, d)
  PROVE  TypeOK'
<1>1. cpu' \in [CPUs -> CpuStates]
  <2>1. CASE LookupHit(c, f, d)
    <3>1. [pc |-> "packets", key |-> f, dir |-> d, at |-> buckets[f]] \in CpuStates
      BY <2>1 DEF LookupHit, TypeOK, CpuStates
    <3> QED  BY <2>1, <3>1 DEF LookupHit, TypeOK
  <2>2. CASE LookupMiss(c, f, d)
    <3>1. [pc |-> "insert", key |-> f, dir |-> d] \in CpuStates
      BY DEF CpuStates
    <3> QED  BY <2>2, <3>1 DEF LookupMiss, TypeOK
  <2> QED  BY <2>1, <2>2
<1> QED  BY <1>1 DEF LookupHit, LookupMiss, TypeOK

(* The states of the classifier and of flow_cnt: Classifier.TypeOK, for any *)
(* number of CPUs racing in update_flow.                                    *)
THEOREM TypeCorrect == Spec => []TypeOK
<1>1. Init => TypeOK
  BY CountersType DEF Init, TypeOK, Stats, CpuStates
<1>2. TypeOK /\ [Next]_vars => TypeOK'
  <2> SUFFICES ASSUME TypeOK, [Next]_vars PROVE TypeOK'
    OBVIOUS
  <2>1. ASSUME NEW c \in CPUs, Receive(c) PROVE TypeOK'
    BY <2>1, LookupKeepsType, DirectionsInDirs DEF Receive
  <2>2. ASSUME NEW c \in CPUs, NEW victims \in SUBSET DOMAIN buckets, NEW e \in Elems,
               Insert(c, victims, e)
        PROVE  TypeOK'
    BY <2>2, InsertKeepsType
  <2>3. ASSUME NEW c \in CPUs, AddPacket(c) \/ AddBytes(c) PROVE TypeOK'
    BY <2>3, AddKeepsType
  <2>4. CASE UNCHANGED vars
    BY <2>4 DEF vars, TypeOK, Owners
  <2> QED  BY <2>1, <2>2, <2>3, <2>4 DEF Next
<1> QED  BY <1>1, <1>2, PTL DEF Spec

-----------------------------------------------------------------------------
(* FlowMap's own copy of FiniteSets counts alike. *)
LEMMA SameCardinality ==
  ASSUME NEW S
  PROVE  PacketMap!Cardinality(S) = Cardinality(S) /\ ByteMap!Cardinality(S) = Cardinality(S)
BY DEF PacketMap!Cardinality, ByteMap!Cardinality, Cardinality

(* The LRU has to drop an entry for a new key when every element is in use. *)
LEMMA FullMapDrops ==
  ASSUME TypeOK, NEW c \in CPUs, NEW e \in Elems, Insert(c, {}, e)
  PROVE  ~(cpu[c].key \notin DOMAIN buckets
           /\ Cardinality(DOMAIN buckets) >= Cardinality(Elems))
<1> DEFINE T == Elems \ {e}
<1>1. buckets \in Injection(DOMAIN buckets, T)
  <2>1. \A k \in DOMAIN buckets : buckets[k] \in T
    BY DEF Insert, Spare, TypeOK
  <2> QED  BY <2>1 DEF Injection, IsInjective, TypeOK
<1>2. IsFiniteSet(T) /\ Cardinality(T) = Cardinality(Elems) - 1
  BY FS_RemoveElement, ElemsAssumption
<1>3. Cardinality(Elems) \in Nat /\ Cardinality(T) \in Nat
  BY <1>2, FS_CardinalityType, ElemsAssumption
<1>4. IsFiniteSet(DOMAIN buckets) /\ Cardinality(DOMAIN buckets) <= Cardinality(T)
  BY <1>1, <1>2, FS_Injection
<1>5. Cardinality(DOMAIN buckets) \in Nat
  BY <1>4, FS_CardinalityType
<1> QED  BY <1>2, <1>3, <1>4, <1>5

(* An insertion is a CreateFlow of both counters. *)
LEMMA InsertCreatesFlow ==
  ASSUME TypeOK, NEW c \in CPUs, NEW victims \in SUBSET DOMAIN buckets, NEW e \in Elems,
         Insert(c, victims, e)
  PROVE  PacketMap!MapNext /\ ByteMap!MapNext
<1> DEFINE f == cpu[c].key
           d == cpu[c].dir
           others == victims \ {f}
           kept == (DOMAIN buckets \ others) \cup {f}
<1>1. f \in Flows /\ d \in Dirs
  BY CpuHolds DEF Insert
<1>2. /\ buckets' = [k \in kept |-> IF k = f THEN e ELSE buckets[k]]
      /\ \A k \in kept \ {f} : buckets[k] # e /\ buckets[k] \in Elems
      /\ elem' = [elem EXCEPT ![e] = NewStats(e, d)]
  BY DEF Insert, Spare, TypeOK
<1>3. /\ elem'[e] = [packets |-> Bump(Zero, d), bytes |-> Bump(Zero, d)]
      /\ \A o \in Elems \ {e} : elem'[o] = elem[o]
  BY <1>2 DEF NewStats, TypeOK
<1>4. /\ PacketsOf' = [k \in kept |-> IF k = f THEN Bump(Zero, d) ELSE PacketsOf[k]]
      /\ BytesOf' = [k \in kept |-> IF k = f THEN Bump(Zero, d) ELSE BytesOf[k]]
  BY <1>2, <1>3 DEF PacketsOf, BytesOf
<1>5. DOMAIN PacketsOf = DOMAIN buckets /\ DOMAIN BytesOf = DOMAIN buckets
  BY DEF PacketsOf, BytesOf
<1>6. (f \notin DOMAIN buckets /\ Cardinality(DOMAIN buckets) >= Cardinality(Elems))
         => others # {}
  <2> SUFFICES ASSUME f \notin DOMAIN buckets, others = {} 
               PROVE  ~(Cardinality(DOMAIN buckets) >= Cardinality(Elems))
    OBVIOUS
  <2>1. victims = {}
    OBVIOUS
  <2> QED  BY <2>1, FullMapDrops
<1>7. /\ credited[f][d] < MaxCredit /\ creditedBytes[f][d] < MaxCredit
      /\ credited' = [credited EXCEPT ![f] = Bump(@, d)]
      /\ creditedBytes' = [creditedBytes EXCEPT ![f] = Bump(@, d)]
  BY <1>1 DEF Insert, MayCharge, Charge, TypeOK
<1>8. PacketMap!Credit(f, d) /\ ByteMap!Credit(f, d)
  BY <1>7 DEF PacketMap!Credit, ByteMap!Credit, PacketMap!Bump, ByteMap!Bump, Bump
<1>9. others \in SUBSET DOMAIN buckets /\ others \subseteq DOMAIN buckets \ {f}
  OBVIOUS
<1>10. PacketMap!CreateFlow(f, d, others)
  BY <1>4, <1>5, <1>6, <1>9, SameCardinality DEF PacketMap!CreateFlow, PacketMap!Bump, PacketMap!Zero,
                                PacketMap!Dirs, Bump, Zero, Dirs
<1>11. ByteMap!CreateFlow(f, d, others)
  BY <1>4, <1>5, <1>6, <1>9, SameCardinality DEF ByteMap!CreateFlow, ByteMap!Bump, ByteMap!Zero,
                                ByteMap!Dirs, Bump, Zero, Dirs
<1>12. PacketMap!MapNext
  BY <1>1, <1>5, <1>8, <1>9, <1>10 DEF PacketMap!MapNext, PacketMap!Dirs, Dirs
<1>13. ByteMap!MapNext
  BY <1>1, <1>5, <1>8, <1>9, <1>11 DEF ByteMap!MapNext, ByteMap!Dirs, Dirs
<1> QED  BY <1>12, <1>13

(* An element has one owner at most. *)
LEMMA OwnersAlone ==
  ASSUME TypeOK, NEW e \in Elems
  PROVE  Owners(e) = {} \/ \E k \in DOMAIN buckets : buckets[k] = e /\ Owners(e) = {k}
BY DEF Owners, TypeOK

(* The addition of a packet is AddToFlow of the owner, or invisible. *)
LEMMA AddPacketAdds ==
  ASSUME TypeOK, NEW c \in CPUs, AddPacket(c)
  PROVE  /\ PacketMap!MapNext \/ UNCHANGED <<PacketsOf, credited>>
         /\ UNCHANGED <<BytesOf, creditedBytes>>
<1> DEFINE e == cpu[c].at
           d == cpu[c].dir
<1>1. e \in Elems /\ d \in Dirs
  BY CpuHolds DEF AddPacket
<1>2. /\ elem'[e].packets = Bump(elem[e].packets, d)
      /\ elem'[e].bytes = elem[e].bytes
      /\ \A o \in Elems \ {e} : elem'[o] = elem[o]
  BY <1>1 DEF AddPacket, TypeOK, Stats
<1>3. buckets' = buckets /\ \A k \in DOMAIN buckets : buckets[k] \in Elems
  BY DEF AddPacket, TypeOK
<1>4. UNCHANGED <<BytesOf, creditedBytes>>
  BY <1>2, <1>3 DEF BytesOf, AddPacket
<1>5. CASE Owners(e) = {}
  <2>1. credited' = credited
    BY <1>5 DEF AddPacket, Charge, TypeOK
  <2>2. PacketsOf' = PacketsOf
    BY <1>2, <1>3, <1>5 DEF PacketsOf, Owners
  <2> QED  BY <1>4, <2>1, <2>2
<1>6. ASSUME NEW k \in DOMAIN buckets, buckets[k] = e, Owners(e) = {k}
      PROVE  PacketMap!MapNext
  <2>1. /\ credited[k][d] < MaxCredit
        /\ credited' = [credited EXCEPT ![k] = Bump(@, d)]
    BY <1>6 DEF AddPacket, MayCharge, Charge, TypeOK
  <2>2. \A j \in DOMAIN buckets \ {k} : buckets[j] # e
    BY <1>6 DEF Owners
  <2>3. PacketsOf' = [PacketsOf EXCEPT ![k] = Bump(@, d)]
    BY <1>2, <1>3, <1>6, <2>2 DEF PacketsOf
  <2>4. k \in Flows /\ k \in DOMAIN PacketsOf
    BY DEF TypeOK, PacketsOf
  <2>5. PacketMap!Credit(k, d) /\ PacketMap!AddToFlow(k, d)
    BY <2>1, <2>3, <2>4 DEF PacketMap!Credit, PacketMap!AddToFlow, PacketMap!Bump, Bump
  <2> QED  BY <1>1, <2>4, <2>5 DEF PacketMap!MapNext, PacketMap!Dirs, Dirs
<1> QED  BY <1>1, <1>4, <1>5, <1>6, OwnersAlone

(* The same of the bytes. *)
LEMMA AddBytesAdds ==
  ASSUME TypeOK, NEW c \in CPUs, AddBytes(c)
  PROVE  /\ ByteMap!MapNext \/ UNCHANGED <<BytesOf, creditedBytes>>
         /\ UNCHANGED <<PacketsOf, credited>>
<1> DEFINE e == cpu[c].at
           d == cpu[c].dir
<1>1. e \in Elems /\ d \in Dirs
  BY CpuHolds DEF AddBytes
<1>2. /\ elem'[e].bytes = Bump(elem[e].bytes, d)
      /\ elem'[e].packets = elem[e].packets
      /\ \A o \in Elems \ {e} : elem'[o] = elem[o]
  BY <1>1 DEF AddBytes, TypeOK, Stats
<1>3. buckets' = buckets /\ \A k \in DOMAIN buckets : buckets[k] \in Elems
  BY DEF AddBytes, TypeOK
<1>4. UNCHANGED <<PacketsOf, credited>>
  BY <1>2, <1>3 DEF PacketsOf, AddBytes
<1>5. CASE Owners(e) = {}
  <2>1. creditedBytes' = creditedBytes
    BY <1>5 DEF AddBytes, Charge, TypeOK
  <2>2. BytesOf' = BytesOf
    BY <1>2, <1>3, <1>5 DEF BytesOf, Owners
  <2> QED  BY <1>4, <2>1, <2>2
<1>6. ASSUME NEW k \in DOMAIN buckets, buckets[k] = e, Owners(e) = {k}
      PROVE  ByteMap!MapNext
  <2>1. /\ creditedBytes[k][d] < MaxCredit
        /\ creditedBytes' = [creditedBytes EXCEPT ![k] = Bump(@, d)]
    BY <1>6 DEF AddBytes, MayCharge, Charge, TypeOK
  <2>2. \A j \in DOMAIN buckets \ {k} : buckets[j] # e
    BY <1>6 DEF Owners
  <2>3. BytesOf' = [BytesOf EXCEPT ![k] = Bump(@, d)]
    BY <1>2, <1>3, <1>6, <2>2 DEF BytesOf
  <2>4. k \in Flows /\ k \in DOMAIN BytesOf
    BY DEF TypeOK, BytesOf
  <2>5. ByteMap!Credit(k, d) /\ ByteMap!AddToFlow(k, d)
    BY <2>1, <2>3, <2>4 DEF ByteMap!Credit, ByteMap!AddToFlow, ByteMap!Bump, Bump
  <2> QED  BY <1>1, <2>4, <2>5 DEF ByteMap!MapNext, ByteMap!Dirs, Dirs
<1> QED  BY <1>1, <1>4, <1>5, <1>6, OwnersAlone

(* Every step of the classifiers is one of FlowMap or leaves it alone. *)
LEMMA StepRefines ==
  ASSUME TypeOK, [Next]_vars
  PROVE  /\ PacketMap!MapNext \/ UNCHANGED <<PacketsOf, credited>>
         /\ ByteMap!MapNext \/ UNCHANGED <<BytesOf, creditedBytes>>
<1>1. ASSUME NEW c \in CPUs, Receive(c) 
      PROVE  UNCHANGED <<PacketsOf, credited, BytesOf, creditedBytes>>
  BY <1>1 DEF Receive, LookupHit, LookupMiss, PacketsOf, BytesOf
<1>2. CASE UNCHANGED vars
  BY <1>2 DEF vars, PacketsOf, BytesOf
<1> QED  BY <1>1, <1>2, InsertCreatesFlow, AddPacketAdds, AddBytesAdds DEF Next

LEMMA InitRefines ==
  ASSUME Init
  PROVE  PacketMap!MapInit /\ ByteMap!MapInit
BY DEF Init, PacketsOf, BytesOf, PacketMap!MapInit, PacketMap!Empty, PacketMap!Zero,
       PacketMap!Dirs, ByteMap!MapInit, ByteMap!Empty, ByteMap!Zero, ByteMap!Dirs,
       Zero, Dirs

(* What the collector may assume of the packet counters: however lookups,   *)
(* additions and recycled elements interleave, user space sees whole packets *)
(* added to entries, fresh entries and evictions, as in FlowMap.            *)
THEOREM PacketRefinement == Spec => PacketsRefineFlowMap
<1>1. TypeOK /\ [Next]_vars => [PacketMap!MapNext]_<<PacketsOf, credited>>
  BY StepRefines
<1>2. Init => PacketMap!MapInit
  BY InitRefines
<1> QED  BY <1>1, <1>2, TypeCorrect, PTL
         DEF Spec, PacketsRefineFlowMap, PacketMap!MapSpec, PacketMap!mapVars

(* The same of the byte counters, which the Mbps rates come from. *)
THEOREM ByteRefinement == Spec => BytesRefineFlowMap
<1>1. TypeOK /\ [Next]_vars => [ByteMap!MapNext]_<<BytesOf, creditedBytes>>
  BY StepRefines
<1>2. Init => ByteMap!MapInit
  BY InitRefines
<1> QED  BY <1>1, <1>2, TypeCorrect, PTL
         DEF Spec, BytesRefineFlowMap, ByteMap!MapSpec, ByteMap!mapVars

-----------------------------------------------------------------------------
(* The two halves of ExactUnlessDisturbed. *)
PointersOwned ==
  \A c \in CPUs : \A e \in Elems \ disturbed : PointsAt(c, e) => Owners(e) = {cpu[c].key}
BytesLag(k, d) ==
  buckets[k] \notin disturbed =>
    elem[buckets[k]].packets[d] =
      elem[buckets[k]].bytes[d] + Cardinality(AddingBytes(buckets[k], d))

LEMMA AddingBytesFinite ==
  ASSUME NEW e, NEW d
  PROVE  IsFiniteSet(AddingBytes(e, d)) /\ Cardinality(AddingBytes(e, d)) \in Nat
<1>1. AddingBytes(e, d) \in SUBSET CPUs
  BY DEF AddingBytes
<1> QED  BY <1>1, CPUsAssumption, FS_Subset, FS_CardinalityType

LEMMA EntryCounts ==
  ASSUME TypeOK, NEW k \in DOMAIN buckets, NEW d \in Dirs
  PROVE  /\ buckets[k] \in Elems
         /\ elem[buckets[k]] \in Stats
         /\ elem[buckets[k]].packets[d] \in Nat /\ elem[buckets[k]].bytes[d] \in Nat
BY DEF TypeOK, Stats, Counters

LEMMA LookupKeepsExact ==
  ASSUME TypeOK, ExactUnlessDisturbed, NEW c \in CPUs, NEW f \in Flows, NEW d \in Dirs,
         LookupHit(c, f, d) \/ LookupMiss(c, f, d)
  PROVE  ExactUnlessDisturbed'
<1>1. /\ UNCHANGED <<buckets, elem, disturbed>>
      /\ cpu[c].pc = "idle" /\ cpu'[c].pc \in {"packets", "insert"}
      /\ cpu'[c].pc = "packets" => f \in DOMAIN buckets /\ cpu'[c].at = buckets[f] /\ cpu'[c].key = f
      /\ \A x \in CPUs \ {c} : cpu'[x] = cpu[x]
  BY DEF LookupHit, LookupMiss, Idle, TypeOK
<1>2. \A e, r : AddingBytes(e, r)' = AddingBytes(e, r)
  BY <1>1 DEF AddingBytes
<1>3. PointersOwned'
  <2> SUFFICES ASSUME NEW x \in CPUs, NEW e \in Elems \ disturbed, PointsAt(x, e)'
               PROVE  Owners(e) = {cpu'[x].key}
    BY <1>1 DEF PointersOwned, Owners
  <2>1. CASE x = c
    BY <1>1, <2>1 DEF PointsAt, Owners, TypeOK
  <2>2. CASE x # c
    BY <1>1, <2>2 DEF PointsAt, ExactUnlessDisturbed
  <2> QED  BY <2>1, <2>2
<1> QED  BY <1>1, <1>2, <1>3 DEF ExactUnlessDisturbed, PointersOwned

LEMMA InsertKeepsExact ==
  ASSUME TypeOK, ExactUnlessDisturbed, NEW c \in CPUs,
         NEW victims \in SUBSET DOMAIN buckets, NEW e \in Elems, Insert(c, victims, e)
  PROVE  ExactUnlessDisturbed'
<1> DEFINE f == cpu[c].key
           d == cpu[c].dir
           Later(o, r) == {x \in CPUs : cpu'[x].pc = "bytes" /\ cpu'[x].at = o /\ cpu'[x].dir = r}
           kept == (DOMAIN buckets \ victims) \cup {f}
           Lost(o) == o = e \/ Owners(o) \cap (victims \cup {f}) # {}
<1>1. f \in Flows /\ d \in Dirs
  BY CpuHolds DEF Insert
<1>2. /\ buckets' = [k \in kept |-> IF k = f THEN e ELSE buckets[k]]
      /\ \A k \in kept \ {f} : buckets[k] # e /\ buckets[k] \in Elems
      /\ elem' = [elem EXCEPT ![e] = NewStats(e, d)]
  BY DEF Insert, Spare, TypeOK
<1>3. /\ cpu'[c].pc = "idle" /\ cpu[c].pc = "insert"
      /\ \A x \in CPUs \ {c} : cpu'[x] = cpu[x]
  BY DEF Insert, Idle, TypeOK
<1>4. disturbed' = (disturbed \ {e}) \cup {o \in Elems : Lost(o) /\ \E x \in CPUs : PointsAt(x, o)}
  BY DEF Insert
<1>5. \A x \in CPUs : \A o : PointsAt(x, o)' <=> PointsAt(x, o)
  BY <1>3 DEF PointsAt
<1>6. \A o, r : Later(o, r) = AddingBytes(o, r)
  BY <1>3 DEF AddingBytes
<1> HIDE DEF Later
<1>7. PointersOwned'
  <2> SUFFICES ASSUME NEW x \in CPUs, NEW o \in Elems, o \notin disturbed', PointsAt(x, o)'
               PROVE  Owners(o)' = {cpu'[x].key}
    BY DEF PointersOwned
  <2>1. PointsAt(x, o) /\ ~Lost(o) /\ o \notin disturbed /\ cpu'[x] = cpu[x]
    BY <1>3, <1>4, <1>5 DEF PointsAt
  <2>2. Owners(o) = {cpu[x].key} /\ o # e /\ cpu[x].key \notin victims \cup {f}
    BY <2>1 DEF ExactUnlessDisturbed
  <2>3. cpu[x].key \in DOMAIN buckets /\ buckets[cpu[x].key] = o
    BY <2>2 DEF Owners
  <2>4. cpu[x].key \in kept /\ buckets'[cpu[x].key] = o
    BY <1>2, <2>2, <2>3
  <2>5. \A k \in kept : buckets'[k] = o => k = cpu[x].key
    BY <1>2, <2>2 DEF Owners
  <2> QED  BY <1>2, <2>1, <2>4, <2>5 DEF Owners
<1>8. ASSUME NEW k \in DOMAIN buckets', NEW r \in Dirs, buckets'[k] \notin disturbed'
      PROVE  elem'[buckets'[k]].packets[r] =
               elem'[buckets'[k]].bytes[r] + Cardinality(Later(buckets'[k], r))
  <2>1. CASE k = f
    <3>1. buckets'[k] = e /\ elem'[e] = [packets |-> Bump(Zero, d), bytes |-> Bump(Zero, d)]
      BY <1>1, <1>2, <2>1 DEF NewStats, TypeOK
    <3>2. \A x \in CPUs : ~PointsAt(x, e)
      BY <1>4, <1>8, <3>1
    <3>3. AddingBytes(e, r) = {}
      BY <3>2 DEF AddingBytes, PointsAt
    <3>4. Bump(Zero, d)[r] \in Nat
      BY <1>1, CountersType DEF Counters
    <3>5. Later(buckets'[k], r) = {}
      BY <1>6, <3>1, <3>3
    <3>6. Cardinality(Later(buckets'[k], r)) = 0
      BY <3>5, FS_EmptySet
    <3> QED  BY <3>1, <3>4, <3>6
  <2>2. CASE k # f
    <3>1. /\ k \in DOMAIN buckets /\ buckets'[k] = buckets[k] /\ buckets[k] # e
          /\ elem'[buckets[k]] = elem[buckets[k]]
      BY <1>2, <2>2 DEF TypeOK
    <3>2. buckets[k] \notin disturbed
      BY <1>4, <1>8, <3>1
    <3>3. Later(buckets'[k], r) = AddingBytes(buckets[k], r)
      BY <1>6, <3>1
    <3>4. elem[buckets[k]].packets[r] =
            elem[buckets[k]].bytes[r] + Cardinality(AddingBytes(buckets[k], r))
      BY <3>1, <3>2 DEF ExactUnlessDisturbed
    <3> QED  BY <3>1, <3>3, <3>4
  <2> QED  BY <2>1, <2>2
<1> QED  BY <1>7, <1>8 DEF ExactUnlessDisturbed, PointersOwned, AddingBytes, Later

LEMMA AddPacketKeepsExact ==
  ASSUME TypeOK, ExactUnlessDisturbed, NEW c \in CPUs, AddPacket(c)
  PROVE  ExactUnlessDisturbed'
<1> DEFINE e == cpu[c].at
           d == cpu[c].dir
           Later(o, r) == {x \in CPUs : cpu'[x].pc = "bytes" /\ cpu'[x].at = o /\ cpu'[x].dir = r}
<1>1. e \in Elems /\ d \in Dirs
  BY CpuHolds DEF AddPacket
<1>2. /\ UNCHANGED <<buckets, disturbed>>
      /\ cpu[c].pc = "packets" /\ cpu' = [cpu EXCEPT ![c].pc = "bytes"]
      /\ elem' = [elem EXCEPT ![e].packets = Bump(@, d)]
  BY DEF AddPacket
<1>3. /\ cpu'[c].pc = "bytes" /\ cpu'[c].at = e /\ cpu'[c].dir = d /\ cpu'[c].key = cpu[c].key
      /\ \A x \in CPUs \ {c} : cpu'[x] = cpu[x]
  BY <1>2, CpuHolds DEF TypeOK, CpuStates
<1>4. PointersOwned'
  <2>1. \A x \in CPUs : \A o : PointsAt(x, o)' <=> PointsAt(x, o)
    BY <1>2, <1>3 DEF PointsAt
  <2> QED  BY <1>2, <1>3, <2>1 DEF PointersOwned, ExactUnlessDisturbed, Owners
<1>5. /\ Later(e, d) = AddingBytes(e, d) \cup {c} /\ c \notin AddingBytes(e, d)
      /\ \A o, r : ~(o = e /\ r = d) => Later(o, r) = AddingBytes(o, r)
  BY <1>2, <1>3 DEF AddingBytes
<1> HIDE DEF Later
<1>6. ASSUME NEW k \in DOMAIN buckets, NEW r \in Dirs, buckets[k] \notin disturbed
      PROVE  elem'[buckets[k]].packets[r] =
               elem'[buckets[k]].bytes[r] + Cardinality(Later(buckets[k], r))
  <2>1. elem[buckets[k]].packets[r] =
          elem[buckets[k]].bytes[r] + Cardinality(AddingBytes(buckets[k], r))
    BY <1>6 DEF ExactUnlessDisturbed
  <2>2. /\ elem'[buckets[k]].bytes = elem[buckets[k]].bytes
        /\ elem'[buckets[k]].packets =
             IF buckets[k] = e THEN Bump(elem[e].packets, d) ELSE elem[buckets[k]].packets
    BY <1>1, <1>2, EntryCounts DEF TypeOK, Stats
  <2>3. CASE buckets[k] = e /\ r = d
    <3>1. elem'[buckets[k]].packets[r] = elem[buckets[k]].packets[r] + 1
      BY <2>2, <2>3, EntryCounts DEF Bump, Stats, Counters
    <3>2. Cardinality(Later(buckets[k], r)) = Cardinality(AddingBytes(buckets[k], r)) + 1
      <4>1. Later(buckets[k], r) = AddingBytes(buckets[k], r) \cup {c}
        BY <1>5, <2>3
      <4>2. c \notin AddingBytes(buckets[k], r)
        BY <1>5, <2>3
      <4> QED  BY <4>1, <4>2, AddingBytesFinite, FS_AddElement
    <3> QED  BY <2>1, <2>2, <3>1, <3>2, AddingBytesFinite, EntryCounts
  <2>4. CASE ~(buckets[k] = e /\ r = d)
    <3>1. elem'[buckets[k]].packets[r] = elem[buckets[k]].packets[r]
      BY <2>2, <2>4, EntryCounts DEF Bump, Stats, Counters
    <3>2. Later(buckets[k], r) = AddingBytes(buckets[k], r)
      BY <1>5, <2>4
    <3> QED  BY <2>1, <2>2, <3>1, <3>2
  <2> QED  BY <2>3, <2>4
<1> QED  BY <1>2, <1>4, <1>6 DEF ExactUnlessDisturbed, PointersOwned, AddingBytes, Later

LEMMA AddBytesKeepsExact ==
  ASSUME TypeOK, ExactUnlessDisturbed, NEW c \in CPUs, AddBytes(c)
  PROVE  ExactUnlessDisturbed'
<1> DEFINE e == cpu[c].at
           d == cpu[c].dir
           Later(o, r) == {x \in CPUs : cpu'[x].pc = "bytes" /\ cpu'[x].at = o /\ cpu'[x].dir = r}
<1>1. e \in Elems /\ d \in Dirs
  BY CpuHolds DEF AddBytes
<1>2. /\ UNCHANGED <<buckets, disturbed>>
      /\ cpu[c].pc = "bytes" /\ cpu'[c].pc = "idle"
      /\ \A x \in CPUs \ {c} : cpu'[x] = cpu[x]
      /\ elem' = [elem EXCEPT ![e].bytes = Bump(@, d)]
  BY DEF AddBytes, Idle, TypeOK
<1>3. PointersOwned'
  BY <1>2 DEF PointersOwned, ExactUnlessDisturbed, Owners, PointsAt
<1>4. /\ Later(e, d) = AddingBytes(e, d) \ {c} /\ c \in AddingBytes(e, d)
      /\ \A o, r : ~(o = e /\ r = d) => Later(o, r) = AddingBytes(o, r)
  BY <1>2 DEF AddingBytes
<1> HIDE DEF Later
<1>5. ASSUME NEW k \in DOMAIN buckets, NEW r \in Dirs, buckets[k] \notin disturbed
      PROVE  elem'[buckets[k]].packets[r] =
               elem'[buckets[k]].bytes[r] + Cardinality(Later(buckets[k], r))
  <2>1. elem[buckets[k]].packets[r] =
          elem[buckets[k]].bytes[r] + Cardinality(AddingBytes(buckets[k], r))
    BY <1>5 DEF ExactUnlessDisturbed
  <2>2. /\ elem'[buckets[k]].packets = elem[buckets[k]].packets
        /\ elem'[buckets[k]].bytes =
             IF buckets[k] = e THEN Bump(elem[e].bytes, d) ELSE elem[buckets[k]].bytes
    BY <1>1, <1>2, EntryCounts DEF TypeOK, Stats
  <2>3. CASE buckets[k] = e /\ r = d
    <3>1. elem'[buckets[k]].bytes[r] = elem[buckets[k]].bytes[r] + 1
      BY <2>2, <2>3, EntryCounts DEF Bump, Stats, Counters
    <3>2. Cardinality(Later(buckets[k], r)) = Cardinality(AddingBytes(buckets[k], r)) - 1
      <4>1. Later(buckets[k], r) = AddingBytes(buckets[k], r) \ {c}
        BY <1>4, <2>3
      <4>2. c \in AddingBytes(buckets[k], r)
        BY <1>4, <2>3
      <4> QED  BY <4>1, <4>2, AddingBytesFinite, FS_RemoveElement
    <3> QED  BY <2>1, <2>2, <3>1, <3>2, AddingBytesFinite, EntryCounts
  <2>4. CASE ~(buckets[k] = e /\ r = d)
    <3>1. elem'[buckets[k]].bytes[r] = elem[buckets[k]].bytes[r]
      BY <2>2, <2>4, EntryCounts DEF Bump, Stats, Counters
    <3>2. Later(buckets[k], r) = AddingBytes(buckets[k], r)
      BY <1>4, <2>4
    <3> QED  BY <2>1, <2>2, <3>1, <3>2
  <2> QED  BY <2>3, <2>4
<1> QED  BY <1>2, <1>3, <1>5 DEF ExactUnlessDisturbed, PointersOwned, AddingBytes, Later

(* Only a recycled element misfiles a packet or parts packets from bytes:   *)
(* update_flow's unprotected pointer does no harm short of that.            *)
THEOREM RecyclingIsTheOnlyError == Spec => []ExactUnlessDisturbed
<1>1. Init => ExactUnlessDisturbed
  BY DEF Init, ExactUnlessDisturbed, PointsAt, Idle
<1>2. TypeOK /\ ExactUnlessDisturbed /\ [Next]_vars => ExactUnlessDisturbed'
  <2> SUFFICES ASSUME TypeOK, ExactUnlessDisturbed, [Next]_vars PROVE ExactUnlessDisturbed'
    OBVIOUS
  <2>1. ASSUME NEW c \in CPUs, Receive(c) PROVE ExactUnlessDisturbed'
    BY <2>1, LookupKeepsExact, DirectionsInDirs DEF Receive
  <2>2. CASE UNCHANGED vars
    BY <2>2 DEF vars, ExactUnlessDisturbed, PointsAt, Owners, AddingBytes
  <2> QED  BY <2>1, <2>2, InsertKeepsExact, AddPacketKeepsExact, AddBytesKeepsExact DEF Next
<1> QED  BY <1>1, <1>2, TypeCorrect, PTL DEF Spec
=============================================================================
