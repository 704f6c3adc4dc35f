----------------------------- MODULE Classifier -----------------------------
(***************************************************************************)
(* update_flow of flow.c in the steps other CPUs can see.  The lookup gives *)
(* a pointer into one of the map's preallocated elements, and the packet   *)
(* and its bytes are added through it by two atomic additions.  Nothing    *)
(* keeps the element: another CPU's bpf_map_update_elem may take it from   *)
(* the LRU list, or replace it, and use it for another key in between.     *)
(*                                                                         *)
(* The module shows what becomes of FlowMap, where a packet is one step.   *)
(* A packet's length is one unit here.                                     *)
(***************************************************************************)
EXTENDS Naturals, FiniteSets

CONSTANTS
  IPs, Flows, Filtering, Monitored,  \* see FlowMap
  CPUs,        \* the classifiers run on each of them
  Elems,       \* the preallocated elements of flow_cnt
  MaxCredit    \* bound: packets, and units of bytes, per key and direction

ASSUME ElemsAssumption == IsFiniteSet(Elems) /\ Elems # {}
ASSUME CPUsAssumption == IsFiniteSet(CPUs)
ASSUME CreditAssumption == MaxCredit \in Nat

VARIABLES
  buckets,     \* the hash: a function from the keys present to their elements
  elem,        \* the contents of the elements, struct flow_stats
  cpu,         \* where each CPU is in update_flow, with its arguments
  credited,       \* history: packets ever added to the entry of each key
  creditedBytes,  \* history: the same of bytes
  disturbed       \* history: elements that changed hands under a CPU's pointer

vars == <<buckets, elem, cpu, credited, creditedBytes, disturbed>>

PacketsOf == [k \in DOMAIN buckets |-> elem[buckets[k]].packets]
BytesOf == [k \in DOMAIN buckets |-> elem[buckets[k]].bytes]

(* flow_cnt as user space reads its packet and its byte counters. *)
PacketMap == INSTANCE FlowMap WITH flowMap <- PacketsOf, MapSize <- Cardinality(Elems)
ByteMap == INSTANCE FlowMap WITH flowMap <- BytesOf, credited <- creditedBytes,
                                 MapSize <- Cardinality(Elems)

Dirs == {"rx", "tx"}
Counters == [Dirs -> Nat]
Zero == [d \in Dirs |-> 0]
Bump(c, d) == [c EXCEPT ![d] = @ + 1]

Idle == [pc |-> "idle"]
PointsAt(c, e) == cpu[c].pc \in {"packets", "bytes"} /\ cpu[c].at = e

(* The key whose entry an element is, if it is one. *)
Owners(e) == {k \in DOMAIN buckets : buckets[k] = e}

(* History: what reaches an element counts for the key that owns it. *)
Charge(cred, S, d) == [k \in Flows |-> IF k \in S THEN Bump(cred[k], d) ELSE cred[k]]
MayCharge(cred, S, d) == \A k \in S : cred[k][d] < MaxCredit

-----------------------------------------------------------------------------
Init ==
  /\ buckets = [k \in {} |-> CHOOSE e \in Elems : TRUE]
  /\ elem = [e \in Elems |-> [packets |-> Zero, bytes |-> Zero]]
  /\ cpu = [c \in CPUs |-> Idle]
  /\ credited = [f \in Flows |-> Zero]
  /\ creditedBytes = [f \in Flows |-> Zero]
  /\ disturbed = {}

(* bpf_map_lookup_elem finds the entry: from here on the CPU has a pointer. *)
LookupHit(c, f, d) ==
  /\ cpu[c] = Idle
  /\ f \in DOMAIN buckets
  /\ cpu' = [cpu EXCEPT ![c] = [pc |-> "packets", key |-> f, dir |-> d, at |-> buckets[f]]]
  /\ UNCHANGED <<buckets, elem, credited, creditedBytes, disturbed>>

(* Slip: the pointer is used unchecked. *)
LookupMissUnchecked(c, f, d) ==
  /\ cpu[c] = Idle
  /\ f \notin DOMAIN buckets
  /\ cpu' = [cpu EXCEPT ![c] = [pc |-> "packets", key |-> f, dir |-> d, at |-> "null"]]
  /\ UNCHANGED <<buckets, elem, credited, creditedBytes, disturbed>>

LookupMiss(c, f, d) ==
  /\ cpu[c] = Idle
  /\ f \notin DOMAIN buckets
  /\ cpu' = [cpu EXCEPT ![c] = [pc |-> "insert", key |-> f, dir |-> d]]
  /\ UNCHANGED <<buckets, elem, credited, creditedBytes, disturbed>>

(* Slip: only the packet is stored. *)
NewStatsWithoutBytes(e, d) == [packets |-> Bump(Zero, d), bytes |-> Zero]

(* Slip: new_stats is not cleared. *)
NewStatsUncleared(e, d) == [packets |-> Bump(elem[e].packets, d), bytes |-> Bump(elem[e].bytes, d)]

(* new_stats, whatever the element it goes to held before. *)
NewStats(e, d) == [packets |-> Bump(Zero, d), bytes |-> Bump(Zero, d)]

(* The elements an insertion can get when the LRU drops the victims. *)
Spare(victims) == Elems \ {buckets[k] : k \in DOMAIN buckets \ victims}

(* bpf_map_update_elem(BPF_ANY): a spare element is filled and hashed in.   *)
(* The LRU drops entries to have one; an entry that another CPU made for    *)
(* the same key since the lookup is replaced.                               *)
Insert(c, victims, e) ==
  LET f == cpu[c].key
      d == cpu[c].dir
      lost == {o \in Elems : o = e \/ Owners(o) \cap (victims \cup {f}) # {}}
  IN
  /\ cpu[c].pc = "insert"
  /\ e \in Spare(victims)
  /\ MayCharge(credited, {f}, d) /\ MayCharge(creditedBytes, {f}, d)
  /\ buckets' = [k \in (DOMAIN buckets \ victims) \cup {f} |-> IF k = f THEN e ELSE buckets[k]]
  /\ elem' = [elem EXCEPT ![e] = NewStats(e, d)]
  /\ credited' = Charge(credited, {f}, d)
  /\ creditedBytes' = Charge(creditedBytes, {f}, d)
  /\ disturbed' = (disturbed \ {e}) \cup {o \in lost : \E x \in CPUs : PointsAt(x, o)}
  /\ cpu' = [cpu EXCEPT ![c] = Idle]

(* The two additions, to whatever the element holds by now. *)
AddPacket(c) ==
  /\ cpu[c].pc = "packets"
  /\ MayCharge(credited, Owners(cpu[c].at), cpu[c].dir)
  /\ elem' = [elem EXCEPT ![cpu[c].at].packets = Bump(@, cpu[c].dir)]
  /\ credited' = Charge(credited, Owners(cpu[c].at), cpu[c].dir)
  /\ cpu' = [cpu EXCEPT ![c].pc = "bytes"]
  /\ UNCHANGED <<buckets, creditedBytes, disturbed>>

AddBytes(c) ==
  /\ cpu[c].pc = "bytes"
  /\ MayCharge(creditedBytes, Owners(cpu[c].at), cpu[c].dir)
  /\ elem' = [elem EXCEPT ![cpu[c].at].bytes = Bump(@, cpu[c].dir)]
  /\ creditedBytes' = Charge(creditedBytes, Owners(cpu[c].at), cpu[c].dir)
  /\ cpu' = [cpu EXCEPT ![c] = Idle]
  /\ UNCHANGED <<buckets, credited, disturbed>>

(* handle_ipv4 and handle_ipv6: a packet with a monitored end arrives. *)
Receive(c) ==
  \E f \in {k \in Flows : PacketMap!Counted(k)} : \E d \in PacketMap!Directions(f) :
    LookupHit(c, f, d) \/ LookupMiss(c, f, d)

Next ==
  \E c \in CPUs :
    \/ Receive(c)
    \/ \E victims \in SUBSET DOMAIN buckets : \E e \in Elems : Insert(c, victims, e)
    \/ AddPacket(c)
    \/ AddBytes(c)

Spec == Init /\ [][Next]_vars

-----------------------------------------------------------------------------
Stats == [packets : Counters, bytes : Counters]
CpuStates ==
  {Idle} \cup [pc : {"insert"}, key : Flows, dir : Dirs]
         \cup [pc : {"packets", "bytes"}, key : Flows, dir : Dirs, at : Elems]

(* Pointers point at elements, and no element is the entry of two keys. *)
TypeOK ==
  /\ DOMAIN buckets \subseteq Flows
  /\ buckets \in [DOMAIN buckets -> Elems]
  /\ \A j, k \in DOMAIN buckets : buckets[j] = buckets[k] => j = k
  /\ elem \in [Elems -> Stats]
  /\ cpu \in [CPUs -> CpuStates]
  /\ credited \in [Flows -> Counters]
  /\ creditedBytes \in [Flows -> Counters]
  /\ disturbed \subseteq Elems

(* For user space a packet is one step: the packet counters of the map do   *)
(* what FlowMap says, though lookup and addition are apart and elements     *)
(* change hands in between ...                                              *)
PacketsRefineFlowMap == PacketMap!MapSpec

(* ... and so do the byte counters, which is why FlowMap has one number for *)
(* both.                                                                    *)
BytesRefineFlowMap == ByteMap!MapSpec

AddingBytes(e, d) == {c \in CPUs : cpu[c].pc = "bytes" /\ cpu[c].at = e /\ cpu[c].dir = d}

(* Unless its element changes hands under it, a packet is filed under its   *)
(* own key, and the bytes of an entry lag behind its packets by the CPUs    *)
(* between the two additions and no more.                                   *)
ExactUnlessDisturbed ==
  /\ \A c \in CPUs : \A e \in Elems \ disturbed : PointsAt(c, e) => Owners(e) = {cpu[c].key}
  /\ \A k \in DOMAIN buckets : \A d \in Dirs :
       buckets[k] \notin disturbed =>
         elem[buckets[k]].packets[d] =
           elem[buckets[k]].bytes[d] + Cardinality(AddingBytes(buckets[k], d))
=============================================================================
