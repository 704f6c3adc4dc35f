------------------------------ MODULE FlowMap ------------------------------
(***************************************************************************)
(* The kernel half of the collector, at the grain user space can observe:  *)
(* the LRU hash map flow_cnt of flow.c, and what the tc classifier does to *)
(* it for one packet.                                                      *)
(*                                                                         *)
(* The four counters of struct flow_stats are two by two: a packet adds 1  *)
(* to packets_rx and its length to bytes_rx, or the same on the tx side.   *)
(* The bytes follow the packets everywhere, so a counter is kept per       *)
(* direction only.  IPv4 and IPv6 share the map (IPv4 as ::ffff:a.b.c.d),  *)
(* so an address is a member of one set IPs.                               *)
(***************************************************************************)
EXTENDS Naturals, FiniteSets

CONSTANTS
  IPs,         \* addresses
  Flows,       \* the (src, dst) keys that traffic uses
  Filtering,   \* TRUE iff -networks names a usable network (network_count # 0)
  Monitored,   \* the addresses inside those networks
  MapSize,     \* max_entries of flow_cnt
  MaxCredit    \* bound: packets per flow and direction in a behaviour

ASSUME FlowsAssumption == Flows \subseteq [src : IPs, dst : IPs]
ASSUME FilterAssumption == Filtering \in BOOLEAN /\ Monitored \subseteq IPs
ASSUME BoundsAssumption == MapSize \in Nat \ {0} /\ MaxCredit \in Nat

VARIABLES
  flowMap,     \* flow_cnt: a function from the keys present to their counters
  credited     \* history: packets ever added under each key, never reset

mapVars == <<flowMap, credited>>

Dirs == {"rx", "tx"}
Counters == [Dirs -> Nat]
Zero == [d \in Dirs |-> 0]
Bump(c, d) == [c EXCEPT ![d] = @ + 1]

Empty == [k \in {} |-> Zero]

-----------------------------------------------------------------------------
(* is_ip_monitored and is_ip6_monitored: no networks means every address. *)
IsMonitored(ip) == Filtering => ip \in Monitored

(* A packet with no monitored end is ignored. *)
Counted(f) == IsMonitored(f.src) \/ IsMonitored(f.dst)

(* Slip: the direction is that of the other end. *)
DirectionOfPeer(f, egress) ==
  LET outbound == IsMonitored(f.src) /\ ~IsMonitored(f.dst)
      inbound  == ~IsMonitored(f.src) /\ IsMonitored(f.dst)
  IN  IF inbound \/ (~outbound /\ egress) THEN "tx" ELSE "rx"

(* update_flow: RX and TX are taken from the monitored end; when both ends *)
(* are monitored, from the interface hook that saw the packet.             *)
Direction(f, egress) ==
  LET outbound == IsMonitored(f.src) /\ ~IsMonitored(f.dst)
      inbound  == ~IsMonitored(f.src) /\ IsMonitored(f.dst)
  IN  IF outbound \/ (~inbound /\ egress) THEN "tx" ELSE "rx"

(* The directions of a flow's packets: either hook may see them. *)
Directions(f) == {Direction(f, egress) : egress \in BOOLEAN}

-----------------------------------------------------------------------------
(* The lookup found the entry: atomic add on its counters. *)
AddToFlow(f, d) ==
  /\ f \in DOMAIN flowMap
  /\ flowMap' = [flowMap EXCEPT ![f] = Bump(@, d)]

(* The lookup missed: bpf_map_update_elem(BPF_ANY) writes a fresh entry.   *)
(* The key may be present all the same: another CPU inserted it between    *)
(* this CPU's lookup and its update, and its counters are overwritten.     *)
(* The LRU map makes room by dropping other entries, one at least when it  *)
(* is full, and sometimes before (free elements cached by another CPU).    *)
CreateFlow(f, d, victims) ==
  /\ victims \subseteq DOMAIN flowMap \ {f}
  /\ (f \notin DOMAIN flowMap /\ Cardinality(DOMAIN flowMap) >= MapSize)
       => victims # {}
  /\ flowMap' = [k \in (DOMAIN flowMap \ victims) \cup {f} |->
                   IF k = f THEN Bump(Zero, d) ELSE flowMap[k]]

Credit(f, d) ==
  /\ credited[f][d] < MaxCredit
  /\ credited' = [credited EXCEPT ![f] = Bump(@, d)]

MapInit ==
  /\ flowMap = Empty
  /\ credited = [f \in Flows |-> Zero]

(* All that traffic does to the map, seen from user space.  The direction   *)
(* is any: a packet that Classifier files under the wrong key keeps its own. *)
MapNext ==
  \E f \in Flows : \E d \in Dirs :
    /\ Credit(f, d)
    /\ \/ AddToFlow(f, d)
       \/ \E victims \in SUBSET DOMAIN flowMap : CreateFlow(f, d, victims)

MapSpec == MapInit /\ [][MapNext]_mapVars

MapTypeOK ==
  /\ DOMAIN flowMap \subseteq Flows
  /\ flowMap \in [DOMAIN flowMap -> Counters]
  /\ credited \in [Flows -> Counters]
=============================================================================
