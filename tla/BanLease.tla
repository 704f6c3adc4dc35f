----------------------------- MODULE BanLease -----------------------------
(***************************************************************************)
(* What a ban promises, without scripts, processes or rules: an address is *)
(* leased to the firewall for BanTime, once at a time.  The firewall may   *)
(* be behind or ahead only while a lease is new or when there is none;     *)
(* when time passes it blocks the leased addresses and no others.          *)
(***************************************************************************)
EXTENDS Naturals

CONSTANTS
  IPs,      \* addresses
  BanTime   \* units of time a lease lasts

VARIABLES
  leases,   \* leased addresses, with the age of their lease
  blocked   \* addresses the firewall blocks

lvars == <<leases, blocked>>

Leased == DOMAIN leases
New(ip) == ip \in Leased /\ leases[ip] = 0

Init ==
  /\ leases = [ip \in {} |-> 0]
  /\ blocked = {}

(* An address that holds a lease gets no other: offending does not renew it. *)
Grant(ips) ==
  /\ ips \cap Leased = {}
  /\ leases' = [ip \in Leased \cup ips |-> IF ip \in ips THEN 0 ELSE leases[ip]]
  /\ UNCHANGED blocked

(* No unit of time passes while the firewall is not what the leases say. *)
Age ==
  /\ blocked = Leased
  /\ leases' = [ip \in Leased |-> IF leases[ip] < BanTime THEN leases[ip] + 1 ELSE leases[ip]]
  /\ UNCHANGED blocked

(* Only a lease that is due ends. *)
Expire(ips) ==
  /\ \A ip \in ips : ip \in Leased /\ leases[ip] >= BanTime
  /\ leases' = [ip \in Leased \ ips |-> leases[ip]]
  /\ UNCHANGED blocked

Block(ip) ==
  /\ New(ip)
  /\ blocked' = blocked \cup {ip}
  /\ UNCHANGED leases

Lift(ip) ==
  /\ ip \in Leased => New(ip)
  /\ blocked' = blocked \ {ip}
  /\ UNCHANGED leases

Next ==
  \/ Age
  \/ \E ips \in SUBSET IPs : Grant(ips) \/ Expire(ips)
  \/ \E ip \in IPs : Block(ip) \/ Lift(ip)

Spec == Init /\ [][Next]_lvars

-----------------------------------------------------------------------------
(* A lease that has lasted a unit of time is enforced. *)
Enforced == \A ip \in Leased : New(ip) \/ ip \in blocked
=============================================================================
