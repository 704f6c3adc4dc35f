-------------------------- MODULE MCNetworkFilter --------------------------
(* Instances of NetworkFilter: addresses of a few bits, hashes that collide. *)
EXTENDS NetworkFilter

CONSTANT MaxNets   \* length of the lists

Masked(net, width) == net.ip = Prefix(net.ip, net.ones, width)

(* All networks, and a few mapped ones. *)
MCNetworks ==
  {n \in Networks : /\ Masked(n, IF n.family = "v6" THEN Width6 ELSE Width)
                    /\ n.family = "mapped" => n.ones = Width /\ n.ip < 2}

MCAllowedNets == UNION {[1 .. n -> MCNetworks] : n \in 0 .. MaxNets}

(* Two prefixes share a bit, or both, of 4. *)
MCHash1 == [key \in Keys |-> (key[1] + 2 * key[2]) % BloomBits]
MCHash2 == [key \in Keys |-> (key[1] \div 2 + key[2]) % BloomBits]
=============================================================================
