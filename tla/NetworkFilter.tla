--------------------------- MODULE NetworkFilter ---------------------------
(***************************************************************************)
(* The filter of -networks.  At startup main turns the parsed networks     *)
(* into five BPF maps, one Put at a time, and gives up if one fails; the   *)
(* classifier then asks them, for every packet, whether an address is      *)
(* monitored.  The two sides are in two languages and must agree on every  *)
(* prefix length; between them sits a bloom filter with false positives.   *)
(*                                                                         *)
(* Addresses are numbers.  The hashes are arbitrary functions: Go and C    *)
(* compute the same ones, and nothing else of them matters.                *)
(***************************************************************************)
EXTENDS Naturals, Sequences, FiniteSets

CONSTANTS
  Width, Width6,  \* bits of an IPv4 and of an IPv6 address
  WordBits,       \* bits of a bloom word
  BloomWords,     \* bloomWordCount
  Hash1, Hash2,   \* bloomHashes: the two bits of <<prefix, mask bits>>
  AllowedNets     \* the values of config.AllowedNets: sequences of networks

(* The number of addresses that share a prefix of so many bits. *)
Block(width, bits) == 2^(width - bits)

IPs == 0 .. Block(Width, 0) - 1
IPs6 == 0 .. Block(Width6, 0) - 1

(* The address cut to its first bits: what the masks of both sides do. *)
Prefix(ip, bits, width) == ip - (ip % Block(width, bits))

(* What net.ParseCIDR makes of a network: its address is masked.  A mapped *)
(* one (::ffff:a.b.c.d/96 and longer) has the address of an IPv4 network   *)
(* and the mask of an IPv6 one.                                            *)
Networks ==
  [family : {"v4", "mapped"}, ip : IPs, ones : 0 .. Width]
    \cup [family : {"v6"}, ip : IPs6, ones : 0 .. Width6]

Keys == IPs \X (1 .. Width)
Keys6 == IPs6 \X (1 .. Width6)
BloomBits == BloomWords * WordBits

ASSUME WidthAssumption ==
  Width \in Nat /\ Width6 \in Nat /\ WordBits \in Nat \ {0} /\ BloomWords \in Nat \ {0}
ASSUME BlockAssumption ==
  \A width \in {Width, Width6} : \A bits \in 0 .. width : Block(width, bits) \in Nat \ {0}
ASSUME HashAssumption ==
  \A key \in Keys : Hash1[key] \in 0 .. BloomBits - 1 /\ Hash2[key] \in 0 .. BloomBits - 1
ASSUME NetsAssumption == AllowedNets \subseteq Seq(Networks)

VARIABLES
  allowed,     \* config.AllowedNets
  phase,       \* "count", "entries", "bloom", "attached" or "fatal"
  count,       \* network_count
  prefixes,    \* monitored_prefixes
  prefixes6,   \* monitored_prefixes6
  bitmap,      \* mask_bitmap: the bits that are set
  bloom,       \* monitored_bloom: the bits that are set
  words        \* bloom words written

vars == <<allowed, phase, count, prefixes, prefixes6, bitmap, bloom, words>>

-----------------------------------------------------------------------------
(* Slip: /0 is not skipped. *)
UsableWithZero(net) == net.family = "v4"

(* buildNetworkFilterData skips /0 and mapped networks. *)
Usable(net) == net.family = "v4" /\ net.ones > 0
Usable6(net) == net.family = "v6" /\ net.ones > 0

ListedNets == {allowed[i] : i \in DOMAIN allowed}

(* data.entries and data.entriesV6: what is left, without duplicates. *)
Entries == {<<Prefix(n.ip, n.ones, Width), n.ones>> : n \in {k \in ListedNets : Usable(k)}}
Entries6 == {<<Prefix(n.ip, n.ones, Width6), n.ones>> : n \in {k \in ListedNets : Usable6(k)}}

(* data.maskBitmap: bit i stands for the prefix length i + 1. *)
MaskBitmap == {e[2] - 1 : e \in Entries}

(* setBloomBits for every entry. *)
BloomOf(S) == {Hash1[e] : e \in S} \cup {Hash2[e] : e \in S}

WordOf(bit) == bit \div WordBits

-----------------------------------------------------------------------------
Init ==
  /\ allowed \in AllowedNets
  /\ phase = "count"
  /\ count = 0
  /\ prefixes = {}
  /\ prefixes6 = {}
  /\ bitmap = {}
  /\ bloom = {}
  /\ words = 0

(* Slip: a list without usable networks is no error. *)
PutCountAnyway ==
  /\ phase = "count"
  /\ count' = Cardinality(Entries) + Cardinality(Entries6)
  /\ phase' = "entries"
  /\ UNCHANGED <<allowed, prefixes, prefixes6, bitmap, bloom, words>>

(* populateNetworksMap starts with the count, unless networks are given    *)
(* and none is usable ...                                                  *)
PutCount ==
  /\ phase = "count"
  /\ allowed # <<>> => Entries \cup Entries6 # {}
  /\ count' = Cardinality(Entries) + Cardinality(Entries6)
  /\ phase' = "entries"
  /\ UNCHANGED <<allowed, prefixes, prefixes6, bitmap, bloom, words>>

NoUsableNetworks ==
  /\ phase = "count"
  /\ allowed # <<>> /\ Entries \cup Entries6 = {}
  /\ phase' = "fatal"
  /\ UNCHANGED <<allowed, count, prefixes, prefixes6, bitmap, bloom, words>>

(* ... and goes on with one Put per entry, *)
PutPrefix ==
  /\ phase = "entries"
  /\ \E e \in Entries \ prefixes : prefixes' = prefixes \cup {e}
  /\ UNCHANGED <<allowed, phase, count, prefixes6, bitmap, bloom, words>>

PutPrefix6 ==
  /\ phase = "entries" /\ Entries \subseteq prefixes
  /\ \E e \in Entries6 \ prefixes6 : prefixes6' = prefixes6 \cup {e}
  /\ UNCHANGED <<allowed, phase, count, prefixes, bitmap, bloom, words>>

(* the bitmap, *)
PutMaskBitmap ==
  /\ phase = "entries" /\ Entries \subseteq prefixes /\ Entries6 \subseteq prefixes6
  /\ bitmap' = MaskBitmap
  /\ phase' = "bloom"
  /\ UNCHANGED <<allowed, count, prefixes, prefixes6, bloom, words>>

(* Slip: the last word is forgotten. *)
PutBloomWordButLast ==
  /\ phase = "bloom"
  /\ bloom' = IF words + 1 = BloomWords THEN bloom
              ELSE bloom \cup {b \in BloomOf(Entries) : WordOf(b) = words}
  /\ words' = words + 1
  /\ phase' = IF words' = BloomWords THEN "attached" ELSE "bloom"
  /\ UNCHANGED <<allowed, count, prefixes, prefixes6, bitmap>>

(* and the bloom words; only then are the classifiers attached. *)
PutBloomWord ==
  /\ phase = "bloom"
  /\ bloom' = bloom \cup {b \in BloomOf(Entries) : WordOf(b) = words}
  /\ words' = words + 1
  /\ phase' = IF words' = BloomWords THEN "attached" ELSE "bloom"
  /\ UNCHANGED <<allowed, count, prefixes, prefixes6, bitmap>>

(* A Put that fails, on a full map for instance, ends the program. *)
PutFails ==
  /\ phase \in {"count", "entries", "bloom"}
  /\ phase = "count" => allowed = <<>> \/ Entries \cup Entries6 # {}
  /\ phase' = "fatal"
  /\ UNCHANGED <<allowed, count, prefixes, prefixes6, bitmap, bloom, words>>

Next ==
  \/ PutCount \/ NoUsableNetworks
  \/ PutPrefix \/ PutPrefix6
  \/ PutMaskBitmap \/ PutBloomWord
  \/ PutFails

Spec == Init /\ [][Next]_vars

-----------------------------------------------------------------------------
(* The classifier's side. *)

BloomMightContain(key) == Hash1[key] \in bloom /\ Hash2[key] \in bloom

(* is_ip_monitored: with networks, some prefix length in use whose prefix  *)
(* of ip passes the bloom filter and is in the hash.                       *)
IsIPMonitored(ip) ==
  \/ count = 0
  \/ \E i \in bitmap : LET key == <<Prefix(ip, i + 1, Width), i + 1>>
                       IN  BloomMightContain(key) /\ key \in prefixes

(* is_ip6_monitored: the trie holds a prefix of ip. *)
IsIP6Monitored(ip) ==
  \/ count = 0
  \/ \E e \in prefixes6 : Prefix(ip, e[2], Width6) = e[1]

-----------------------------------------------------------------------------
(* What -networks means: the listed networks of the address's own family   *)
(* but /0 and mapped ones; all addresses when there is no list.            *)
Contains(net, family, ip, width) ==
  /\ net.family = family /\ net.ones > 0
  /\ Prefix(ip, net.ones, width) = Prefix(net.ip, net.ones, width)

InNetworks(family, ip, width) ==
  allowed = <<>> \/ \E net \in ListedNets : Contains(net, family, ip, width)

(* The prefixes that the list asks for in one family. *)
ListedPrefixes(family, width) ==
  {<<Prefix(net.ip, net.ones, width), net.ones>> :
     net \in {k \in ListedNets : k.family = family /\ k.ones > 0}}

(* The maps hold nothing but what the list asks for: a hash entry or a     *)
(* trie entry is the prefix of a listed network of its family, a bit of    *)
(* the bitmap its length, a bit of the bloom filter one of its hashes, and *)
(* the count, once written, is the number of those prefixes.               *)
TypeOK ==
  LET listed == ListedPrefixes("v4", Width)
      listed6 == ListedPrefixes("v6", Width6)
  IN  /\ allowed \in AllowedNets
      /\ phase \in {"count", "entries", "bloom", "attached", "fatal"}
      /\ count \in {0, Cardinality(listed) + Cardinality(listed6)}
      /\ prefixes \subseteq listed
      /\ prefixes6 \subseteq listed6
      /\ bitmap \subseteq {e[2] - 1 : e \in listed}
      /\ bloom \subseteq BloomOf(listed)
      /\ words \in 0 .. BloomWords

(* As soon as packets are counted, the chain of count, bitmap, bloom       *)
(* filter and hash answers exactly what the list of networks says, for     *)
(* every address and whatever collides in the bloom filter.                *)
FilterExact ==
  phase = "attached" =>
    /\ \A ip \in IPs : IsIPMonitored(ip) <=> InNetworks("v4", ip, Width)
    /\ \A ip \in IPs6 : IsIP6Monitored(ip) <=> InNetworks("v6", ip, Width6)

(* Kernel and user space never disagree on whether there is a filter: the  *)
(* classifier's test is network_count, that of aggregateIPStats the length *)
(* of the list, of which any part may have been skipped.                   *)
ModesAgree == phase = "attached" => (count = 0 <=> allowed = <<>>)
=============================================================================
