------------------------ MODULE NetworkFilterProofs ------------------------
(***************************************************************************)
(* The filter is exact for every width of addresses, every size of the     *)
(* bloom filter and every pair of hash functions: the maps hold what has   *)
(* been put so far (LoadInv), so once the classifiers are attached they    *)
(* hold everything, and then a bloom filter or a bitmap can only let an    *)
(* address through to the hash, which is exact.                            *)
(***************************************************************************)
EXTENDS NetworkFilter, FiniteSetTheorems, TLAPS

(* The entries are what the list asks for. *)
LEMMA EntriesAreListed ==
  Entries = ListedPrefixes("v4", Width) /\ Entries6 = ListedPrefixes("v6", Width6)
<1>1. Entries = ListedPrefixes("v4", Width)
  BY DEF Entries, ListedPrefixes, Usable
<1>2. Entries6 = ListedPrefixes("v6", Width6)
  BY DEF Entries6, ListedPrefixes, Usable6
<1> QED
  BY <1>1, <1>2

(* What has been loaded in each phase. *)
LoadInv ==
  /\ prefixes \subseteq Entries /\ prefixes6 \subseteq Entries6
  /\ count \in {0, Cardinality(Entries) + Cardinality(Entries6)}
  /\ bitmap \in {{}, MaskBitmap}
  /\ phase \in {"entries", "bloom", "attached"} =>
       /\ count = Cardinality(Entries) + Cardinality(Entries6)
       /\ allowed # <<>> => Entries \cup Entries6 # {}
  /\ phase \in {"bloom", "attached"} =>
       prefixes = Entries /\ prefixes6 = Entries6 /\ bitmap = MaskBitmap
  /\ bloom = {b \in BloomOf(Entries) : WordOf(b) < words}
  /\ phase \in {"count", "entries", "bloom"} => words < BloomWords
  /\ phase = "attached" => words = BloomWords

-----------------------------------------------------------------------------
LEMMA PrefixInRange ==
  ASSUME NEW width \in {Width, Width6}, NEW bits \in 0 .. width,
         NEW ip \in 0 .. Block(width, 0) - 1
  PROVE  Prefix(ip, bits, width) \in 0 .. Block(width, 0) - 1
<1>1. Block(width, bits) \in Nat \ {0} /\ Block(width, 0) \in Nat \ {0}
  BY BlockAssumption, WidthAssumption
<1> DEFINE m == Block(width, bits)
<1>2. ip \in Nat /\ m \in Nat \ {0} /\ ip % m \in 0 .. ip
  <2>1. \A i \in Nat, k \in Nat \ {0} : i % k \in 0 .. i
    BY SMTT(30)
  <2> QED
    BY <1>1, <2>1
<1> HIDE DEF m
<1>3. ip - (ip % m) \in 0 .. ip
  BY <1>2
<1> QED
  BY <1>1, <1>3 DEF Prefix, m

LEMMA WordsCoverBits ==
  ASSUME NEW b \in 0 .. BloomBits - 1
  PROVE  WordOf(b) \in 0 .. BloomWords - 1
<1>1. \A i, k, n \in Nat : (k > 0 /\ i < n * k) => (i \div k) \in 0 .. n - 1
  BY SMTT(30)
<1> QED
  BY <1>1, WidthAssumption DEF WordOf, BloomBits

(* The image of a finite set. *)
LEMMA FiniteImage ==
  ASSUME NEW S, IsFiniteSet(S), NEW f, S \subseteq DOMAIN f
  PROVE  IsFiniteSet({f[x] : x \in S})
<1> DEFINE T == {f[x] : x \in S}
           g == [x \in S |-> f[x]]
<1>1. g \in Surjection(S, T)
  BY DEF Surjection
<1> QED
  BY <1>1, FS_Surjection

(* The list is finite, and so is what is made of it. *)
LEMMA EntriesFinite ==
  ASSUME allowed \in AllowedNets
  PROVE  /\ Entries \subseteq Keys /\ IsFiniteSet(Entries)
         /\ Entries6 \subseteq Keys6 /\ IsFiniteSet(Entries6)
<1>1. allowed \in Seq(Networks)
  BY NetsAssumption
<1>2. ListedNets \subseteq Networks /\ IsFiniteSet(ListedNets)
  <2>1. IsFiniteSet(1 .. Len(allowed)) /\ DOMAIN allowed = 1 .. Len(allowed)
    BY <1>1, FS_Interval
  <2>2. IsFiniteSet({allowed[i] : i \in DOMAIN allowed})
    <3>1. IsFiniteSet(DOMAIN allowed)
      BY <2>1
    <3> QED
      BY <3>1, FiniteImage
  <2> QED
    BY <1>1, <2>2 DEF ListedNets
<1>3. Entries \subseteq Keys
  <2> SUFFICES ASSUME NEW net \in ListedNets, Usable(net)
               PROVE  <<Prefix(net.ip, net.ones, Width), net.ones>> \in Keys
    BY DEF Entries
  <2>1. net.ip \in IPs /\ net.ones \in 1 .. Width
    BY <1>2 DEF Usable, Networks
  <2> QED
    BY <2>1, PrefixInRange, WidthAssumption DEF IPs, Keys
<1>4. Entries6 \subseteq Keys6
  <2> SUFFICES ASSUME NEW net \in ListedNets, Usable6(net)
               PROVE  <<Prefix(net.ip, net.ones, Width6), net.ones>> \in Keys6
    BY DEF Entries6
  <2>1. net.ip \in IPs6 /\ net.ones \in 1 .. Width6
    BY <1>2 DEF Usable6, Networks
  <2> QED
    BY <2>1, PrefixInRange, WidthAssumption DEF IPs6, Keys6
<1>5. IsFiniteSet({k \in ListedNets : Usable(k)}) /\ IsFiniteSet({k \in ListedNets : Usable6(k)})
  BY <1>2, FS_Subset
<1>6. IsFiniteSet(Entries)
  <2> DEFINE S == {k \in ListedNets : Usable(k)}
             key == [net \in S |-> <<Prefix(net.ip, net.ones, Width), net.ones>>]
  <2>1. Entries = {key[net] : net \in S}
    BY DEF Entries
  <2> QED
    BY <1>5, <2>1, FiniteImage
<1>7. IsFiniteSet(Entries6)
  <2> DEFINE S == {k \in ListedNets : Usable6(k)}
             key == [net \in S |-> <<Prefix(net.ip, net.ones, Width6), net.ones>>]
  <2>1. Entries6 = {key[net] : net \in S}
    BY DEF Entries6
  <2> QED
    BY <1>5, <2>1, FiniteImage
<1> QED
  BY <1>3, <1>4, <1>6, <1>7

LEMMA BloomInRange ==
  ASSUME allowed \in AllowedNets
  PROVE  BloomOf(Entries) \subseteq 0 .. BloomBits - 1
BY EntriesFinite, HashAssumption DEF BloomOf

-----------------------------------------------------------------------------
(* The part of TypeOK that LoadInv does not say. *)
Ranges ==
  /\ allowed \in AllowedNets
  /\ phase \in {"count", "entries", "bloom", "attached", "fatal"}
  /\ words \in 0 .. BloomWords

LEMMA LoadedIsTyped ==
  ASSUME Ranges, LoadInv
  PROVE  TypeOK
<1>1. bloom \subseteq BloomOf(Entries) /\ bitmap \subseteq MaskBitmap
  BY DEF LoadInv
<1> QED
  BY <1>1, EntriesAreListed DEF TypeOK, Ranges, LoadInv, MaskBitmap

LEMMA LoadInit == Init => Ranges /\ LoadInv
<1> SUFFICES ASSUME Init PROVE Ranges /\ LoadInv
  OBVIOUS
<1>1. \A b \in BloomOf(Entries) : ~(WordOf(b) < 0)
  BY BloomInRange, WordsCoverBits DEF Init
<1> QED
  BY <1>1, WidthAssumption DEF Init, Ranges, LoadInv

(* The list does not change, so neither does what is made of it. *)
LEMMA ListFixed ==
  ASSUME allowed' = allowed
  PROVE  /\ Entries' = Entries /\ Entries6' = Entries6
         /\ MaskBitmap' = MaskBitmap /\ ListedNets' = ListedNets
BY DEF Entries, Entries6, MaskBitmap, ListedNets

LEMMA LoadStep == Ranges /\ LoadInv /\ [Next]_vars => (Ranges /\ LoadInv)'
<1> SUFFICES ASSUME Ranges, LoadInv, [Next]_vars PROVE (Ranges /\ LoadInv)'
  OBVIOUS
<1>1. allowed' = allowed
  BY DEF Next, vars, PutCount, NoUsableNetworks, PutPrefix, PutPrefix6, PutMaskBitmap,
         PutBloomWord, PutFails
<1>2. /\ Entries' = Entries /\ Entries6' = Entries6
      /\ MaskBitmap' = MaskBitmap
      /\ BloomOf(Entries)' = BloomOf(Entries)
  BY <1>1, ListFixed DEF BloomOf
<1>4. CASE PutCount
  BY <1>1, <1>2, <1>4 DEF PutCount, Ranges, LoadInv
<1>5. CASE NoUsableNetworks \/ PutFails
  BY <1>1, <1>2, <1>5 DEF NoUsableNetworks, PutFails, Ranges, LoadInv
<1>6. CASE PutPrefix
  BY <1>1, <1>2, <1>6 DEF PutPrefix, Ranges, LoadInv
<1>7. CASE PutPrefix6
  BY <1>1, <1>2, <1>7 DEF PutPrefix6, Ranges, LoadInv
<1>8. CASE PutMaskBitmap
  BY <1>1, <1>2, <1>8 DEF PutMaskBitmap, Ranges, LoadInv
<1>9. CASE PutBloomWord
  <2>2. \A b \in BloomOf(Entries) : WordOf(b) \in Nat
    BY BloomInRange, WordsCoverBits DEF Ranges
  <2>3. words \in Nat /\ words < BloomWords /\ words' = words + 1 /\ BloomWords \in Nat
    BY <1>9, WidthAssumption DEF PutBloomWord, Ranges, LoadInv
  <2>4. bloom' = {b \in BloomOf(Entries) : WordOf(b) < words'}
    BY <1>9, <2>2, <2>3 DEF PutBloomWord, LoadInv
  <2>5. words' \in 0 .. BloomWords /\ (phase' = "bloom" => words' < BloomWords)
    BY <1>9, <2>3 DEF PutBloomWord
  <2>6. Ranges'
    BY <1>1, <1>9, <2>5 DEF PutBloomWord, Ranges
  <2>7. LoadInv'
    BY <1>1, <1>2, <1>9, <2>4, <2>5 DEF PutBloomWord, LoadInv
  <2> QED
    BY <2>6, <2>7
<1>10. CASE UNCHANGED vars
  BY <1>1, <1>2, <1>10 DEF vars, Ranges, LoadInv
<1> QED
  BY <1>4, <1>5, <1>6, <1>7, <1>8, <1>9, <1>10 DEF Next

(* For every list of networks: at no moment of the loading do the maps     *)
(* hold anything that the list does not ask for.                           *)
THEOREM TypeCorrect == Spec => []TypeOK
<1>1. Ranges /\ LoadInv => TypeOK
  BY LoadedIsTyped
<1> QED
  BY LoadInit, LoadStep, <1>1, PTL DEF Spec

-----------------------------------------------------------------------------
(* With everything loaded, the bitmap and the bloom filter let every       *)
(* prefix in the hash through, and the hash decides.                       *)
LEMMA AnswersAreExact ==
  ASSUME Ranges, LoadInv, phase = "attached",
         count = 0 <=> allowed = <<>>
  PROVE  FilterExact
<1>1. /\ prefixes = Entries /\ prefixes6 = Entries6 /\ bitmap = MaskBitmap
      /\ allowed \in AllowedNets /\ words = BloomWords
  BY DEF LoadInv, Ranges
<1>2. /\ Entries \subseteq Keys
      /\ allowed = <<>> => Entries = {} /\ Entries6 = {}
  BY <1>1, EntriesFinite DEF Entries, Entries6, ListedNets
<1>3. bloom = BloomOf(Entries)
  <2>1. \A b \in BloomOf(Entries) : WordOf(b) < BloomWords
    BY <1>1, BloomInRange, WordsCoverBits, WidthAssumption
  <2> QED
    BY <1>1, <2>1 DEF LoadInv
<1>4. ASSUME NEW ip \in IPs
      PROVE  IsIPMonitored(ip) <=> InNetworks("v4", ip, Width)
  <2>1. ASSUME NEW i \in bitmap, <<Prefix(ip, i + 1, Width), i + 1>> \in prefixes
        PROVE  \E net \in ListedNets : Contains(net, "v4", ip, Width)
    <3>1. PICK net \in ListedNets :
            /\ Usable(net)
            /\ <<Prefix(ip, i + 1, Width), i + 1>> = <<Prefix(net.ip, net.ones, Width), net.ones>>
      BY <1>1, <2>1 DEF Entries
    <3> QED
      BY <3>1 DEF Usable, Contains
  <2>2. ASSUME NEW net \in ListedNets, Contains(net, "v4", ip, Width)
        PROVE  \E i \in bitmap : LET key == <<Prefix(ip, i + 1, Width), i + 1>>
                                  IN  BloomMightContain(key) /\ key \in prefixes
    <3> DEFINE key == <<Prefix(net.ip, net.ones, Width), net.ones>>
    <3>1. key \in Entries
      BY <2>2 DEF Contains, Usable, Entries
    <3>2. net.ones \in 1 .. Width /\ net.ones - 1 \in bitmap /\ (net.ones - 1) + 1 = net.ones
      <4>1. key[2] \in 1 .. Width /\ key[2] = net.ones
        BY <1>2, <3>1 DEF Keys
      <4>2. key[2] - 1 \in MaskBitmap
        BY <3>1 DEF MaskBitmap
      <4> QED
        BY <1>1, <4>1, <4>2, WidthAssumption
    <3>3. key = <<Prefix(ip, net.ones, Width), net.ones>>
      BY <2>2 DEF Contains
    <3>4. BloomMightContain(key) /\ key \in prefixes
      BY <1>1, <1>3, <3>1 DEF BloomMightContain, BloomOf
    <3> QED
      BY <3>2, <3>3, <3>4
  <2> QED
    BY <2>1, <2>2 DEF IsIPMonitored, InNetworks
<1>5. ASSUME NEW ip \in IPs6
      PROVE  IsIP6Monitored(ip) <=> InNetworks("v6", ip, Width6)
  <2>1. (\E e \in prefixes6 : Prefix(ip, e[2], Width6) = e[1])
          <=> \E net \in ListedNets : Contains(net, "v6", ip, Width6)
    <3>1. ASSUME NEW net \in ListedNets, Usable6(net),
                 Prefix(ip, net.ones, Width6) = Prefix(net.ip, net.ones, Width6)
          PROVE  \E e \in prefixes6 : Prefix(ip, e[2], Width6) = e[1]
      <4> DEFINE e == <<Prefix(net.ip, net.ones, Width6), net.ones>>
      <4>1. e \in prefixes6 /\ e[1] = Prefix(net.ip, net.ones, Width6) /\ e[2] = net.ones
        BY <1>1, <3>1 DEF Entries6
      <4> QED
        BY <3>1, <4>1
    <3>2. ASSUME NEW e \in prefixes6, Prefix(ip, e[2], Width6) = e[1]
          PROVE  \E net \in ListedNets :
                   /\ Usable6(net)
                   /\ Prefix(ip, net.ones, Width6) = Prefix(net.ip, net.ones, Width6)
      BY <1>1, <3>2 DEF Entries6
    <3> QED
      BY <3>1, <3>2 DEF Usable6, Contains
  <2> QED
    BY <2>1 DEF IsIP6Monitored, InNetworks
<1> QED
  BY <1>4, <1>5 DEF FilterExact

LEMMA LoadedModes ==
  ASSUME Ranges, LoadInv, phase = "attached"
  PROVE  count = 0 <=> allowed = <<>>
<1>1. /\ IsFiniteSet(Entries) /\ IsFiniteSet(Entries6)
      /\ Cardinality(Entries) \in Nat /\ Cardinality(Entries6) \in Nat
      /\ Cardinality(Entries) = 0 <=> Entries = {}
      /\ Cardinality(Entries6) = 0 <=> Entries6 = {}
  BY EntriesFinite, FS_CardinalityType, FS_EmptySet DEF Ranges
<1>2. allowed = <<>> => Entries = {} /\ Entries6 = {}
  BY DEF Entries, Entries6, ListedNets
<1> QED
  BY <1>1, <1>2 DEF LoadInv

(* For any list that does not end the program: the kernel filters iff user *)
(* space does.                                                             *)
THEOREM ModesInAgreement == Spec => []ModesAgree
<1>1. Ranges /\ LoadInv => ModesAgree
  BY LoadedModes DEF ModesAgree
<1> QED
  BY LoadInit, LoadStep, <1>1, PTL DEF Spec

(* For any hash functions, address widths and bloom sizes: a packet's      *)
(* address is monitored exactly if one of the listed networks contains it. *)
THEOREM FilterIsExact == Spec => []FilterExact
<1>1. Ranges /\ LoadInv => FilterExact
  <2>1. CASE phase = "attached"
    BY <2>1, LoadedModes, AnswersAreExact
  <2>2. CASE phase # "attached"
    BY <2>2 DEF FilterExact
  <2> QED
    BY <2>1, <2>2
<1> QED
  BY LoadInit, LoadStep, <1>1, PTL DEF Spec
=============================================================================
