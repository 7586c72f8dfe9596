----------------------------- MODULE TierProofs -----------------------------
(***************************************************************************)
(* What the operators of Tiers return, for any names, lists and sources.   *)
(* The proofs about the registry and the puller rest on these lemmas.      *)
(***************************************************************************)
EXTENDS Tiers, FiniteSetTheorems, FunctionTheorems,
        WellFoundedInduction, TLAPS

(* Listing a finite set (SetToSeq) yields its elements and nothing else.   *)
LEMMA ListingOfSet ==
    ASSUME NEW S, IsFiniteSet(S)
    PROVE  /\ SetToSeq(S) \in Seq(S)
           /\ \A x \in S : \E i \in DOMAIN SetToSeq(S) : SetToSeq(S)[i] = x
<1> DEFINE n == Cardinality(S)
<1>1. n \in Nat /\ ExistsBijection(1..n, S)
  BY FS_CardinalityType
<1>2. PICK b : b \in Bijection(1..n, S)
  BY <1>1 DEF ExistsBijection
<1>3. b \in [1..n -> S] /\ \A i, j \in 1..n : b[i] = b[j] => i = j
  BY <1>2, Fun_BijectionProperties
<1>4. b \in [1..n -> S] /\ IsInjective(b)
  BY <1>3 DEF IsInjective
<1>5. SetToSeq(S) \in [1..n -> S] /\ IsInjective(SetToSeq(S))
  BY <1>4 DEF SetToSeq
<1>6. SetToSeq(S) \in Injection(1..n, S)
  BY <1>5, Fun_IsInj DEF IsInjective
<1>7. Cardinality(1..n) = n
  BY <1>1, FS_Interval
<1>8. SetToSeq(S) \in Surjection(1..n, S)
  BY <1>6, <1>7, FS_Injection
<1>9. \A x \in S : \E i \in 1..n : SetToSeq(S)[i] = x
  BY <1>8 DEF Surjection
<1> HIDE DEF n
<1> QED
  BY <1>1, <1>5, <1>9

(* Two members make a finite set that counts two; the name a single        *)
(* container claims counts one.                                            *)
LEMMA AtLeastTwo ==
    ASSUME NEW S, IsFiniteSet(S)
    PROVE  Cardinality(S) >= 2 <=> \E x, y \in S : x # y
<1>1. Cardinality(S) \in Nat
  BY FS_CardinalityType
<1>2. Cardinality(S) = 0 <=> S = {}
  BY FS_EmptySet
<1>3. Cardinality(S) = 1 <=> \E x : S = {x}
  BY FS_Singleton
<1>4. Cardinality(S) >= 2 <=> Cardinality(S) # 0 /\ Cardinality(S) # 1
  BY <1>1
<1>5. (\E x, y \in S : x # y) <=> S # {} /\ ~\E x : S = {x}
  OBVIOUS
<1> QED
  BY <1>2, <1>3, <1>4, <1>5

(* A function of the members of a finite set has finitely many values.     *)
LEMMA FiniteImage ==
    ASSUME NEW S, IsFiniteSet(S), NEW f
    PROVE  IsFiniteSet({f[x] : x \in S})
<1> DEFINE g == [x \in S |-> f[x]]
           T == {f[x] : x \in S}
<1>1. g \in [S -> T] /\ \A t \in T : \E x \in S : g[x] = t
  OBVIOUS
<1> HIDE DEF g, T
<1>2. g \in Surjection(S, T)
  BY <1>1, Fun_IsSurj
<1>3. IsFiniteSet(T)
  BY <1>2, FS_Surjection
<1> QED
  BY <1>3 DEF T

(* The members of S have ranks, no two of them the same.                   *)
Ranked(S, rank) ==
    /\ \A a \in S : rank[a] \in Nat
    /\ \A a, b \in S : rank[a] = rank[b] => a = b

(* s lists the members of S by ascending rank.                             *)
Ascending(s, S, rank) ==
    /\ s \in [1..Cardinality(S) -> S]
    /\ \A i, j \in DOMAIN s : i < j => rank[s[i]] < rank[s[j]]

(* A finite set whose members have distinct ranks has an ascending         *)
(* enumeration: a member's place is the number of members up to it.        *)
LEMMA EnumerationExists ==
    ASSUME NEW S, IsFiniteSet(S), NEW rank, Ranked(S, rank)
    PROVE  \E s \in [1..Cardinality(S) -> S] : Ascending(s, S, rank)
<1> DEFINE k == Cardinality(S)
           upTo(a) == {x \in S : rank[x] <= rank[a]}
           place == [a \in S |-> Cardinality(upTo(a))]
<1>1. k \in Nat
  BY FS_CardinalityType
<1>2. \A a \in S : rank[a] \in Nat
  BY DEF Ranked
<1>3. ASSUME NEW a \in S
      PROVE  /\ upTo(a) \in SUBSET S /\ IsFiniteSet(upTo(a)) /\ a \in upTo(a)
             /\ place[a] = Cardinality(upTo(a)) /\ place[a] \in 1..k
  <2>1. upTo(a) \in SUBSET S /\ a \in upTo(a)
    BY <1>2
  <2>2. IsFiniteSet(upTo(a)) /\ Cardinality(upTo(a)) <= k
    BY <2>1, FS_Subset
  <2>3. Cardinality(upTo(a)) \in Nat /\ Cardinality(upTo(a)) # 0
    BY <2>1, <2>2, FS_CardinalityType, FS_EmptySet
  <2>4. place[a] = Cardinality(upTo(a))
    OBVIOUS
  <2> HIDE DEF upTo, place, k
  <2> QED
    BY <1>1, <2>1, <2>2, <2>3, <2>4
<1>4. ASSUME NEW a \in S, NEW b \in S, rank[a] <= rank[b]
      PROVE  place[a] <= place[b] /\ (place[a] = place[b] => a = b)
  <2>1. upTo(a) \in SUBSET upTo(b)
    BY <1>2, <1>4 DEF Ranked
  <2>2. /\ Cardinality(upTo(a)) <= Cardinality(upTo(b))
        /\ Cardinality(upTo(b)) = Cardinality(upTo(a)) => upTo(b) = upTo(a)
    BY <1>3, <2>1, FS_Subset
  <2>3. upTo(b) = upTo(a) => rank[b] <= rank[a]
    BY <1>3
  <2>4. rank[b] <= rank[a] => a = b
    BY <1>2, <1>4 DEF Ranked
  <2> HIDE DEF upTo, place
  <2> QED
    BY <1>3, <2>2, <2>3, <2>4
<1>5. place \in [S -> 1..k]
  BY <1>3
<1> HIDE DEF place, k, upTo
<1>6. \A a, b \in S : place[a] = place[b] => a = b
  <2> SUFFICES ASSUME NEW a \in S, NEW b \in S, place[a] = place[b] PROVE a = b
    OBVIOUS
  <2>1. rank[a] <= rank[b] \/ rank[b] <= rank[a]
    BY <1>2
  <2> QED
    BY <1>4, <2>1
<1>7. place \in Surjection(S, 1..k)
  <2>1. place \in Injection(S, 1..k)
    BY <1>5, <1>6, Fun_IsInj
  <2>2. IsFiniteSet(1..k) /\ Cardinality(1..k) = k
    BY <1>1, FS_Interval
  <2> QED
    BY <2>1, <2>2, FS_Injection DEF k
<1>8. \A i \in 1..k : \E a \in S : place[a] = i
  BY <1>7 DEF Surjection
<1> DEFINE s == [i \in 1..k |-> CHOOSE a \in S : place[a] = i]
<1>9. \A i \in 1..k : s[i] \in S /\ place[s[i]] = i
  BY <1>8
<1>10. s \in [1..k -> S]
  BY <1>9
<1>11. DOMAIN s = 1..k
  OBVIOUS
<1> HIDE DEF s
<1>12. ASSUME NEW i \in DOMAIN s, NEW j \in DOMAIN s, i < j
       PROVE  rank[s[i]] < rank[s[j]]
  <2>1. s[i] \in S /\ s[j] \in S /\ place[s[i]] = i /\ place[s[j]] = j
    BY <1>9, <1>11
  <2>2. ~(rank[s[j]] <= rank[s[i]])
    <3>1. rank[s[j]] <= rank[s[i]] => j <= i
      BY <1>4, <2>1
    <3>2. i \in Int /\ j \in Int
      BY <1>11
    <3> QED
      BY <1>12, <3>1, <3>2
  <2> QED
    BY <1>2, <2>1, <2>2
<1> QED
  BY <1>10, <1>12 DEF k, Ascending

(* An ascending enumeration leaves no member out and repeats none.         *)
LEMMA EnumerationComplete ==
    ASSUME NEW S, IsFiniteSet(S), NEW rank,
           Ranked(S, rank), NEW s, Ascending(s, S, rank)
    PROVE  /\ \A a \in S : \E i \in 1..Cardinality(S) : s[i] = a
           /\ \A i, j \in 1..Cardinality(S) : s[i] = s[j] => i = j
<1> DEFINE k == Cardinality(S)
<1>1. k \in Nat /\ s \in [1..k -> S]
  BY FS_CardinalityType DEF Ascending
<1>2. ASSUME NEW i \in 1..k, NEW j \in 1..k, s[i] = s[j]
      PROVE  i = j
  <2>1. i < j \/ j < i \/ i = j
    OBVIOUS
  <2>2. rank[s[i]] \in Nat /\ rank[s[j]] \in Nat
    BY <1>1 DEF Ranked
  <2> QED
    BY <1>1, <1>2, <2>1, <2>2 DEF Ascending
<1>3. s \in Injection(1..k, S)
  BY <1>1, <1>2, Fun_IsInj
<1>4. Cardinality(1..k) = k
  BY <1>1, FS_Interval
<1>5. s \in Surjection(1..k, S)
  BY <1>3, <1>4, FS_Injection
<1>6. \A a \in S : \E i \in 1..k : s[i] = a
  BY <1>5 DEF Surjection
<1> QED
  BY <1>2, <1>6

(* A nonempty set of naturals has a least element.                         *)
LEMMA LeastIndex ==
    ASSUME NEW S, S \subseteq Nat, S # {}
    PROVE  Min(S) \in S
<1>1. PICK m \in S : \A k \in S : ~(<<k, m>> \in OpToRel(<, Nat))
  BY WFMin, NatLessThanWellFounded
<1>2. \A k \in S : m <= k
  <2> SUFFICES ASSUME NEW k \in S PROVE m <= k
    OBVIOUS
  <2>1. <<k, m>> \in Nat \X Nat
    OBVIOUS
  <2>2. k < m => <<k, m>> \in OpToRel(<, Nat)
    BY <2>1, Zenon DEF OpToRel
  <2>3. ~(k < m)
    BY <1>1, <2>2, Zenon
  <2> QED
    BY <2>3
<1> QED
  BY <1>2 DEF Min

(* A nonempty set of indices of a list has a largest element, so the entry *)
(* "the last one wins" picks is one of the entries of the name.            *)
LEMMA MaxIndex ==
    ASSUME NEW n \in Nat, NEW S, S \subseteq 1..n, S # {}
    PROVE  Max(S) \in S /\ \A j \in S : j <= Max(S)
<1> DEFINE T == {m \in Nat : n - m \in S}
<1>1. T # {}
  <2>1. PICK i \in S : TRUE
    OBVIOUS
  <2>2. n - i \in Nat /\ n - (n - i) = i
    BY <2>1
  <2> QED
    BY <2>1, <2>2
<1>2. PICK m \in T : \A k \in T : ~(<<k, m>> \in OpToRel(<, Nat))
  BY <1>1, WFMin, NatLessThanWellFounded
<1>3. \A k \in T : m <= k
  <2> SUFFICES ASSUME NEW k \in T PROVE m <= k
    OBVIOUS
  <2>1. <<k, m>> \in Nat \X Nat
    OBVIOUS
  <2>2. k < m => <<k, m>> \in OpToRel(<, Nat)
    BY <2>1, Zenon DEF OpToRel
  <2>3. ~(k < m)
    BY <1>2, <2>2, Zenon
  <2> QED
    BY <2>3
<1>4. ASSUME NEW j \in S PROVE n - m >= j
  <2>1. j \in Int /\ n - j \in Nat /\ n - (n - j) = j
    OBVIOUS
  <2>2. n - j \in T
    BY <2>1
  <2>3. m <= n - j
    BY <2>2, <1>3
  <2> QED
    BY <2>1, <2>3
<1>5. n - m \in S
  OBVIOUS
<1>6. Max(S) \in S /\ \A j \in S : Max(S) >= j
  BY <1>4, <1>5 DEF Max
<1> QED
  BY <1>6

(* A filed service is a service under the name it is filed under, with the *)
(* source of its tier and the address and port of one of the kept entries. *)
LEMMA FiledEntry ==
    ASSUME NEW list \in Seq(RawService), NEW kept \in SUBSET DOMAIN list,
           NEW source \in Sources, NEW n \in Spellings,
           Filed(list, kept, source)[n] # Absent
    PROVE  \E i \in kept :
              /\ NormalizeName(list[i].name) = n
              /\ Filed(list, kept, source)[n] = Stamp(list[i], source)
<1> DEFINE entries == {i \in kept : NormalizeName(list[i].name) = n}
<1>1. Filed(list, kept, source)[n] =
          IF entries = {} THEN Absent ELSE Stamp(list[Max(entries)], source)
  BY DEF Filed
<1>2. entries # {}
  BY <1>1
<1>3. Len(list) \in Nat /\ entries \subseteq 1..Len(list)
  OBVIOUS
<1>4. Max(entries) \in entries
  BY <1>2, <1>3, MaxIndex
<1> QED
  BY <1>1, <1>2, <1>4

(* Stamping a raw service makes a service.                                 *)
LEMMA StampType ==
    ASSUME NEW raw \in RawService, NEW source \in Sources
    PROVE  Stamp(raw, source) \in Service
BY NameAssumption DEF Stamp, Service, RawService, NormalizeName

(* The outcome of filing a list is a tier.                                 *)
LEMMA FiledType ==
    ASSUME NEW list \in Seq(RawService), NEW kept \in SUBSET DOMAIN list,
           NEW source \in Sources
    PROVE  Filed(list, kept, source) \in Tier
<1>1. ASSUME NEW n \in Spellings, Filed(list, kept, source)[n] # Absent
      PROVE  Filed(list, kept, source)[n] \in Service
  <2>1. PICK i \in kept :
           Filed(list, kept, source)[n] = Stamp(list[i], source)
    BY <1>1, FiledEntry
  <2>2. list[i] \in RawService
    OBVIOUS
  <2> QED
    BY <2>1, <2>2, StampType
<1>2. Filed(list, kept, source)
        = [n \in Spellings |-> Filed(list, kept, source)[n]]
  BY DEF Filed
<1> QED
  BY <1>1, <1>2 DEF Tier

(* A tier filed from entries that pass the test Usable holds nothing else. *)
LEMMA FiledUsable ==
    ASSUME NEW list \in Seq(RawService), NEW kept \in SUBSET UsableIn(list),
           NEW source \in Sources
    PROVE  FiledFrom(Filed(list, kept, source), source)
<1> DEFINE tier == Filed(list, kept, source)
<1> SUFFICES ASSUME NEW n \in NamesIn(tier)
             PROVE  /\ n \in CoreNames
                    /\ tier[n].name = n
                    /\ tier[n].source = source
                    /\ tier[n].address # NoAddress
                    /\ tier[n].port >= 1 /\ tier[n].port <= MaxPort
  BY DEF FiledFrom
<1>1. n \in Spellings /\ tier[n] # Absent
  BY DEF NamesIn
<1>2. kept \in SUBSET DOMAIN list
  BY DEF UsableIn
<1>3. PICK i \in kept : /\ NormalizeName(list[i].name) = n
                        /\ tier[n] = Stamp(list[i], source)
  BY <1>1, <1>2, FiledEntry
<1>4. Usable(list[i])
  BY DEF UsableIn
<1> QED
  BY <1>3, <1>4 DEF Stamp, Usable, ValidateName

(* What SetRemote files for a node.                                        *)
LEMMA RemoteTierFacts ==
    ASSUME NEW list \in Seq(RawService), NEW id \in NodeIDs
    PROVE  RemoteTier(list, id) \in Tier /\ FiledFrom(RemoteTier(list, id), id)
<1>1. id \in Sources /\ UsableIn(list) \in SUBSET DOMAIN list
  BY DEF Sources, UsableIn
<1> QED
  BY <1>1, FiledType, FiledUsable DEF RemoteTier

(* The names SetDocker marks as conflicted are valid names.                *)
LEMMA ConflictNamesValid ==
    ASSUME NEW names \in SUBSET Spellings
    PROVE  ConflictNames(names) \subseteq CoreNames
BY DEF ConflictNames, ValidateName

(* What SetDocker files: usable services, none of them in conflict.        *)
LEMMA DockerTierFacts ==
    ASSUME NEW list \in Seq(RawService), NEW names \in SUBSET Spellings
    PROVE  /\ DockerTier(list, names) \in Tier
           /\ FiledFrom(DockerTier(list, names), SourceDocker)
           /\ ConflictNames(names) \cap NamesIn(DockerTier(list, names)) = {}
<1> DEFINE filed == Filed(list, UsableIn(list), SourceDocker)
           tier  == DockerTier(list, names)
<1>1. SourceDocker \in Sources /\ UsableIn(list) \in SUBSET DOMAIN list
  BY DEF Sources, UsableIn
<1>2. filed \in Tier /\ FiledFrom(filed, SourceDocker)
  BY <1>1, FiledType, FiledUsable
<1>3. tier = [n \in Spellings |->
                 IF n \in ConflictNames(names) THEN Absent ELSE filed[n]]
  BY DEF DockerTier
<1> HIDE DEF filed, tier
<1>4. tier \in Tier
  BY <1>2, <1>3 DEF Tier
<1>5. \A n \in NamesIn(tier) : n \in NamesIn(filed) /\ tier[n] = filed[n]
  BY <1>3 DEF NamesIn
<1>6. FiledFrom(tier, SourceDocker)
  BY <1>2, <1>5 DEF FiledFrom
<1>7. ConflictNames(names) \cap NamesIn(tier) = {}
  BY <1>3 DEF NamesIn
<1> QED
  BY <1>4, <1>6, <1>7 DEF tier

(* Nothing is filed in an empty tier.                                      *)
LEMMA EmptyTierFacts ==
    /\ EmptyTier \in Tier
    /\ NamesIn(EmptyTier) = {}
    /\ \A source : FiledFrom(EmptyTier, source)
BY DEF EmptyTier, Tier, NamesIn, FiledFrom
=============================================================================
