--------------------------- MODULE RegistryProofs ---------------------------
(***************************************************************************)
(* The registry's invariants and those of its readers (Requests), for any  *)
(* set of names, nodes and inputs.                                         *)
(***************************************************************************)
EXTENDS Requests, TierProofs

(* One invariant carries the rest: a tier is well typed because it is filed*)
(* by the rules, and the Docker tier avoids the conflicts it is set with.  *)
Inv == TypeOK /\ WellFiled /\ NoSilentChoice

(* A registered service is filed under its name.                           *)
LEMMA AddFiles ==
    ASSUME NEW body \in RawService, Usable(body), runtime \in Tier,
           FiledFrom(runtime, SourceRuntime),
           NEW tier, tier = [runtime EXCEPT ![NormalizeName(body.name)] =
                                Stamp(body, SourceRuntime)]
    PROVE  tier \in Tier /\ FiledFrom(tier, SourceRuntime)
<1> DEFINE n == NormalizeName(body.name)
           svc == Stamp(body, SourceRuntime)
<1>1. n \in CoreNames /\ n \in Spellings
  BY NameAssumption DEF Usable, ValidateName
<1>2. svc \in Service
  BY StampType DEF Sources
<1>3. /\ svc.name = n /\ svc.source = SourceRuntime
      /\ svc.address # NoAddress /\ svc.port >= 1 /\ svc.port <= MaxPort
  BY DEF Stamp, Usable
<1> HIDE DEF n, svc
<1>4. tier = [runtime EXCEPT ![n] = svc]
  BY DEF n, svc
<1>5. tier \in Tier
  BY <1>1, <1>2, <1>4 DEF Tier
<1>6. ASSUME NEW m \in NamesIn(tier)
      PROVE  IF m = n THEN tier[m] = svc
                      ELSE m \in NamesIn(runtime) /\ tier[m] = runtime[m]
  BY <1>1, <1>4 DEF Tier, NamesIn
<1>7. FiledFrom(tier, SourceRuntime)
  <2> SUFFICES ASSUME NEW m \in NamesIn(tier)
               PROVE  /\ m \in CoreNames
                      /\ tier[m].name = m
                      /\ tier[m].source = SourceRuntime
                      /\ tier[m].address # NoAddress
                      /\ tier[m].port >= 1 /\ tier[m].port <= MaxPort
    BY DEF FiledFrom
  <2>1. CASE m = n
    <3>1. tier[m] = svc
      BY <1>6, <2>1
    <3> QED
      BY <1>1, <1>3, <2>1, <3>1
  <2>2. CASE m # n
    <3>1. m \in NamesIn(runtime) /\ tier[m] = runtime[m]
      BY <1>6, <2>2
    <3> QED
      BY <3>1 DEF FiledFrom
  <2> QED
    BY <2>1, <2>2
<1> QED
  BY <1>5, <1>7

(* Removing an entry keeps the others as they were filed.                  *)
LEMMA RemoveFiles ==
    ASSUME NEW n \in Spellings, runtime \in Tier,
           FiledFrom(runtime, SourceRuntime),
           NEW tier, tier = [runtime EXCEPT ![n] = Absent]
    PROVE  tier \in Tier /\ FiledFrom(tier, SourceRuntime)
<1>1. tier \in Tier
  BY DEF Tier
<1>2. \A m \in NamesIn(tier) : m \in NamesIn(runtime) /\ tier[m] = runtime[m]
  BY DEF Tier, NamesIn
<1> QED
  BY <1>1, <1>2 DEF FiledFrom

(* The registry starts out empty.                                          *)
LEMMA InitInv == Init => Inv
<1> SUFFICES ASSUME Init PROVE Inv
  OBVIOUS
<1>1. TypeOK
  BY EmptyTierFacts DEF Init, TypeOK, NoReply
<1>2. WellFiled
  BY EmptyTierFacts DEF Init, WellFiled
<1>3. NoSilentChoice
  BY EmptyTierFacts DEF Init, NoSilentChoice
<1> QED
  BY <1>1, <1>2, <1>3 DEF Inv

(* Every operation of the registry preserves the invariant.                *)
LEMMA NextInv == Inv /\ [Next]_vars => Inv'
<1> SUFFICES ASSUME Inv, [Next]_vars PROVE Inv'
  OBVIOUS
<1> USE DEF Inv
<1>1. CASE \E list \in ServiceLists : SetConfigServices(list)
  <2>1. PICK list \in ServiceLists : SetConfigServices(list)
    BY <1>1
  <2>2. list \in Seq(RawService)
    BY InputAssumption
  <2>3. DOMAIN list \in SUBSET UsableIn(list) /\ SourceConfig \in Sources
    BY <2>1 DEF SetConfigServices, ValidConfig, Sources
  <2>4. config' \in Tier /\ FiledFrom(config', SourceConfig)
    BY <2>1, <2>2, <2>3, FiledType, FiledUsable DEF SetConfigServices
  <2>5. UNCHANGED <<runtime, docker, remote, conflicts>> /\ reply' = NoReply
    BY <2>1 DEF SetConfigServices
  <2>6. TypeOK'
    BY <2>4, <2>5 DEF TypeOK, NoReply
  <2>7. WellFiled'
    BY <2>4, <2>5 DEF WellFiled
  <2>8. NoSilentChoice'
    BY <2>5 DEF NoSilentChoice
  <2> QED
    BY <2>6, <2>7, <2>8
<1>2. CASE \E body \in Bodies : handleAddService(body)
  <2>1. PICK body \in Bodies : handleAddService(body)
    BY <1>2
  <2>2. body \in RawService
    BY InputAssumption
  <2>3. NormalizeName(body.name) \in Spellings
    BY <2>2, NameAssumption DEF RawService, NormalizeName
  <2>4. UNCHANGED <<config, docker, remote, conflicts>>
    BY <2>1 DEF handleAddService
  <2>5. \/ reply' = Reply("add", Absent, 400)
        \/ reply' \in {Reply("add", NormalizeName(body.name), code) :
                          code \in {201, 400, 409}}
    BY <2>1 DEF handleAddService, Add
  <2>6. runtime' \in Tier /\ FiledFrom(runtime', SourceRuntime)
    <3>1. \/ UNCHANGED runtime
          \/ /\ Usable(body)
             /\ runtime' = [runtime EXCEPT ![NormalizeName(body.name)] =
                               Stamp(body, SourceRuntime)]
      BY <2>1 DEF handleAddService, Add
    <3>2. runtime \in Tier /\ FiledFrom(runtime, SourceRuntime)
      BY DEF TypeOK, WellFiled
    <3> QED
      BY <3>1, <3>2, <2>2, AddFiles
  <2>7. TypeOK'
    BY <2>3, <2>4, <2>5, <2>6 DEF TypeOK, Reply, StatusCodes
  <2>8. WellFiled'
    BY <2>4, <2>6 DEF WellFiled
  <2>9. NoSilentChoice'
    BY <2>4 DEF NoSilentChoice
  <2> QED
    BY <2>7, <2>8, <2>9
<1>3. CASE \E s \in Spellings : handleRemoveService(s)
  <2>1. PICK s \in Spellings : handleRemoveService(s)
    BY <1>3
  <2> DEFINE n == NormalizeName(NormalizeName(s))
  <2>2. n \in Spellings
    BY NameAssumption DEF NormalizeName
  <2>3. UNCHANGED <<config, docker, remote, conflicts>>
    BY <2>1 DEF handleRemoveService
  <2>4. reply' \in {Reply("remove", n, code) : code \in {204, 404, 409}}
    BY <2>1 DEF handleRemoveService, RemoveService
  <2>5. runtime' \in Tier /\ FiledFrom(runtime', SourceRuntime)
    <3>1. UNCHANGED runtime \/ runtime' = [runtime EXCEPT ![n] = Absent]
      BY <2>1 DEF handleRemoveService, RemoveService
    <3>2. runtime \in Tier /\ FiledFrom(runtime, SourceRuntime)
      BY DEF TypeOK, WellFiled
    <3> QED
      BY <3>1, <3>2, <2>2, RemoveFiles
  <2> HIDE DEF n
  <2>6. TypeOK'
    BY <2>2, <2>3, <2>4, <2>5 DEF TypeOK, Reply, StatusCodes
  <2>7. WellFiled'
    BY <2>3, <2>5 DEF WellFiled
  <2>8. NoSilentChoice'
    BY <2>3 DEF NoSilentChoice
  <2> QED
    BY <2>6, <2>7, <2>8
<1>4. CASE \E id \in NodeIDs, list \in ServiceLists : SetRemote(id, list)
  <2>1. PICK id \in NodeIDs, list \in ServiceLists : SetRemote(id, list)
    BY <1>4
  <2> DEFINE tier == RemoteTier(list, id)
  <2>2. tier \in Tier /\ FiledFrom(tier, id)
    BY InputAssumption, RemoteTierFacts
  <2>3. /\ remote' = [remote EXCEPT ![id] = tier]
        /\ UNCHANGED <<config, runtime, docker, conflicts>>
        /\ reply' = NoReply
    BY <2>1 DEF SetRemote
  <2> HIDE DEF tier
  <2>4. TypeOK'
    BY <2>2, <2>3 DEF TypeOK, NoReply
  <2>5. \A other \in NodeIDs : FiledFrom(remote'[other], other)
    BY <2>2, <2>3 DEF TypeOK, WellFiled
  <2>6. WellFiled'
    BY <2>3, <2>5 DEF WellFiled
  <2>7. NoSilentChoice'
    BY <2>3 DEF NoSilentChoice
  <2> QED
    BY <2>4, <2>6, <2>7
<1>5. CASE \E list \in ServiceLists, names \in ConflictLists :
              SetDocker(list, names)
  <2>1. PICK list \in ServiceLists, names \in ConflictLists :
           SetDocker(list, names)
    BY <1>5
  <2>2. /\ docker' \in Tier /\ FiledFrom(docker', SourceDocker)
        /\ conflicts' \cap NamesIn(docker') = {}
        /\ conflicts' \subseteq CoreNames
    BY <2>1, InputAssumption, DockerTierFacts, ConflictNamesValid
       DEF SetDocker
  <2>3. UNCHANGED <<config, runtime, remote>> /\ reply' = NoReply
    BY <2>1 DEF SetDocker
  <2>4. TypeOK'
    BY <2>2, <2>3, NameAssumption DEF TypeOK, NoReply
  <2>5. WellFiled'
    BY <2>2, <2>3 DEF WellFiled
  <2>6. NoSilentChoice'
    BY <2>2 DEF NoSilentChoice
  <2> QED
    BY <2>4, <2>5, <2>6
<1>6. CASE UNCHANGED vars
  BY <1>6 DEF vars, TypeOK, WellFiled, NoSilentChoice
<1> QED
  BY <1>1, <1>2, <1>3, <1>4, <1>5, <1>6 DEF Next

(* The invariant holds in every reachable state.                           *)
THEOREM Invariance == Spec => []Inv
BY InitInv, NextInv, PTL DEF Spec

(* The registry's maps hold services and its answers are known codes       *)
(* (registry.go:28-35).                                                    *)
THEOREM TypeCorrect == Spec => []TypeOK
<1>1. Inv => TypeOK
  BY DEF Inv
<1> QED
  BY <1>1, Invariance, PTL

(* Whatever lists peers, containers, files and requests hand over, every   *)
(* tier holds usable services only, under their own valid names and with   *)
(* the source of the tier (registry.go:117, 139).                          *)
THEOREM FiledRight == Spec => []WellFiled
<1>1. Inv => WellFiled
  BY DEF Inv
<1> QED
  BY <1>1, Invariance, PTL

(* A conflicted name never has a service in the Docker tier                *)
(* (registry.go:152).                                                      *)
THEOREM NeverChoosesSilently == Spec => []NoSilentChoice
<1>1. Inv => NoSilentChoice
  BY DEF Inv
<1> QED
  BY <1>1, Invariance, PTL

(* What a node advertises is what it serves: the local tiers only, and     *)
(* exactly the service that Lookup finds (registry.go:236-260).            *)
THEOREM AdvertisesWhatItServes == Spec => []AdvertisedIsServed
<1>1. Inv => AdvertisedIsServed
  <2> SUFFICES ASSUME Inv, NEW n \in NamesIn(ListLocal)
               PROVE  /\ ListLocal[n] = Lookup(n)
                      /\ ListLocal[n] \in {runtime[n], config[n], docker[n]}
                      /\ n \in conflicts =>
                            ListLocal[n].source \in {SourceConfig, SourceRuntime}
    BY DEF AdvertisedIsServed
  <2>1. n \in Spellings /\ ListLocal[n] # Absent
    BY DEF NamesIn
  <2>2. ListLocal[n] = IF runtime[n] # Absent THEN runtime[n]
                       ELSE IF config[n] # Absent THEN config[n]
                       ELSE docker[n]
    BY <2>1 DEF ListLocal, Override
  <2>3. n \in NamesIn(runtime) \cup NamesIn(config) \cup NamesIn(docker)
    BY <2>1, <2>2 DEF NamesIn
  <2>4. n \in CoreNames
    BY <2>3 DEF Inv, WellFiled, FiledFrom
  <2>5. NormalizeName(n) = n
    BY <2>4, NameAssumption DEF NormalizeName
  <2>6. ListLocal[n] = Lookup(n)
    BY <2>1, <2>2, <2>5 DEF Lookup
  <2>7. n \in conflicts => docker[n] = Absent
    BY <2>1 DEF Inv, NoSilentChoice, NamesIn
  <2>8. n \in NamesIn(runtime) => runtime[n].source = SourceRuntime
    BY DEF Inv, WellFiled, FiledFrom
  <2>9. n \in NamesIn(config) => config[n].source = SourceConfig
    BY DEF Inv, WellFiled, FiledFrom
  <2> QED
    BY <2>1, <2>2, <2>6, <2>7, <2>8, <2>9 DEF NamesIn
<1> QED
  BY <1>1, Invariance, PTL

(* A registration comes into being only where neither the configuration nor*)
(* another registration provides the name (registry.go:62-63, 79-84).      *)
THEOREM NeverReplaces == Spec => RegistrationNeverReplaces
<1> DEFINE Kept == \A n \in Spellings :
                      runtime'[n] # Absent /\ runtime'[n] # runtime[n] =>
                          runtime[n] = Absent /\ config[n] = Absent
<1>1. Inv /\ [Next]_vars => [Kept]_vars
  <2> SUFFICES ASSUME Inv, Next PROVE Kept
    OBVIOUS
  <2>1. runtime \in Tier
    BY DEF Inv, TypeOK
  <2>2. CASE \E body \in Bodies : handleAddService(body)
    <3>1. PICK body \in Bodies : handleAddService(body)
      BY <2>2
    <3> DEFINE m == NormalizeName(body.name)
    <3>2. \/ UNCHANGED runtime
          \/ /\ runtime[m] = Absent /\ config[m] = Absent
             /\ runtime' = [runtime EXCEPT ![m] = Stamp(body, SourceRuntime)]
      BY <3>1 DEF handleAddService, Add, AddRefused
    <3> QED
      BY <3>2, <2>1 DEF Tier
  <2>3. CASE \E s \in Spellings : handleRemoveService(s)
    <3>1. PICK s \in Spellings : handleRemoveService(s)
      BY <2>3
    <3> DEFINE m == NormalizeName(NormalizeName(s))
    <3>2. UNCHANGED runtime \/ runtime' = [runtime EXCEPT ![m] = Absent]
      BY <3>1 DEF handleRemoveService, RemoveService
    <3> QED
      BY <3>2, <2>1 DEF Tier
  <2>4. CASE UNCHANGED runtime
    BY <2>4
  <2> QED
    BY <2>2, <2>3, <2>4 DEF Next, SetConfigServices, SetRemote, SetDocker
<1> QED
  BY <1>1, Invariance, PTL DEF Spec, RegistrationNeverReplaces

-----------------------------------------------------------------------------
(* The order of the nodes.  Only finitely many were heard of, because each *)
(* SetRemote adds at most one; so their IDs can be sorted.                 *)

Known == {id \in NodeIDs : remote[id] # EmptyTier}

(* So sortedNodeIDs is an ascending enumeration of the nodes heard of.     *)
LEMMA SortedFacts ==
    ASSUME IsFiniteSet(Known)
    PROVE  /\ Cardinality(Known) \in Nat
           /\ sortedNodeIDs \in [1..Cardinality(Known) -> Known]
           /\ sortedNodeIDs \in Seq(NodeIDs) /\ Len(sortedNodeIDs) = Cardinality(Known)
           /\ \A i, j \in 1..Cardinality(Known) :
                 i < j => Rank[sortedNodeIDs[i]] < Rank[sortedNodeIDs[j]]
           /\ \A id \in Known : \E i \in 1..Cardinality(Known) : sortedNodeIDs[i] = id
<1> DEFINE k == Cardinality(Known)
<1>1. k \in Nat
  BY FS_CardinalityType
<1>2. Known \in SUBSET NodeIDs
  BY DEF Known
<1>3. Ranked(Known, Rank)
  BY <1>2, NodeAssumption DEF Ranked
<1>4. sortedNodeIDs = CHOOSE s \in [1..k -> Known] : Ascending(s, Known, Rank)
  BY DEF sortedNodeIDs, Known, Ascending
<1>5. sortedNodeIDs \in [1..k -> Known] /\ Ascending(sortedNodeIDs, Known, Rank)
  BY <1>3, <1>4, EnumerationExists
<1>6. \A i, j \in 1..k : i < j => Rank[sortedNodeIDs[i]] < Rank[sortedNodeIDs[j]]
  BY <1>5 DEF Ascending
<1>7. sortedNodeIDs \in Seq(NodeIDs) /\ Len(sortedNodeIDs) = k
  BY <1>1, <1>2, <1>5
<1>8. \A id \in Known : \E i \in 1..k : sortedNodeIDs[i] = id
  <2>1. Ascending(sortedNodeIDs, Known, Rank)
    BY <1>5
  <2>2. /\ \A a \in Known : \E i \in 1..Cardinality(Known) : sortedNodeIDs[i] = a
        /\ \A i, j \in 1..Cardinality(Known) : sortedNodeIDs[i] = sortedNodeIDs[j] => i = j
    BY <1>3, <2>1, EnumerationComplete, Zenon
  <2> QED
    BY <2>2
<1> QED
  BY <1>1, <1>5, <1>6, <1>7, <1>8

(* Merging the nodes from the last to the first and searching them from the*)
(* first to the last find the same service: the one of the first node that *)
(* offers the name.                                                        *)
LEMMA FirstOffer ==
    ASSUME IsFiniteSet(Known), NEW n \in Spellings
    PROVE  /\ Learned(Reverse(sortedNodeIDs))[n] = RemoteLookup(n)
           /\ \A id \in Known : remote[id][n] # Absent =>
                 \E owner \in Known : /\ RemoteLookup(n) = remote[owner][n]
                                      /\ remote[owner][n] # Absent
                                      /\ Rank[owner] <= Rank[id]
           /\ RemoteLookup(n) # Absent =>
                 \E owner \in Known : RemoteLookup(n) = remote[owner][n]
<1> DEFINE k == Cardinality(Known)
           ids == sortedNodeIDs
           rev == Reverse(ids)
           F == {i \in 1..k : remote[ids[i]][n] # Absent}
           R == {i \in 1..k : remote[ids[k - i + 1]][n] # Absent}
<1>1. /\ k \in Nat /\ ids \in [1..k -> Known] /\ Len(ids) = k
      /\ \A i, j \in 1..k : i < j => Rank[ids[i]] < Rank[ids[j]]
      /\ \A id \in Known : \E i \in 1..k : ids[i] = id
  BY SortedFacts
<1> HIDE DEF k, ids
<1>2. rev = [i \in 1..k |-> ids[k - i + 1]]
  BY <1>1 DEF Reverse
<1>3. \A i \in 1..k : /\ k - i + 1 \in 1..k /\ k - (k - i + 1) + 1 = i
                      /\ i \in F <=> k - i + 1 \in R
                      /\ i \in R <=> k - i + 1 \in F
  BY <1>1
<1>4. F # {} => R # {}
  <2> SUFFICES ASSUME NEW i \in F PROVE k - i + 1 \in R
    OBVIOUS
  <2> QED
    BY <1>3
<1>5. R # {} => Max(R) \in R /\ \A j \in R : j <= Max(R)
  <2>1. R \subseteq 1..k
    OBVIOUS
  <2> HIDE DEF R
  <2> QED
    BY <1>1, <2>1, MaxIndex
<1>6. R # {} => Min(F) = k - Max(R) + 1
  <2> SUFFICES ASSUME R # {} PROVE Min(F) = k - Max(R) + 1
    OBVIOUS
  <2> DEFINE x == k - Max(R) + 1
  <2>1. Max(R) \in 1..k /\ x \in F
    BY <1>3, <1>5
  <2>2. \A y \in F : x <= y
    <3> SUFFICES ASSUME NEW y \in F PROVE x <= y
      OBVIOUS
    <3>1. y \in 1..k /\ k - y + 1 \in R
      BY <1>3
    <3>2. k - y + 1 <= Max(R)
      BY <1>5, <3>1
    <3>3. y \in Int /\ Max(R) \in Int /\ k \in Int
      BY <1>1, <2>1, <3>1
    <3> HIDE DEF R, F
    <3> QED
      BY <3>2, <3>3
  <2>3. F \subseteq Int
    OBVIOUS
  <2> HIDE DEF x, F
  <2>4. Min(F) \in F /\ \A y \in F : Min(F) <= y
    BY <2>1, <2>2 DEF Min
  <2>5. Min(F) \in Int /\ x \in Int /\ Min(F) <= x /\ x <= Min(F)
    BY <2>1, <2>2, <2>3, <2>4
  <2>6. Min(F) = x
    BY <2>5
  <2> QED
    BY <2>6 DEF x
<1>7. Learned(rev)[n] = IF R = {} THEN Absent ELSE remote[ids[k - Max(R) + 1]][n]
  <2> DEFINE offering == {i \in DOMAIN rev : remote[rev[i]][n] # Absent}
  <2>1. Learned(rev)[n] = IF offering = {} THEN Absent ELSE remote[rev[Max(offering)]][n]
    BY DEF Learned
  <2>2. offering = R
    BY <1>2
  <2>3. R # {} => rev[Max(R)] = ids[k - Max(R) + 1]
    BY <1>2, <1>5
  <2> HIDE DEF offering, rev, R
  <2> QED
    BY <2>1, <2>2, <2>3
<1>8. R # {} => Min(F) \in F
  BY <1>3, <1>5, <1>6
<1>9. RemoteLookup(n) = IF R = {} THEN Absent ELSE remote[ids[Min(F)]][n]
  <2> DEFINE first == SelectInSeq(ids, LAMBDA id : remote[id][n] # Absent)
  <2>1. RemoteLookup(n) = IF first = 0 THEN Absent ELSE remote[ids[first]][n]
    BY DEF RemoteLookup, ids
  <2>2. first = IF F # {} THEN Min(F) ELSE 0
    BY <1>1 DEF SelectInSeq
  <2>3. R # {} => Min(F) # 0 /\ F # {}
    BY <1>8
  <2> HIDE DEF first, F, R
  <2> QED
    BY <1>4, <2>1, <2>2, <2>3
<1>10. Learned(rev)[n] = RemoteLookup(n)
  <2> HIDE DEF rev, F, R
  <2> QED
    BY <1>6, <1>7, <1>9
<1>11. R # {} => /\ ids[Min(F)] \in Known
                 /\ RemoteLookup(n) = remote[ids[Min(F)]][n]
                 /\ RemoteLookup(n) # Absent
  BY <1>1, <1>8, <1>9
<1>12. ASSUME NEW id \in Known, remote[id][n] # Absent
       PROVE  R # {} /\ Rank[ids[Min(F)]] <= Rank[id]
  <2>1. PICK i \in 1..k : ids[i] = id
    BY <1>1
  <2>2. i \in F
    BY <1>12, <2>1
  <2>3. R # {}
    BY <1>4, <2>2
  <2>4. k - i + 1 <= Max(R) /\ Max(R) \in 1..k
    BY <1>3, <1>5, <2>2, <2>3
  <2>5. \A a \in Known : Rank[a] \in Nat
    BY NodeAssumption DEF Known
  <2> HIDE DEF F, R
  <2>6. Min(F) <= i /\ Min(F) \in 1..k
    <3>1. Min(F) = k - Max(R) + 1 /\ Max(R) \in Int /\ k \in Int /\ i \in Int
      BY <1>1, <1>6, <2>3, <2>4
    <3>2. k - Max(R) + 1 <= i /\ k - Max(R) + 1 \in 1..k
      BY <1>1, <2>4, <3>1
    <3> QED
      BY <3>1, <3>2
  <2>7. Min(F) = i \/ Min(F) < i
    BY <2>6
  <2> QED
    BY <1>1, <2>1, <2>3, <2>5, <2>6, <2>7
<1> HIDE DEF R, F
<1>13. RemoteLookup(n) # Absent => R # {}
  BY <1>9
<1> QED
  BY <1>10, <1>11, <1>12, <1>13 DEF ids, rev

(* A SetRemote adds at most one node to those heard of.                    *)
LEMMA KnownStaysFinite ==
    ASSUME Inv, IsFiniteSet(Known), [Next]_vars
    PROVE  IsFiniteSet(Known')
<1>1. remote \in [NodeIDs -> Tier]
  BY DEF Inv, TypeOK
<1>2. CASE \E id \in NodeIDs, list \in ServiceLists : SetRemote(id, list)
  <2>1. PICK id \in NodeIDs, list \in ServiceLists : SetRemote(id, list)
    BY <1>2
  <2>2. \A other \in NodeIDs \ {id} : remote'[other] = remote[other]
    BY <1>1, <2>1 DEF SetRemote
  <2>3. Known' \subseteq Known \cup {id}
    BY <2>2 DEF Known
  <2>4. IsFiniteSet(Known \cup {id})
    BY FS_AddElement
  <2> QED
    BY <2>3, <2>4, FS_Subset
<1>3. CASE UNCHANGED remote
  BY <1>3 DEF Known
<1> QED
  BY <1>2, <1>3 DEF Next, vars, SetConfigServices, handleAddService,
     handleRemoveService, SetDocker

(* What a request is answered from: the strongest local tier that has the  *)
(* name, and otherwise the first node that offers it.                      *)
LEMMA LookupFacts ==
    ASSUME NEW s \in Spellings, NEW n, n = NormalizeName(s)
    PROVE  Lookup(s) = IF ListLocal[n] # Absent THEN ListLocal[n] ELSE RemoteLookup(n)
<1>1. n \in Spellings
  BY NameAssumption DEF NormalizeName
<1>2. ListLocal[n] = IF runtime[n] # Absent THEN runtime[n]
                     ELSE IF config[n] # Absent THEN config[n] ELSE docker[n]
  BY <1>1 DEF ListLocal, Override
<1> QED
  BY <1>2 DEF Lookup

(* Whatever a local tier lists under a name is filed there under it.       *)
LEMMA LocalEntry ==
    ASSUME Inv, NEW n \in Spellings, ListLocal[n] # Absent
    PROVE  /\ n \in CoreNames /\ ListLocal[n].name = n
           /\ ListLocal[n].address # NoAddress
           /\ ListLocal[n].source =
                 IF runtime[n] # Absent THEN SourceRuntime
                 ELSE IF config[n] # Absent THEN SourceConfig ELSE SourceDocker
<1>1. ListLocal[n] = IF runtime[n] # Absent THEN runtime[n]
                     ELSE IF config[n] # Absent THEN config[n] ELSE docker[n]
  BY DEF ListLocal, Override
<1>2. /\ FiledFrom(runtime, SourceRuntime) /\ FiledFrom(config, SourceConfig)
      /\ FiledFrom(docker, SourceDocker)
  BY DEF Inv, WellFiled
<1>3. CASE runtime[n] # Absent
  BY <1>1, <1>2, <1>3 DEF FiledFrom, NamesIn
<1>4. CASE runtime[n] = Absent /\ config[n] # Absent
  BY <1>1, <1>2, <1>4 DEF FiledFrom, NamesIn
<1>5. CASE runtime[n] = Absent /\ config[n] = Absent
  BY <1>1, <1>2, <1>5 DEF FiledFrom, NamesIn
<1> QED
  BY <1>3, <1>4, <1>5

(* Whatever the search of the nodes finds was filed under that name.       *)
LEMMA RemoteEntry ==
    ASSUME Inv, IsFiniteSet(Known), NEW n \in Spellings, RemoteLookup(n) # Absent
    PROVE  /\ n \in CoreNames /\ RemoteLookup(n).name = n
           /\ RemoteLookup(n).address # NoAddress
           /\ RemoteLookup(n).source \in NodeIDs
<1>1. PICK owner \in Known : RemoteLookup(n) = remote[owner][n]
  BY FirstOffer
<1>2. owner \in NodeIDs /\ n \in NamesIn(remote[owner])
  BY <1>1 DEF Known, NamesIn
<1>3. FiledFrom(remote[owner], owner)
  BY <1>2 DEF Inv, WellFiled
<1> QED
  BY <1>1, <1>2, <1>3 DEF FiledFrom

(* The listing shows the same service as the lookup of the name.           *)
LEMMA ListedFacts ==
    ASSUME IsFiniteSet(Known), NEW n \in Spellings
    PROVE  List[n] = IF ListLocal[n] # Absent THEN ListLocal[n] ELSE RemoteLookup(n)
<1>1. Learned(Reverse(sortedNodeIDs))[n] = RemoteLookup(n)
  BY FirstOffer
<1> QED
  BY <1>1 DEF List, ListLocal, Override

(* The directory listing and resolution agree on every name, and a name no *)
(* local tier has belongs to the offering node with the lowest ID, for any *)
(* number of nodes (registry.go:184-234).                                  *)
THEOREM ListAgreesWithLookup == Spec => []ListMatchesLookup
<1> DEFINE Heard == Inv /\ IsFiniteSet(Known)
<1>1. Init => Heard
  <2> SUFFICES ASSUME Init PROVE Heard
    OBVIOUS
  <2>1. Known = {}
    BY DEF Init, Known
  <2> QED
    BY <2>1, InitInv, FS_EmptySet
<1>2. Heard /\ [Next]_vars => Heard'
  BY NextInv, KnownStaysFinite
<1>3. Heard => ListMatchesLookup
  <2> SUFFICES ASSUME Inv, IsFiniteSet(Known) PROVE ListMatchesLookup
    OBVIOUS
  <2>1. ASSUME NEW n \in NamesIn(List) PROVE n \in CoreNames
    <3>1. n \in Spellings /\ List[n] # Absent
      BY DEF NamesIn
    <3>2. ListLocal[n] # Absent \/ RemoteLookup(n) # Absent
      BY <3>1, ListedFacts
    <3> QED
      BY <3>1, <3>2, LocalEntry, RemoteEntry
  <2>2. ASSUME NEW n \in CoreNames
        PROVE  /\ n \in Spellings
               /\ Lookup(n) = IF ListLocal[n] # Absent THEN ListLocal[n]
                                                      ELSE RemoteLookup(n)
    <3>1. n \in Spellings /\ n = NormalizeName(n)
      BY NameAssumption DEF NormalizeName
    <3> QED
      BY <3>1, LookupFacts
  <2>3. ASSUME NEW n \in CoreNames, NEW id \in NodeIDs, ListLocal[n] = Absent,
               remote[id][n] # Absent
        PROVE  \E owner \in NodeIDs :
                  /\ Lookup(n) = remote[owner][n] /\ Lookup(n) # Absent
                  /\ Rank[owner] <= Rank[id]
    <3>1. id \in Known
      BY <2>2, <2>3 DEF Known, EmptyTier
    <3>2. PICK owner \in Known : /\ RemoteLookup(n) = remote[owner][n]
                                 /\ remote[owner][n] # Absent
                                 /\ Rank[owner] <= Rank[id]
      BY <2>2, <2>3, <3>1, FirstOffer
    <3>3. owner \in NodeIDs
      BY DEF Known
    <3> QED
      BY <2>2, <2>3, <3>2, <3>3
  <2>4. \A n \in CoreNames : List[n] = Lookup(n)
    BY <2>2, ListedFacts
  <2> QED
    BY <2>1, <2>3, <2>4 DEF ListMatchesLookup
<1> QED
  BY <1>1, <1>2, <1>3, PTL DEF Spec

-----------------------------------------------------------------------------
(* The answers of the control API.                                         *)

(* What a status code records of the tiers behind it.                      *)
Accounted ==
    LET n == reply.name
    IN  /\ reply.op = "add" /\ reply.code = 201 => n \in CoreNames /\ runtime[n] # Absent
        /\ reply.op = "add" /\ reply.code = 409 =>
              n \in CoreNames /\ (config[n] # Absent \/ runtime[n] # Absent)
        /\ reply.op = "remove" /\ reply.code = 409 =>
              /\ n \in Spellings /\ runtime[n] = Absent
              /\ config[n] # Absent \/ docker[n] # Absent
        /\ reply.op = "remove" /\ reply.code = 404 =>
              /\ n \in Spellings /\ runtime[n] = Absent
              /\ config[n] = Absent /\ docker[n] = Absent

(* Every step leaves an answer the tiers account for, or none.             *)
LEMMA NextAccounted == Inv /\ Accounted /\ [Next]_vars => Accounted'
<1> SUFFICES ASSUME Inv, Accounted, [Next]_vars PROVE Accounted'
  OBVIOUS
<1>1. runtime \in Tier
  BY DEF Inv, TypeOK
<1>2. CASE \E body \in Bodies : handleAddService(body)
  <2>1. PICK body \in Bodies : handleAddService(body)
    BY <1>2
  <2> DEFINE n == NormalizeName(body.name)
  <2>2. body \in RawService /\ UNCHANGED <<config, docker>>
    BY <2>1, InputAssumption DEF handleAddService
  <2>3. n \in Spellings
    BY <2>2, NameAssumption DEF RawService, NormalizeName
  <2>4. Stamp(body, SourceRuntime) # Absent
    BY <2>2, StampType, AbsentAssumption DEF Sources
  <2>5. Usable(body) => n \in CoreNames
    BY DEF Usable, ValidateName
  <2>6. CASE reply' = Reply("add", n, 400) \/ reply' = Reply("add", Absent, 400)
    BY <2>6 DEF Accounted, Reply
  <2>7. CASE Usable(body) /\ AddRefused(n) /\ reply' = Reply("add", n, 409) /\ UNCHANGED runtime
    BY <2>2, <2>5, <2>7 DEF Accounted, Reply, AddRefused
  <2>8. CASE /\ Usable(body) /\ reply' = Reply("add", n, 201)
             /\ runtime' = [runtime EXCEPT ![n] = Stamp(body, SourceRuntime)]
    <3>1. runtime'[n] # Absent
      BY <1>1, <2>3, <2>4, <2>8 DEF Tier
    <3> HIDE DEF n
    <3> QED
      BY <2>5, <2>8, <3>1 DEF Accounted, Reply
  <2> QED
    BY <2>1, <2>6, <2>7, <2>8 DEF handleAddService, Add
<1>3. CASE \E s \in Spellings : handleRemoveService(s)
  <2>1. PICK s \in Spellings : handleRemoveService(s)
    BY <1>3
  <2> DEFINE n == NormalizeName(NormalizeName(s))
  <2>2. n \in Spellings /\ UNCHANGED <<config, docker>>
    BY <2>1, NameAssumption DEF handleRemoveService, NormalizeName
  <2>3. CASE reply' = Reply("remove", n, 204)
    BY <2>3 DEF Accounted, Reply
  <2>4. CASE /\ runtime[n] = Absent /\ (config[n] # Absent \/ docker[n] # Absent)
             /\ reply' = Reply("remove", n, 409) /\ UNCHANGED runtime
    BY <2>2, <2>4 DEF Accounted, Reply
  <2>5. CASE /\ runtime[n] = Absent /\ config[n] = Absent /\ docker[n] = Absent
             /\ reply' = Reply("remove", n, 404) /\ UNCHANGED runtime
    BY <2>2, <2>5 DEF Accounted, Reply
  <2> QED
    BY <2>1, <2>3, <2>4, <2>5 DEF handleRemoveService, RemoveService
<1>4. CASE reply' = NoReply
  BY <1>4 DEF Accounted, NoReply
<1>5. CASE UNCHANGED vars
  BY <1>5 DEF Accounted, vars
<1> QED
  BY <1>2, <1>3, <1>4, <1>5 DEF Next, SetConfigServices, SetRemote, SetDocker

(* The status code of a write tells the truth about the directory it leaves*)
(* behind (api.go:82-105).                                                 *)
THEOREM AnswersTruthfully == Spec => []RepliesTruthful
<1>1. Init => Accounted
  BY DEF Init, Accounted, NoReply
<1>2. Inv /\ Accounted => RepliesTruthful
  <2> SUFFICES ASSUME Inv, Accounted PROVE RepliesTruthful
    OBVIOUS
  <2> DEFINE n == reply.name
  <2>1. n \in Spellings =>
           /\ ListLocal[n] = IF runtime[n] # Absent THEN runtime[n]
                             ELSE IF config[n] # Absent THEN config[n] ELSE docker[n]
    BY DEF ListLocal, Override
  <2>2. n \in CoreNames => n \in Spellings /\ n = NormalizeName(n)
    BY NameAssumption DEF NormalizeName
  <2>3. n \in CoreNames /\ ListLocal[n] # Absent => Lookup(n) = ListLocal[n]
    BY <2>2, LookupFacts
  <2>4. reply.op = "add" /\ reply.code = 201 =>
           n \in CoreNames /\ Lookup(n).source = SourceRuntime
    BY <2>1, <2>2, <2>3, LocalEntry DEF Accounted
  <2>5. reply.op = "add" /\ reply.code = 409 =>
           Lookup(n).source \in {SourceConfig, SourceRuntime}
    BY <2>1, <2>2, <2>3, LocalEntry DEF Accounted
  <2>6. reply.op = "remove" /\ reply.code = 409 =>
           ListLocal[n].source \in {SourceConfig, SourceDocker}
    BY <2>1, LocalEntry DEF Accounted
  <2>7. reply.op = "remove" /\ reply.code = 404 => ListLocal[n] = Absent
    BY <2>1 DEF Accounted
  <2> QED
    BY <2>4, <2>5, <2>6, <2>7 DEF RepliesTruthful
<1> QED
  BY <1>1, <1>2, NextAccounted, Invariance, PTL DEF Spec

-----------------------------------------------------------------------------
(* The readers.                                                            *)

Standings == SUBSET {"routed", "conflict"}

(* The requests a reader can be holding.                                   *)
RequestType ==
    [kind : Kinds \cup {"none"}, name : Spellings \cup {Absent},
     pc : {"done", "conflict", "conflicts"}, code : Nat,
     service : Service \cup {Absent}, conflicts : SUBSET Spellings,
     seen : SUBSET Standings]

(* The present standing of the name is among those seen, as long as the    *)
(* request is in flight.                                                   *)
Watching ==
    request.pc # "done" =>
        /\ request.name \in Spellings
        /\ \A n \in Spellings : n = request.name => Standing(n) \in request.seen

(* While the reason of a failed lookup is being asked for, the name has    *)
(* been seen unrouted.                                                     *)
AskingWhy ==
    request.pc = "conflict" =>
        /\ request.kind \in {"resolve", "proxy"}
        /\ \E v \in request.seen : "routed" \notin v

(* While the conflicts are being asked for, the name has been seen as the  *)
(* listing shows it.                                                       *)
AskingConflicts ==
    request.pc = "conflicts" =>
        /\ request.kind = "list" /\ request.name \in CoreNames
        /\ \E v \in request.seen : "routed" \in v <=> request.service # Absent

ReadInv ==
    /\ request \in RequestType
    /\ Watching
    /\ AskingWhy
    /\ AskingConflicts
    /\ AnswersOneInstant
    /\ RoutedToOwnName

(* A lookup finds nothing, or a service filed under the name looked up.    *)
LEMMA Found ==
    ASSUME Inv, IsFiniteSet(Known), NEW s \in Spellings
    PROVE  /\ Lookup(s) \in Service \cup {Absent}
           /\ Lookup(s) # Absent => /\ Lookup(s).name = NormalizeName(s)
                                    /\ Lookup(s).name \in CoreNames
                                    /\ Lookup(s).address # NoAddress
<1> DEFINE n == NormalizeName(s)
<1>1. n \in Spellings
  BY NameAssumption DEF NormalizeName
<1>2. Lookup(s) = IF ListLocal[n] # Absent THEN ListLocal[n] ELSE RemoteLookup(n)
  BY LookupFacts
<1>3. RemoteLookup(n) # Absent => RemoteLookup(n) \in Service
  <2> SUFFICES ASSUME RemoteLookup(n) # Absent PROVE RemoteLookup(n) \in Service
    OBVIOUS
  <2>1. PICK owner \in Known : RemoteLookup(n) = remote[owner][n]
    BY <1>1, FirstOffer
  <2>2. remote[owner] \in Tier
    BY DEF Known, Inv, TypeOK
  <2> QED
    BY <1>1, <2>1, <2>2 DEF Tier
<1>4. ListLocal[n] \in Service \cup {Absent}
  BY <1>1 DEF ListLocal, Override, Tier, Inv, TypeOK
<1> HIDE DEF n
<1>5. Lookup(s) \in Service \cup {Absent}
  BY <1>2, <1>3, <1>4
<1>6. Lookup(s) # Absent => /\ Lookup(s).name = n /\ n \in CoreNames
                            /\ Lookup(s).address # NoAddress
  BY <1>1, <1>2, LocalEntry, RemoteEntry
<1> QED
  BY <1>5, <1>6 DEF n

(* Both listings show nothing under a valid name, or a service filed under *)
(* it; and the whole listing shows what the lookup finds.                  *)
LEMMA Listed ==
    ASSUME Inv, IsFiniteSet(Known), NEW n \in CoreNames
    PROVE  /\ List[n] = Lookup(n)
           /\ ListLocal[n] \in Service \cup {Absent}
           /\ ListLocal[n] # Absent => /\ ListLocal[n].name = NormalizeName(n)
                                       /\ ListLocal[n].name \in CoreNames
                                       /\ ListLocal[n].address # NoAddress
<1>1. n \in Spellings /\ NormalizeName(n) = n
  BY NameAssumption DEF NormalizeName
<1>2. List[n] = Lookup(n)
  BY <1>1, ListedFacts, LookupFacts
<1>3. ListLocal[n] \in Service \cup {Absent}
  BY <1>1 DEF ListLocal, Override, Tier, Inv, TypeOK
<1> QED
  BY <1>1, <1>2, <1>3, LocalEntry

(* What a standing consists of.                                            *)
LEMMA StandingFacts ==
    ASSUME NEW n \in Spellings
    PROVE  /\ Standing(n) \in Standings
           /\ "routed" \in Standing(n) <=> Lookup(n) # Absent
           /\ "conflict" \in Standing(n) <=> Conflict(n)
BY DEF Standing, Standings

(* A reader's own step leaves the directory, and so every standing, alone. *)
LEMMA SameStanding ==
    ASSUME UNCHANGED vars, NEW n \in Spellings
    PROVE  Standing(n)' = Standing(n)
BY DEF vars, Standing, Lookup, Conflict, RemoteLookup, sortedNodeIDs, SelectInSeq

(* An answer given on the spot, after one read or none.                    *)
LEMMA AnswersAtOnce ==
    ASSUME NEW kind \in Kinds, NEW n \in Spellings, NEW code \in Nat,
           NEW service \in Service \cup {Absent},
           service # Absent => /\ service.name = NormalizeName(n)
                               /\ service.name \in CoreNames
                               /\ service.address # NoAddress,
           request' = Answered(kind, n, code, service),
           \/ code \in {400, FORMERR, REFUSED} \/ kind = "advertise"
           \/ code = NXDOMAIN /\ kind # "list" /\ Lookup(n) = Absent
           \/ code \in {200, NOERROR} /\ kind # "list" /\ Lookup(n) # Absent
    PROVE  ReadInv'
<1> DEFINE now == Standing(n)
<1>1. now \in Standings /\ ("routed" \in now <=> Lookup(n) # Absent)
  BY StandingFacts
<1>2. request' = [kind |-> kind, name |-> n, pc |-> "done", code |-> code,
                  service |-> service, conflicts |-> {}, seen |-> {now}]
  BY ZenonT(60) DEF Answered, Started, NoRequest
<1> HIDE DEF now
<1>3. request' \in RequestType
  BY <1>1, <1>2 DEF RequestType
<1>4. Watching' /\ AskingWhy' /\ AskingConflicts'
  BY <1>2 DEF Watching, AskingWhy, AskingConflicts
<1>5. RoutedToOwnName'
  BY <1>2 DEF RoutedToOwnName
<1>6. AnswersOneInstant'
  <2> SUFFICES ASSUME kind \in {"resolve", "proxy", "dns", "list"},
                      code \notin {400, FORMERR, REFUSED}
               PROVE  ("routed" \in now <=> SaysRouted') /\ ~SaysWhy'
    BY <1>2 DEF AnswersOneInstant
  <2>1. kind # "list" /\ code \in {200, NOERROR, NXDOMAIN}
    OBVIOUS
  <2>2. (SaysRouted' <=> code \in {200, NOERROR}) /\ ~SaysWhy'
    BY <1>2, <2>1 DEF SaysRouted, SaysWhy, NOERROR, NXDOMAIN
  <2>3. Lookup(n) # Absent <=> code \in {200, NOERROR}
    BY <2>1 DEF NOERROR, NXDOMAIN, FORMERR, REFUSED
  <2> QED
    BY <1>1, <2>2, <2>3
<1> QED
  BY <1>3, <1>4, <1>5, <1>6 DEF ReadInv

(* The first of two reads: a name not found, or a listing without its      *)
(* conflicts.                                                              *)
LEMMA AsksOn ==
    ASSUME Inv, IsFiniteSet(Known), UNCHANGED vars,
           NEW kind \in {"resolve", "proxy", "list"}, NEW n \in Spellings,
           NEW pc \in {"conflict", "conflicts"}, NEW service \in Service \cup {Absent},
           request' = [kind |-> kind, name |-> n, pc |-> pc, code |-> NOERROR,
                       service |-> service, conflicts |-> {}, seen |-> {Standing(n)}],
           service = Lookup(n),
           \/ pc = "conflict" /\ kind # "list" /\ service = Absent
           \/ pc = "conflicts" /\ kind = "list" /\ n \in CoreNames
    PROVE  ReadInv'
<1> DEFINE now == Standing(n)
<1>1. /\ now \in Standings /\ ("routed" \in now <=> service # Absent)
      /\ Standing(n)' = now
  BY StandingFacts, SameStanding
<1>2. service # Absent => /\ service.name = NormalizeName(n)
                          /\ service.name \in CoreNames
                          /\ service.address # NoAddress
  BY Found
<1>3. request' = [kind |-> kind, name |-> n, pc |-> pc, code |-> NOERROR,
                  service |-> service, conflicts |-> {}, seen |-> {now}]
  OBVIOUS
<1> HIDE DEF now
<1>4. request' \in RequestType
  BY <1>1, <1>2, <1>3 DEF RequestType, Kinds, NOERROR
<1>5. Watching'
  <2> SUFFICES ASSUME NEW m \in Spellings, m = n PROVE Standing(m)' \in {now}
    BY <1>3 DEF Watching
  <2> QED
    BY <1>1
<1>6. AskingWhy' /\ AskingConflicts'
  BY <1>1, <1>3 DEF AskingWhy, AskingConflicts
<1>7. AnswersOneInstant'
  BY <1>3 DEF AnswersOneInstant
<1>8. RoutedToOwnName'
  BY <1>2, <1>3 DEF RoutedToOwnName
<1> QED
  BY <1>4, <1>5, <1>6, <1>7, <1>8 DEF ReadInv

(* The proxy and /v1/resolve, when they look the name up.                  *)
LEMMA LooksUp ==
    ASSUME Inv, IsFiniteSet(Known), UNCHANGED vars,
           NEW kind \in {"resolve", "proxy"}, NEW n \in Spellings,
           request' = LookupFirst(kind, n)
    PROVE  ReadInv'
<1>1. CASE Lookup(n) # Absent
  <2>1. request' = Answered(kind, n, 200, Lookup(n))
    BY <1>1 DEF LookupFirst
  <2>2. kind \in Kinds /\ kind # "list" /\ 200 \in Nat
    BY DEF Kinds
  <2> QED
    BY <1>1, <2>1, <2>2, Found, AnswersAtOnce
<1>2. CASE Lookup(n) = Absent
  <2>1. request' = [Started(kind, n) EXCEPT !.pc = "conflict"]
    BY <1>2 DEF LookupFirst
  <2>2. request' = [kind |-> kind, name |-> n, pc |-> "conflict", code |-> NOERROR,
                    service |-> Absent, conflicts |-> {}, seen |-> {Standing(n)}]
    BY <2>1, ZenonT(60) DEF Started, NoRequest
  <2> QED
    BY <1>2, <2>2, AsksOn
<1> QED
  BY <1>1, <1>2

(* A request begins.                                                       *)
LEMMA BeginReads ==
    ASSUME Inv, IsFiniteSet(Known), Begin
    PROVE  ReadInv'
<1>1. UNCHANGED vars
  BY DEF Begin
<1>2. PICK s \in Asked : ControlMux(s) \/ PeerMux(s) \/ ProxyHandler(s) \/ ServeDNS(s)
  BY DEF Begin
<1> DEFINE n == NormalizeName(s)
<1>3. n \in Spellings
  BY NameAssumption, SuffixAssumption DEF NormalizeName
<1>4. CASE handleResolve(s)
  <2>1. \/ request' = Answered("resolve", n, 400, Absent)
        \/ request' = LookupFirst("resolve", n)
    BY <1>4 DEF handleResolve
  <2>2. "resolve" \in Kinds /\ 400 \in Nat
    BY DEF Kinds
  <2> HIDE DEF n
  <2> QED
    BY <1>1, <1>3, <2>1, <2>2, AnswersAtOnce, LooksUp
<1>5. CASE ProxyHandler(s)
  BY <1>1, <1>3, <1>5, LooksUp DEF ProxyHandler
<1>6. CASE ServeDNS(s)
  <2>1. PICK code \in {FORMERR, REFUSED, NXDOMAIN, NOERROR}, service \in {Absent, Lookup(n)} :
           /\ request' = Answered("dns", n, code, service)
           /\ \/ code \in {FORMERR, REFUSED} /\ service = Absent
              \/ code = NXDOMAIN /\ Lookup(n) = Absent
              \/ code = NOERROR /\ Lookup(n) # Absent
    <3>1. CASE request' = Answered("dns", n, FORMERR, Absent)
      BY <3>1
    <3>2. CASE request' = Answered("dns", n, REFUSED, Absent)
      BY <3>2
    <3>3. CASE request' = Answered("dns", n, IF Lookup(n) = Absent THEN NXDOMAIN
                                             ELSE NOERROR, Lookup(n))
      BY <3>3
    <3> QED
      BY <1>6, <3>1, <3>2, <3>3 DEF ServeDNS
  <2>2. "dns" \in Kinds /\ code \in Nat
    BY DEF Kinds, FORMERR, REFUSED, NXDOMAIN, NOERROR
  <2>3. /\ Lookup(n) \in Service \cup {Absent}
        /\ Lookup(n) # Absent => /\ Lookup(n).name = NormalizeName(n)
                                 /\ Lookup(n).name \in CoreNames
                                 /\ Lookup(n).address # NoAddress
    BY <1>3, Found
  <2> HIDE DEF n
  <2>4. /\ service \in Service \cup {Absent}
        /\ service # Absent => /\ service.name = NormalizeName(n)
                               /\ service.name \in CoreNames
                               /\ service.address # NoAddress
    BY <2>1, <2>3
  <2>5. \/ code \in {400, FORMERR, REFUSED}
        \/ code = NXDOMAIN /\ "dns" # "list" /\ Lookup(n) = Absent
        \/ code \in {200, NOERROR} /\ "dns" # "list" /\ Lookup(n) # Absent
    BY <2>1
  <2> QED
    BY <1>3, <2>1, <2>2, <2>4, <2>5, AnswersAtOnce
<1>7. CASE handleServices(List, TRUE, n)
  <2>1. /\ n \in CoreNames
        /\ request' = [Started("list", n) EXCEPT !.service = List[n], !.pc = "conflicts"]
    BY <1>7 DEF handleServices
  <2>2. List[n] = Lookup(n)
    BY <2>1, Listed
  <2>3. List[n] \in Service \cup {Absent}
    BY <1>3, <2>2, Found
  <2> HIDE DEF n
  <2>4. request' = [kind |-> "list", name |-> n, pc |-> "conflicts", code |-> NOERROR,
                    service |-> List[n], conflicts |-> {}, seen |-> {Standing(n)}]
    BY <2>1, ZenonT(60) DEF Started, NoRequest
  <2> QED
    BY <1>1, <1>3, <2>1, <2>2, <2>3, <2>4, AsksOn
<1>8. CASE handleServices(ListLocal, FALSE, n)
  <2>1. n \in CoreNames /\ request' = Answered("advertise", n, 200, ListLocal[n])
    BY <1>8 DEF handleServices
  <2>2. "advertise" \in Kinds /\ 200 \in Nat
    BY DEF Kinds
  <2> HIDE DEF n
  <2> QED
    BY <1>3, <2>1, <2>2, Listed, AnswersAtOnce
<1> QED
  BY <1>2, <1>4, <1>5, <1>6, <1>7, <1>8 DEF ControlMux, PeerMux

(* The second read joins what was seen of the name before it: an earlier   *)
(* standing with the same conflict, or a conflict that began or ended.     *)
LEMMA Joined ==
    ASSUME NEW seen, NEW now \in seen, NEW v \in seen
    PROVE  \/ "conflict" \in v <=> "conflict" \in now
           \/ \E before, after \in seen :
                 "conflict" \in before /\ "conflict" \notin after
OBVIOUS

(* The second read of a request: why the name was not found.               *)
LEMMA CheckReads ==
    ASSUME ReadInv, CheckConflict
    PROVE  ReadInv'
<1> DEFINE n == request.name
           code == IF Conflict(n) THEN 409 ELSE 404
<1>1. /\ request \in RequestType /\ request.kind \in {"resolve", "proxy"}
      /\ n \in Spellings /\ Standing(n) \in request.seen
      /\ \E v \in request.seen : "routed" \notin v
  BY DEF ReadInv, Watching, AskingWhy, CheckConflict
<1>2. request' = [request EXCEPT !.pc = "done", !.code = code] /\ code \in Nat
  BY DEF CheckConflict
<1>3. code \in {404, 409} /\ ("conflict" \in Standing(n) <=> code = 409)
  BY <1>1, StandingFacts
<1> HIDE DEF code
<1>4. /\ request' \in RequestType /\ request'.pc = "done"
      /\ request'.kind = request.kind /\ request'.code = code
      /\ request'.seen = request.seen /\ request'.name = request.name
      /\ request'.service = request.service
  BY <1>1, <1>2 DEF RequestType
<1>5. Watching' /\ AskingWhy' /\ AskingConflicts'
  BY <1>4 DEF Watching, AskingWhy, AskingConflicts
<1>6. RoutedToOwnName'
  BY <1>4 DEF RoutedToOwnName, ReadInv
<1>7. AnswersOneInstant'
  <2>1. PICK v \in request.seen : "routed" \notin v
    BY <1>1
  <2>2. ~SaysRouted' /\ (SaysConflict' <=> "conflict" \in Standing(n))
    BY <1>1, <1>3, <1>4 DEF SaysRouted, SaysConflict, NOERROR
  <2>3. \/ "conflict" \in v <=> "conflict" \in Standing(n)
        \/ \E before, after \in request.seen :
              "conflict" \in before /\ "conflict" \notin after
    BY <1>1, Joined
  <2> QED
    BY <1>4, <2>1, <2>2, <2>3 DEF AnswersOneInstant
<1> QED
  BY <1>4, <1>5, <1>6, <1>7 DEF ReadInv

(* The second read of a listing: the conflicted names.                     *)
LEMMA ConflictsRead ==
    ASSUME ReadInv, ListConflicts
    PROVE  ReadInv'
<1> DEFINE n == request.name
           told == Conflicts \cap {n}
<1>1. /\ request \in RequestType /\ request.kind = "list" /\ n \in CoreNames
      /\ n \in Spellings /\ Standing(n) \in request.seen
      /\ \E v \in request.seen : "routed" \in v <=> request.service # Absent
  BY DEF ReadInv, Watching, AskingConflicts, ListConflicts
<1>2. request' = [request EXCEPT !.pc = "done", !.code = 200, !.conflicts = told]
  BY DEF ListConflicts
<1>3. ("conflict" \in Standing(n) <=> n \in told) /\ told \in SUBSET Spellings
  <2>1. NormalizeName(n) = n
    BY <1>1, NameAssumption DEF NormalizeName
  <2>2. Conflict(n) <=> n \in told
    BY <2>1 DEF Conflict, Conflicts
  <2> QED
    BY <1>1, <2>2, StandingFacts
<1> HIDE DEF told
<1>4. /\ request' \in RequestType /\ request'.pc = "done"
      /\ request'.kind = request.kind /\ request'.conflicts = told
      /\ request'.seen = request.seen /\ request'.name = request.name
      /\ request'.service = request.service
  BY <1>1, <1>2, <1>3, ZenonT(60) DEF RequestType
<1>5. Watching' /\ AskingWhy' /\ AskingConflicts'
  BY <1>4 DEF Watching, AskingWhy, AskingConflicts
<1>6. RoutedToOwnName'
  BY <1>4 DEF RoutedToOwnName, ReadInv
<1>7. AnswersOneInstant'
  <2>1. PICK v \in request.seen : "routed" \in v <=> request.service # Absent
    BY <1>1
  <2>2. /\ SaysRouted' <=> request.service # Absent
        /\ SaysConflict' <=> "conflict" \in Standing(n)
    BY <1>1, <1>3, <1>4 DEF SaysRouted, SaysConflict
  <2>3. \/ "conflict" \in v <=> "conflict" \in Standing(n)
        \/ \E before, after \in request.seen :
              "conflict" \in before /\ "conflict" \notin after
    BY <1>1, Joined
  <2> QED
    BY <1>4, <2>1, <2>2, <2>3 DEF AnswersOneInstant
<1> QED
  BY <1>4, <1>5, <1>6, <1>7 DEF ReadInv

(* A writer comes in between the two reads of a request.                   *)
LEMMA WriteBetweenReads ==
    ASSUME ReadInv, Write, request.pc # "done"
    PROVE  ReadInv'
<1> DEFINE saw == {Standing(n)' : n \in {request.name}}
<1>1. request \in RequestType /\ request.name \in Spellings
  BY DEF ReadInv, Watching
<1>2. request' = [request EXCEPT !.seen = @ \cup saw]
  BY DEF Write
<1>3. saw \subseteq Standings
  BY DEF Standings, Standing
<1>4. \A n \in Spellings : n = request.name => Standing(n)' \in saw
  OBVIOUS
<1> HIDE DEF saw
<1>5. /\ request' \in RequestType /\ request'.seen = request.seen \cup saw
      /\ request'.pc = request.pc /\ request'.kind = request.kind
      /\ request'.name = request.name /\ request'.service = request.service
  BY <1>1, <1>2, <1>3 DEF RequestType
<1>6. Watching'
  <2> SUFFICES ASSUME NEW n \in Spellings, n = request'.name
               PROVE  Standing(n)' \in request'.seen
    BY <1>1, <1>5 DEF Watching
  <2> QED
    BY <1>4, <1>5
<1>7. AskingWhy' /\ AskingConflicts'
  BY <1>5 DEF ReadInv, AskingWhy, AskingConflicts
<1>8. AnswersOneInstant'
  BY <1>5 DEF AnswersOneInstant
<1>9. RoutedToOwnName'
  BY <1>5 DEF RoutedToOwnName, ReadInv
<1> QED
  BY <1>5, <1>6, <1>7, <1>8, <1>9 DEF ReadInv

(* No request has been made yet.                                           *)
LEMMA NoRequestReads ==
    ASSUME request = NoRequest PROVE ReadInv
<1>1. request \in RequestType
  BY DEF NoRequest, RequestType, NOERROR
<1>2. Watching /\ AskingWhy /\ AskingConflicts /\ AnswersOneInstant /\ RoutedToOwnName
  BY DEF NoRequest, Watching, AskingWhy, AskingConflicts, AnswersOneInstant,
     RoutedToOwnName
<1> QED
  BY <1>1, <1>2 DEF ReadInv

(* An answer is forgotten.                                                 *)
LEMMA ForgottenReads ==
    ASSUME request' = NoRequest PROVE ReadInv'
<1>1. request' \in RequestType
  BY DEF NoRequest, RequestType, NOERROR
<1>2. Watching' /\ AskingWhy' /\ AskingConflicts' /\ AnswersOneInstant' /\ RoutedToOwnName'
  BY DEF NoRequest, Watching, AskingWhy, AskingConflicts, AnswersOneInstant,
     RoutedToOwnName
<1> QED
  BY <1>1, <1>2 DEF ReadInv

(* Nothing at all happens.                                                 *)
LEMMA ReadStutters ==
    ASSUME ReadInv, UNCHANGED allVars
    PROVE  ReadInv'
<1>1. \A n \in Spellings : Standing(n)' = Standing(n)
  BY SameStanding DEF allVars
<1>2. request' = request
  BY DEF allVars
<1>3. Watching'
  BY <1>1, <1>2 DEF ReadInv, Watching
<1> QED
  BY <1>2, <1>3 DEF ReadInv, RequestType, AskingWhy, AskingConflicts, AnswersOneInstant,
     SaysRouted, SaysWhy, SaysConflict, RoutedToOwnName

(* What holds of the registry holds under its readers, which change nothing*)
(* in it, and the readers' own invariant rests on it.                      *)
THEOREM ReadersInvariance == RequestsSpec => [](Inv /\ IsFiniteSet(Known) /\ ReadInv)
<1>1. RequestsInit => Inv /\ IsFiniteSet(Known) /\ ReadInv
  <2> SUFFICES ASSUME RequestsInit PROVE Inv /\ IsFiniteSet(Known) /\ ReadInv
    OBVIOUS
  <2>1. Init /\ request = NoRequest
    BY DEF RequestsInit
  <2>2. Known = {}
    BY <2>1 DEF Init, Known
  <2> QED
    BY <2>1, <2>2, NoRequestReads, InitInv, FS_EmptySet
<1>2. Inv /\ IsFiniteSet(Known) /\ ReadInv /\ [RequestsNext]_allVars =>
         (Inv /\ IsFiniteSet(Known) /\ ReadInv)'
  <2> SUFFICES ASSUME Inv, IsFiniteSet(Known), ReadInv, [RequestsNext]_allVars
               PROVE  Inv' /\ IsFiniteSet(Known') /\ ReadInv'
    OBVIOUS
  <2>1. [Next]_vars
    BY DEF RequestsNext, allVars, Begin, CheckConflict, ListConflicts, Write
  <2>2. Inv' /\ IsFiniteSet(Known')
    BY <2>1, NextInv, KnownStaysFinite
  <2>3. CASE Begin
    BY <2>2, <2>3, BeginReads
  <2>4. CASE CheckConflict
    BY <2>2, <2>4, CheckReads
  <2>5. CASE ListConflicts
    BY <2>2, <2>5, ConflictsRead
  <2>6. CASE Write
    <3>1. request.pc = "done" => request' = NoRequest
      BY <2>6 DEF Write
    <3>2. request' = NoRequest => ReadInv'
      BY ForgottenReads
    <3> QED
      BY <2>2, <2>6, <3>1, <3>2, WriteBetweenReads
  <2>7. CASE UNCHANGED allVars
    BY <2>2, <2>7, ReadStutters
  <2> QED
    BY <2>3, <2>4, <2>5, <2>6, <2>7 DEF RequestsNext
<1> QED
  BY <1>1, <1>2, PTL DEF RequestsSpec

(* An answer put together from two reads is the standing the name had at   *)
(* one instant, unless a conflict over the name began or ended in between  *)
(* (api.go:69-71, 114-122; proxy.go:48-62; dns.go:53).                     *)
THEOREM AnswersAreOfOneInstant == RequestsSpec => []AnswersOneInstant
<1>1. ReadInv => AnswersOneInstant
  BY DEF ReadInv
<1> QED
  BY <1>1, ReadersInvariance, PTL

(* A request is only ever sent to a backend filed under its own name       *)
(* (proxy.go:48-62).                                                       *)
THEOREM RoutesToTheName == RequestsSpec => []RoutedToOwnName
<1>1. ReadInv => RoutedToOwnName
  BY DEF ReadInv
<1> QED
  BY <1>1, ReadersInvariance, PTL
=============================================================================
