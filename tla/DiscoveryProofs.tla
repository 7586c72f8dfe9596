-------------------------- MODULE DiscoveryProofs ---------------------------
(***************************************************************************)
(* For any number of containers and networks, whatever the containers do   *)
(* while a listing is on its way: discovery routes a name to its only      *)
(* claimant, never chooses between two, withdraws everything when the      *)
(* Engine does not answer, and has logged what it ignores and why.         *)
(*                                                                         *)
(* The invariants are inductive together with the type invariant and with  *)
(* the fact that only finitely many containers run (Finite): it is what    *)
(* makes counting the claimants of a name, and listing the services,       *)
(* meaningful.                                                             *)
(***************************************************************************)
EXTENDS Discovery, TierProofs

Finite ==
    /\ IsFiniteSet(Running(containers))
    /\ IsFiniteSet(Running(poll.list))
    /\ IsFiniteSet(Running(applied))

-----------------------------------------------------------------------------
(* One container.                                                          *)

(* Among the networks a container is reachable on there is a first one.    *)
LEMMA FirstNetwork ==
    ASSUME NEW S \in SUBSET Networks, S # {}
    PROVE  \E n \in S : \A m \in S : NetworkRank[n] <= NetworkRank[m]
<1> DEFINE T == {NetworkRank[n] : n \in S}
<1>1. T \subseteq Nat /\ T # {}
  BY DiscoveryAssumption
<1>2. PICK t \in T : \A u \in T : ~(<<u, t>> \in OpToRel(<, Nat))
  BY <1>1, WFMin, NatLessThanWellFounded
<1>3. \A u \in T : t <= u
  <2> SUFFICES ASSUME NEW u \in T PROVE t <= u
    OBVIOUS
  <2>1. t \in Nat /\ u \in Nat /\ <<u, t>> \in Nat \X Nat
    BY <1>1
  <2>2. u < t => <<u, t>> \in OpToRel(<, Nat)
    BY <2>1, Zenon DEF OpToRel
  <2>3. ~(u < t)
    BY <1>2, <2>2, Zenon
  <2> QED
    BY <2>1, <2>3
<1>4. PICK n \in S : t = NetworkRank[n]
  OBVIOUS
<1> QED
  BY <1>3, <1>4

(* An address that is found is the container's address on a network, the   *)
(* configured one if there is one; without a configured network none is    *)
(* found only if there is none anywhere (docker.go:157-180).               *)
LEMMA AddressFound ==
    ASSUME NEW d \in Descriptions, network \in NetworkSettings
    PROVE  /\ AddressOf(d) \in Addresses \cup {NoAddress}
           /\ AddressOf(d) # NoAddress =>
                \E net \in Networks : /\ AddressOf(d) = d.networks[net]
                                      /\ network \in {net, NoNetwork}
           /\ AddressOf(d) = NoAddress /\ network = NoNetwork =>
                \A net \in Networks : d.networks[net] = NoAddress
<1> DEFINE reachable == {n \in Networks : d.networks[n] # NoAddress}
           first == CHOOSE n \in reachable :
                        \A m \in reachable : NetworkRank[n] <= NetworkRank[m]
<1>1. d.networks \in [Networks -> Addresses]
  BY DiscoveryAssumption
<1>2. reachable # {} => first \in reachable
  BY FirstNetwork
<1>3. AddressOf(d) = IF network # NoNetwork THEN d.networks[network]
                     ELSE IF reachable = {} THEN NoAddress
                     ELSE d.networks[first]
  BY DEF AddressOf
<1>4. network # NoNetwork => network \in Networks
  BY DiscoveryAssumption
<1> HIDE DEF first
<1>5. CASE network # NoNetwork
  BY <1>1, <1>3, <1>4, <1>5
<1>6. CASE network = NoNetwork
  BY <1>1, <1>2, <1>3, <1>6
<1> QED
  BY <1>5, <1>6

(* The reasons for ignoring a container are told apart.                    *)
LEMMA FaultsDiffer ==
    /\ \A x : <<"name", x>> \notin {<<"none">>, <<"address">>}
    /\ \A x : <<"service", x>> \notin {<<"none">>, <<"address">>}
    /\ \A x : <<"port", x>> \notin {<<"none">>, <<"address">>}
    /\ <<"address">> # <<"none">>
  OBVIOUS

(* A container without a fault makes a usable service.                     *)
LEMMA CandidateFacts ==
    ASSUME NEW list \in Listing, network \in NetworkSettings,
           NEW c \in Candidates(list)
    PROVE  /\ c \in Running(list) /\ list[c] \in Descriptions
           /\ NormalizeName(list[c].name) \in CoreNames
           /\ NormalizeName(NormalizeName(list[c].name)) = NormalizeName(list[c].name)
           /\ AddressOf(list[c]) # NoAddress
           /\ ServiceOf(list[c]) \in RawService
           /\ Usable(ServiceOf(list[c]))
<1> DEFINE d == list[c]
<1>1. c \in Running(list) /\ c \in Containers /\ Fault(d) = <<"none">>
  BY DEF Candidates, Running, NoFault
<1>2. d \in Descriptions
  BY <1>1 DEF Running, Listing
<1> HIDE DEF d
<1>3. /\ ValidateName(NormalizeName(d.name)) /\ d.port \in 1..MaxPort
      /\ AddressOf(d) # NoAddress
  BY <1>1, FaultsDiffer DEF Fault, NoFault
<1>4. NormalizeName(d.name) \in CoreNames /\ NormalizeName(d.name) \in Spellings
  BY <1>3, NameAssumption DEF ValidateName
<1>5. NormalizeName(NormalizeName(d.name)) = NormalizeName(d.name)
  BY <1>4, NameAssumption DEF NormalizeName
<1>6. AddressOf(d) \in Addresses
  BY <1>2, <1>3, AddressFound
<1>7. d.port \in Int /\ d.port >= 1 /\ d.port <= MaxPort
  <2>1. \A p \in 1..MaxPort : p \in Int /\ p >= 1 /\ p <= MaxPort
    BY DEF MaxPort
  <2> QED
    BY <1>3, <2>1
<1>8. ServiceOf(d) \in RawService
  BY <1>4, <1>6, <1>7 DEF ServiceOf, RawService
<1>9. Usable(ServiceOf(d))
  BY <1>3, <1>4, <1>5, <1>7 DEF ServiceOf, Usable, ValidateName
<1> QED
  BY <1>1, <1>2, <1>3, <1>4, <1>5, <1>8, <1>9 DEF d

-----------------------------------------------------------------------------
(* convert: a listing.                                                     *)

(* The claimants of a name can be counted.                                 *)
LEMMA ClaimantsFinite ==
    ASSUME NEW list, IsFiniteSet(Running(list)), NEW n
    PROVE  IsFiniteSet(Claimants(list, n))
<1>1. Claimants(list, n) \in SUBSET Running(list)
  BY DEF Claimants, Candidates
<1> QED
  BY <1>1, FS_Subset

(* A name is in conflict exactly when two containers claim it, and only    *)
(* valid names are (discovery.go:111-122).                                 *)
LEMMA ConflictFacts ==
    ASSUME NEW list \in Listing, IsFiniteSet(Running(list)),
           network \in NetworkSettings
    PROVE  /\ \A n : n \in ConflictsOf(list) <=>
                 /\ n \in Spellings
                 /\ \E c, other \in Claimants(list, n) : c # other
           /\ ConflictsOf(list) \subseteq CoreNames
           /\ ConflictNames(ConflictsOf(list)) = ConflictsOf(list)
<1>1. ASSUME NEW n
      PROVE  n \in ConflictsOf(list) <=>
                 /\ n \in Spellings
                 /\ \E c, other \in Claimants(list, n) : c # other
  <2>1. Cardinality(Claimants(list, n)) >= 2 <=>
            \E c, other \in Claimants(list, n) : c # other
    BY ClaimantsFinite, AtLeastTwo
  <2> QED
    BY <2>1 DEF ConflictsOf
<1>2. ConflictsOf(list) \subseteq CoreNames
  <2> SUFFICES ASSUME NEW n \in ConflictsOf(list) PROVE n \in CoreNames
    OBVIOUS
  <2>1. PICK c \in Claimants(list, n) : TRUE
    BY <1>1
  <2>2. c \in Candidates(list) /\ NormalizeName(list[c].name) = n
    BY DEF Claimants, ServiceOf
  <2> QED
    BY <2>2, CandidateFacts
<1>3. ConflictNames(ConflictsOf(list)) = ConflictsOf(list)
  BY <1>2, NameAssumption DEF ConflictNames, ValidateName, NormalizeName
<1> QED
  BY <1>1, <1>2, <1>3

(* The services of a listing: one for each name with a single claimant.    *)
LEMMA ServicesFacts ==
    ASSUME NEW list \in Listing, IsFiniteSet(Running(list)),
           network \in NetworkSettings
    PROVE  /\ ServicesOf(list) \in Seq(RawService)
           /\ \A i \in DOMAIN ServicesOf(list) :
                 \E c \in Candidates(list) :
                    /\ ServicesOf(list)[i] = ServiceOf(list[c])
                    /\ Claimants(list, NormalizeName(list[c].name)) = {c}
           /\ \A c \in Candidates(list) :
                 Claimants(list, NormalizeName(list[c].name)) = {c} =>
                    \E i \in DOMAIN ServicesOf(list) :
                        ServicesOf(list)[i] = ServiceOf(list[c])
<1> DEFINE claims(n) == Claimants(list, n)
           routed == {n \in Spellings \ ConflictsOf(list) : claims(n) # {}}
           winner(n) == CHOOSE c \in claims(n) : TRUE
           S == {ServiceOf(list[winner(n)]) : n \in routed}
<1>1. ServicesOf(list) = SetToSeq(S)
  BY DEF ServicesOf
<1>2. ASSUME NEW n \in routed
      PROVE  /\ winner(n) \in Candidates(list)
             /\ NormalizeName(list[winner(n)].name) = n
             /\ claims(n) = {winner(n)}
  <2>1. winner(n) \in claims(n)
    OBVIOUS
  <2>2. \A c, other \in claims(n) : c = other
    BY ConflictFacts
  <2>3. claims(n) = {winner(n)}
    BY <2>1, <2>2
  <2> QED
    BY <2>1, <2>3 DEF Claimants, ServiceOf
<1>3. ASSUME NEW c \in Candidates(list),
             Claimants(list, NormalizeName(list[c].name)) = {c}
      PROVE  ServiceOf(list[c]) \in S
  <2> DEFINE n == NormalizeName(list[c].name)
  <2>1. n \in Spellings
    BY CandidateFacts, NameAssumption
  <2>2. n \in routed
    BY <1>3, <2>1, ConflictFacts
  <2>3. winner(n) = c
    BY <1>3
  <2> QED
    BY <2>2, <2>3
<1>4. ASSUME NEW s \in S
      PROVE  \E c \in Candidates(list) :
                /\ s = ServiceOf(list[c])
                /\ Claimants(list, NormalizeName(list[c].name)) = {c}
  <2>1. PICK n \in routed : s = ServiceOf(list[winner(n)])
    OBVIOUS
  <2> QED
    BY <1>2, <2>1
<1>5. S \subseteq RawService
  BY <1>4, CandidateFacts
<1>6. IsFiniteSet(S)
  <2> DEFINE f == [c \in Containers |-> ServiceOf(list[c])]
             T == {f[c] : c \in Running(list)}
  <2>1. IsFiniteSet(T)
    BY FiniteImage
  <2>2. S \subseteq T
    <3> SUFFICES ASSUME NEW s \in S PROVE s \in T
      OBVIOUS
    <3>1. PICK c \in Candidates(list) : s = ServiceOf(list[c])
      BY <1>4
    <3>2. c \in Running(list) /\ c \in Containers
      BY DEF Candidates, Running
    <3> QED
      BY <3>1, <3>2
  <2> HIDE DEF T, S
  <2> QED
    BY <2>1, <2>2, FS_Subset
<1> HIDE DEF S
<1>7. /\ ServicesOf(list) \in Seq(S)
      /\ \A s \in S : \E i \in DOMAIN ServicesOf(list) : ServicesOf(list)[i] = s
  BY <1>1, <1>6, ListingOfSet
<1>8. ServicesOf(list) \in Seq(RawService)
  BY <1>5, <1>7
<1>9. \A i \in DOMAIN ServicesOf(list) : ServicesOf(list)[i] \in S
  BY <1>7
<1> QED
  BY <1>3, <1>4, <1>7, <1>8, <1>9
(* The configured network does not change, so what a listing means does not*)
(* depend on when it is applied.                                           *)
LEMMA Carried ==
    ASSUME NEW list, network' = network, applied' = list
    PROVE  /\ Running(applied)' = Running(list)
           /\ Faulty(applied)' = Faulty(list)
           /\ Candidates(applied)' = Candidates(list)
           /\ \A n : Claimants(applied, n)' = Claimants(list, n)
           /\ \A c : /\ Unlabelled(applied[c])' = Unlabelled(list[c])
                    /\ Fault(applied[c])' = Fault(list[c])
                    /\ ServiceOf(applied[c])' = ServiceOf(list[c])
<1>1. \A c : AddressOf(applied[c])' = AddressOf(list[c])
  BY DEF AddressOf
<1>2. \A c : Unlabelled(applied[c])' = Unlabelled(list[c])
  BY DEF Unlabelled, NormalizeName
<1>3. \A c : Fault(applied[c])' = Fault(list[c])
  BY <1>1 DEF Fault, NormalizeName, ValidateName, NoFault
<1>4. \A c : ServiceOf(applied[c])' = ServiceOf(list[c])
  BY <1>1 DEF ServiceOf, NormalizeName
<1>5. Running(applied)' = Running(list)
  BY DEF Running
<1>6. Faulty(applied)' = Faulty(list) /\ Candidates(applied)' = Candidates(list)
  BY <1>2, <1>3, <1>5 DEF Faulty, Candidates, NoFault
<1>7. \A n : Claimants(applied, n)' = Claimants(list, n)
  BY <1>4, <1>6 DEF Claimants
<1> QED
  BY <1>2, <1>3, <1>4, <1>5, <1>6, <1>7
-----------------------------------------------------------------------------
(* SetDocker.                                                              *)

(* What reaches the registry from a listing: a name of the Docker tier has *)
(* a single claimant, whose service it is, and a single claimant's service *)
(* is there under its name.                                                *)
LEMMA DockerFacts ==
    ASSUME NEW list \in Listing, IsFiniteSet(Running(list)),
           network \in NetworkSettings
    PROVE  LET tier == DockerTier(ServicesOf(list), ConflictsOf(list))
           IN  /\ \A n \in NamesIn(tier) :
                     \E c \in Candidates(list) :
                        /\ NormalizeName(list[c].name) = n
                        /\ Claimants(list, n) = {c}
                        /\ tier[n] = Stamp(ServiceOf(list[c]), SourceDocker)
               /\ \A c \in Candidates(list) :
                     Claimants(list, NormalizeName(list[c].name)) = {c} =>
                        tier[NormalizeName(list[c].name)]
                            = Stamp(ServiceOf(list[c]), SourceDocker)
<1> DEFINE services == ServicesOf(list)
           usable == UsableIn(services)
           filed == Filed(services, usable, SourceDocker)
           tier == DockerTier(services, ConflictsOf(list))
<1>1. services \in Seq(RawService)
  BY ServicesFacts
<1>2. /\ usable \in SUBSET DOMAIN services /\ SourceDocker \in Sources
      /\ ConflictNames(ConflictsOf(list)) = ConflictsOf(list)
  BY ConflictFacts DEF UsableIn, Sources
<1>3. \A n \in Spellings : tier[n] = IF n \in ConflictsOf(list) THEN Absent ELSE filed[n]
  BY <1>2 DEF DockerTier
<1>4. ASSUME NEW n \in Spellings, filed[n] # Absent
      PROVE  \E c \in Candidates(list) :
                /\ NormalizeName(list[c].name) = n
                /\ Claimants(list, n) = {c}
                /\ filed[n] = Stamp(ServiceOf(list[c]), SourceDocker)
  <2> HIDE DEF services, usable
  <2>1. PICK i \in usable : /\ NormalizeName(services[i].name) = n
                            /\ filed[n] = Stamp(services[i], SourceDocker)
    BY <1>1, <1>2, <1>4, FiledEntry
  <2>2. i \in DOMAIN services
    BY <1>2
  <2>3. PICK c \in Candidates(list) :
           /\ services[i] = ServiceOf(list[c])
           /\ Claimants(list, NormalizeName(list[c].name)) = {c}
    BY <2>2, ServicesFacts DEF services
  <2>4. NormalizeName(services[i].name) = NormalizeName(list[c].name)
    BY <2>3, CandidateFacts DEF ServiceOf
  <2> QED
    BY <2>1, <2>3, <2>4
<1>5. ASSUME NEW c \in Candidates(list),
             Claimants(list, NormalizeName(list[c].name)) = {c}
      PROVE  tier[NormalizeName(list[c].name)] = Stamp(ServiceOf(list[c]), SourceDocker)
  <2> DEFINE n == NormalizeName(list[c].name)
  <2>1. n \in Spellings /\ NormalizeName(n) = n /\ Usable(ServiceOf(list[c]))
    BY CandidateFacts, NameAssumption
  <2>2. PICK i \in DOMAIN services : services[i] = ServiceOf(list[c])
    BY <1>5, ServicesFacts
  <2>3. i \in usable /\ NormalizeName(services[i].name) = n
    BY <2>1, <2>2 DEF UsableIn, ServiceOf
  <2>4. filed[n] # Absent
    <3> DEFINE entries == {j \in usable : NormalizeName(services[j].name) = n}
    <3>1. filed[n] = IF entries = {} THEN Absent
                     ELSE Stamp(services[Max(entries)], SourceDocker)
      BY <2>1 DEF Filed
    <3>2. entries \subseteq 1..Len(services) /\ Len(services) \in Nat /\ entries # {}
      BY <1>1, <1>2, <2>3
    <3> HIDE DEF entries
    <3>3. Max(entries) \in entries
      BY <3>2, MaxIndex
    <3>4. services[Max(entries)] \in RawService
      <4>1. \A j \in 1..Len(services) : services[j] \in RawService
        BY <1>1
      <4> QED
        BY <3>2, <3>3, <4>1
    <3>5. Stamp(services[Max(entries)], SourceDocker) # Absent
      BY <1>2, <3>4, StampType, AbsentAssumption
    <3> QED
      BY <3>1, <3>2, <3>5
  <2>5. filed[n] = Stamp(ServiceOf(list[c]), SourceDocker)
    <3>1. PICK e \in Candidates(list) :
             /\ Claimants(list, n) = {e}
             /\ filed[n] = Stamp(ServiceOf(list[e]), SourceDocker)
      BY <1>4, <2>1, <2>4
    <3> QED
      BY <1>5, <3>1
  <2>6. n \notin ConflictsOf(list)
    BY <1>5, ConflictFacts
  <2> QED
    BY <1>3, <2>1, <2>5, <2>6
<1>6. ASSUME NEW n \in NamesIn(tier)
      PROVE  \E c \in Candidates(list) :
                /\ NormalizeName(list[c].name) = n
                /\ Claimants(list, n) = {c}
                /\ tier[n] = Stamp(ServiceOf(list[c]), SourceDocker)
  <2>1. n \in Spellings /\ tier[n] # Absent
    BY DEF NamesIn
  <2>2. tier[n] = filed[n]
    BY <1>3, <2>1
  <2> QED
    BY <1>4, <2>1, <2>2
<1> QED
  BY <1>5, <1>6

(* Withdrawing everything.                                                 *)
LEMMA NothingFiled == DockerTier(<<>>, {}) = EmptyTier /\ ConflictNames({}) = {}
<1>1. DOMAIN <<>> = {}
  OBVIOUS
<1>2. UsableIn(<<>>) = {}
  BY <1>1 DEF UsableIn
<1>3. Filed(<<>>, {}, SourceDocker) = EmptyTier
  BY DEF Filed, EmptyTier
<1>4. ConflictNames({}) = {}
  BY DEF ConflictNames
<1> QED
  BY <1>2, <1>3, <1>4 DEF DockerTier, EmptyTier
-----------------------------------------------------------------------------
(* The invariant.                                                          *)

(* What the daemon has on record as logged is what the log says.           *)
Logged == told.ignored = skipped /\ told.conflicts = conflicted

DInv == TypeOK /\ Finite /\ SoleClaimantRouted /\ UnavailableWithdrawn /\ Logged /\ LogTells

(* Nothing runs in an empty listing.                                       *)
LEMMA NobodyRuns ==
    /\ NoContainers \in Listing
    /\ Running(NoContainers) = {}
    /\ Candidates(NoContainers) = {} /\ Faulty(NoContainers) = {}
    /\ IsFiniteSet(Running(NoContainers))
<1>1. NoContainers \in Listing /\ Running(NoContainers) = {}
  BY DEF NoContainers, Listing, Running
<1>2. Candidates(NoContainers) = {} /\ Faulty(NoContainers) = {}
  BY <1>1 DEF Candidates, Faulty
<1> QED
  BY <1>1, <1>2, FS_EmptySet

LEMMA InitDiscovery == Init => DInv
<1> SUFFICES ASSUME Init PROVE DInv
  OBVIOUS
<1> USE NobodyRuns
<1>1. TypeOK
  BY EmptyTierFacts DEF Init, TypeOK
<1>2. Finite
  BY DEF Init, Finite
<1>3. SoleClaimantRouted
  BY EmptyTierFacts DEF Init, SoleClaimantRouted
<1>4. UnavailableWithdrawn /\ Logged /\ LogTells
  BY DEF Init, UnavailableWithdrawn, Logged, LogTells
<1> QED
  BY <1>1, <1>2, <1>3, <1>4 DEF DInv

(* The reasons on record do not depend on the moment.                      *)
LEMMA SameFaults ==
    ASSUME network' = network PROVE Faults' = Faults
<1>1. \A d : AddressOf(d)' = AddressOf(d)
  BY DEF AddressOf
<1>2. \A d : Fault(d)' = Fault(d)
  BY <1>1 DEF Fault
<1> QED
  BY <1>2 DEF Faults

(* A step that leaves the registry and the record alone.                   *)
LEMMA RecordsKept ==
    ASSUME DInv, TypeOK', Finite',
           UNCHANGED <<network, docker, conflicts, available, skipped, conflicted,
                       applied, told>>
    PROVE  DInv'
<1>1. /\ Running(applied)' = Running(applied)
      /\ Faulty(applied)' = Faulty(applied)
      /\ Candidates(applied)' = Candidates(applied)
      /\ \A n : Claimants(applied, n)' = Claimants(applied, n)
      /\ \A c : /\ Unlabelled(applied[c])' = Unlabelled(applied[c])
               /\ Fault(applied[c])' = Fault(applied[c])
               /\ ServiceOf(applied[c])' = ServiceOf(applied[c])
  BY Carried DEF DInv
<1>2. SoleClaimantRouted'
  <2>1. SoleClaimantRouted
    BY DEF DInv
  <2>2. UNCHANGED <<network, docker, conflicts, applied>>
    OBVIOUS
  <2> QED
    BY <1>1, <2>1, <2>2 DEF SoleClaimantRouted, NamesIn, NormalizeName, Stamp
<1>3. UnavailableWithdrawn'
  BY DEF DInv, UnavailableWithdrawn
<1>4. Logged' /\ LogTells'
  BY <1>1 DEF DInv, Logged, LogTells
<1> QED
  BY <1>2, <1>3, <1>4 DEF DInv

(* Containers come and go, one at a time.                                  *)
LEMMA ContainerStep ==
    ASSUME DInv, NEW c \in Containers, ContainerChanges(c) PROVE DInv'
<1>1. PICK d \in Looks[c] \cup {Absent} : containers' = [containers EXCEPT ![c] = d]
  BY DEF ContainerChanges
<1>2. UNCHANGED <<network, docker, conflicts, available, skipped, conflicted, poll,
                  engineUp, applied, told>>
  BY DEF ContainerChanges
<1>3. TypeOK'
  <2>1. d \in Descriptions \cup {Absent}
    BY DEF Descriptions
  <2>2. containers' \in Listing
    BY <1>1, <2>1 DEF DInv, TypeOK, Listing
  <2> QED
    BY <1>2, <2>2, SameFaults DEF DInv, TypeOK, Listing
<1>4. Finite'
  <2>1. Running(containers)' \subseteq Running(containers) \cup {c}
    BY <1>1 DEF DInv, TypeOK, Running, Listing
  <2>2. IsFiniteSet(Running(containers) \cup {c})
    BY FS_AddElement DEF DInv, Finite
  <2>3. IsFiniteSet(Running(containers)')
    BY <2>1, <2>2, FS_Subset
  <2>4. Running(poll.list)' = Running(poll.list) /\ Running(applied)' = Running(applied)
    BY <1>2 DEF Running
  <2> QED
    BY <2>3, <2>4 DEF DInv, Finite
<1> QED
  BY <1>2, <1>3, <1>4, RecordsKept

LEMMA EngineStep ==
    ASSUME DInv, EngineChanges \/ UNCHANGED vars PROVE DInv'
<1>1. UNCHANGED <<network, docker, conflicts, available, skipped, conflicted, poll,
                  containers, applied, told>>
  BY DEF EngineChanges, vars
<1>2. TypeOK'
  BY <1>1, SameFaults DEF DInv, TypeOK, Listing, EngineChanges, vars
<1>3. Finite'
  BY <1>1 DEF DInv, Finite, Running
<1> QED
  BY <1>1, <1>2, <1>3, RecordsKept

(* The Engine answers with what runs now, or does not.                     *)
LEMMA ListStep ==
    ASSUME DInv, listContainers PROVE DInv'
<1>1. UNCHANGED <<network, docker, conflicts, available, skipped, conflicted,
                  containers, engineUp, applied, told>>
  BY DEF listContainers
<1>2. /\ poll'.list \in {containers, NoContainers}
      /\ poll' \in [pc : {"idle", "listed", "failed"}, list : Listing]
  BY NobodyRuns DEF listContainers, DInv, TypeOK
<1>3. TypeOK'
  BY <1>1, <1>2, SameFaults DEF DInv, TypeOK, Listing
<1>4. Running(poll.list)' = Running(poll'.list) /\ Running(containers)' = Running(containers)
      /\ Running(applied)' = Running(applied)
  BY <1>1 DEF Running
<1>5. Finite'
  BY <1>2, <1>4, NobodyRuns DEF DInv, Finite
<1> QED
  BY <1>1, <1>3, <1>5, RecordsKept

(* What both ways of ending a poll leave of the type invariant.            *)
LEMMA PollEnds ==
    ASSUME DInv, PollDone, UNCHANGED <<network, containers, engineUp>>,
           applied' \in {poll.list, applied, NoContainers}
    PROVE  /\ poll' \in [pc : {"idle", "listed", "failed"}, list : Listing]
           /\ applied' \in Listing /\ Finite'
<1>1. /\ poll' = [pc |-> "idle", list |-> NoContainers] /\ poll'.list = NoContainers
      /\ poll' \in [pc : {"idle", "listed", "failed"}, list : Listing]
  BY NobodyRuns DEF PollDone
<1>2. applied' \in Listing /\ IsFiniteSet(Running(applied'))
  BY NobodyRuns DEF DInv, TypeOK, Finite
<1>3. /\ Running(poll.list)' = Running(poll'.list)
      /\ Running(containers)' = Running(containers)
      /\ Running(applied)' = Running(applied')
  BY DEF Running
<1> QED
  BY <1>1, <1>2, <1>3, NobodyRuns DEF DInv, Finite

(* A listing reaches the registry.                                         *)
LEMMA ListedStep ==
    ASSUME DInv, PollListed PROVE DInv'
<1> DEFINE list == poll.list
           names == ConflictsOf(list)
           tier == DockerTier(ServicesOf(list), names)
<1>1. /\ list \in Listing /\ IsFiniteSet(Running(list)) /\ network \in NetworkSettings
      /\ skipped \in [Containers -> Faults \cup {Absent}]
      /\ containers \in Listing /\ engineUp \in BOOLEAN
      /\ told.ignored = skipped /\ told.conflicts = conflicted
  BY DEF DInv, TypeOK, Finite, Logged
<1>2. /\ PollDone /\ available' = TRUE /\ skipped' = SkippedAfter(list)
      /\ conflicted' = names /\ docker' = tier
      /\ conflicts' = ConflictNames(names) /\ told' = Told(list, names)
      /\ applied' = list /\ UNCHANGED <<network, containers, engineUp>>
  BY DEF PollListed, SetDocker, ConflictedAfter
<1> HIDE DEF list
<1>3. ConflictNames(names) = names /\ names \subseteq CoreNames
  BY <1>1, ConflictFacts
<1>4. /\ tier \in Tier
      /\ \A n \in NamesIn(tier) :
            \E c \in Candidates(list) :
               /\ NormalizeName(list[c].name) = n
               /\ Claimants(list, n) = {c}
               /\ tier[n] = Stamp(ServiceOf(list[c]), SourceDocker)
      /\ \A c \in Candidates(list) :
            Claimants(list, NormalizeName(list[c].name)) = {c} =>
               tier[NormalizeName(list[c].name)]
                   = Stamp(ServiceOf(list[c]), SourceDocker)
  <2>1. ServicesOf(list) \in Seq(RawService) /\ names \in SUBSET Spellings
    BY <1>1, ServicesFacts DEF ConflictsOf
  <2>2. tier \in Tier
    BY <2>1, DockerTierFacts
  <2> QED
    BY <1>1, <2>2, DockerFacts
<1> HIDE DEF names, tier
<1>5. /\ Running(applied)' = Running(list)
      /\ Faulty(applied)' = Faulty(list)
      /\ Candidates(applied)' = Candidates(list)
      /\ \A n : Claimants(applied, n)' = Claimants(list, n)
      /\ \A c : /\ Unlabelled(applied[c])' = Unlabelled(list[c])
               /\ Fault(applied[c])' = Fault(list[c])
               /\ ServiceOf(applied[c])' = ServiceOf(list[c])
  BY <1>2, Carried
<1>6. skipped' \in [Containers -> Faults \cup {Absent}]
  <2>1. ASSUME NEW c \in Faulty(list) PROVE Fault(list[c]) \in Faults
    <3>1. list[c] \in Descriptions /\ ~Unlabelled(list[c]) /\ Fault(list[c]) # NoFault
      BY <1>1 DEF Faulty, Running, Listing
    <3> QED
      BY <3>1 DEF Faults
  <2> QED
    BY <1>1, <1>2, <2>1 DEF SkippedAfter
<1>7. Logged' /\ told' = [ignored |-> skipped', conflicts |-> conflicted']
  <2> DEFINE reasons == [c \in Containers |->
                           IF c \in Faulty(list) /\ skipped[c] # Fault(list[c])
                               THEN Fault(list[c])
                           ELSE IF c \in Candidates(list) THEN Absent
                           ELSE told.ignored[c]]
             open == (told.conflicts \cup (names \ conflicted)) \ (conflicted \ names)
  <2>1. told' = [ignored |-> reasons, conflicts |-> open]
    BY <1>2 DEF Told
  <2>2. Candidates(list) \cap Faulty(list) = {}
    BY DEF Candidates, Faulty
  <2>3. reasons = skipped'
    BY <1>1, <1>2, <2>2 DEF SkippedAfter
  <2>4. open = conflicted'
    BY <1>1, <1>2
  <2> HIDE DEF reasons, open
  <2> QED
    BY <2>1, <2>3, <2>4 DEF Logged
<1>8. TypeOK' /\ Finite'
  <2>1. /\ poll' \in [pc : {"idle", "listed", "failed"}, list : Listing]
        /\ applied' \in Listing /\ Finite'
    BY <1>2, PollEnds DEF list
  <2>2. Faults' = Faults
    BY <1>2, SameFaults
  <2> QED
    BY <1>1, <1>2, <1>3, <1>4, <1>6, <1>7, <2>1, <2>2 DEF TypeOK, Listing
<1>9. SoleClaimantRouted'
  <2>1. ASSUME NEW n \in NamesIn(tier)
        PROVE  \E c \in Running(list) :
              /\ NormalizeName(list[c].name) = n
              /\ tier[n].port = list[c].port
              /\ \E net \in Networks :
                    /\ tier[n].address = list[c].networks[net]
                    /\ network \in {net, NoNetwork}
              /\ \A other \in Candidates(list) \ {c} :
                    NormalizeName(list[other].name) # n
    <3>1. PICK c \in Candidates(list) :
               /\ NormalizeName(list[c].name) = n
               /\ Claimants(list, n) = {c}
               /\ tier[n] = Stamp(ServiceOf(list[c]), SourceDocker)
      BY <1>4
    <3>2. tier[n].port = list[c].port /\ tier[n].address = AddressOf(list[c])
      BY <3>1 DEF Stamp, ServiceOf
    <3>3. /\ c \in Running(list) /\ list[c] \in Descriptions
          /\ AddressOf(list[c]) # NoAddress
      BY <1>1, CandidateFacts
    <3>4. \E net \in Networks : /\ tier[n].address = list[c].networks[net]
                                /\ network \in {net, NoNetwork}
      BY <1>1, <3>2, <3>3, AddressFound
    <3>5. \A other \in Candidates(list) \ {c} : NormalizeName(list[other].name) # n
      BY <3>1 DEF Claimants, ServiceOf
    <3> QED
      BY <3>1, <3>2, <3>3, <3>4, <3>5
  <2>2. ASSUME NEW c \in Candidates(list),
               Claimants(list, NormalizeName(list[c].name)) # {c}
        PROVE  NormalizeName(list[c].name) \in names
    <3>1. NormalizeName(list[c].name) \in Spellings
      BY <1>1, CandidateFacts, NameAssumption
    <3>2. c \in Claimants(list, NormalizeName(list[c].name))
      BY DEF Claimants, ServiceOf
    <3> QED
      BY <1>1, <2>2, <3>1, <3>2, ConflictFacts DEF names
  <2>3. NamesIn(docker)' = NamesIn(tier) /\ docker' = tier /\ conflicts' = names
    BY <1>2, <1>3 DEF NamesIn
  <2> QED
    BY <1>2, <1>4, <1>5, <2>1, <2>2, <2>3 DEF SoleClaimantRouted, NormalizeName, Stamp
<1>10. UnavailableWithdrawn'
  BY <1>2 DEF UnavailableWithdrawn
<1>11. LogTells'
  <2>1. ASSUME NEW c \in Faulty(list)
        PROVE  /\ skipped'[c] = Fault(list[c])
               /\ network = NoNetwork /\ skipped'[c] = <<"address">> =>
                      \A net \in Networks : list[c].networks[net] = NoAddress
    <3>1. c \in Containers /\ list[c] \in Descriptions
      BY <1>1 DEF Faulty, Running, Listing
    <3>2. skipped'[c] = Fault(list[c])
      BY <1>2, <3>1 DEF SkippedAfter
    <3>3. skipped'[c] = <<"address">> => AddressOf(list[c]) = NoAddress
      BY <3>2, FaultsDiffer, DiscoveryAssumption DEF Fault, NoFault
    <3> QED
      BY <1>1, <3>1, <3>2, <3>3, AddressFound
  <2>2. told'.ignored = skipped' /\ told'.conflicts = conflicts'
    BY <1>2, <1>3, <1>7 DEF Logged
  <2> QED
    BY <1>2, <1>5, <2>1, <2>2 DEF LogTells
<1> QED
  BY <1>7, <1>8, <1>9, <1>10, <1>11 DEF DInv

(* The Engine did not answer: the first time everything is withdrawn.      *)
LEMMA FailedStep ==
    ASSUME DInv, PollFailed PROVE DInv'
<1>1. PollDone /\ UNCHANGED <<network, skipped, conflicted, containers, engineUp, told>>
  BY DEF PollFailed
<1>2. Faults' = Faults
  BY <1>1, SameFaults
<1>3. CASE UNCHANGED <<docker, conflicts, available, applied>>
  <2>1. /\ poll' \in [pc : {"idle", "listed", "failed"}, list : Listing]
        /\ applied' \in Listing /\ Finite'
    BY <1>1, <1>3, PollEnds
  <2>2. TypeOK'
    BY <1>1, <1>2, <1>3, <2>1 DEF DInv, TypeOK, Listing
  <2> QED
    BY <1>1, <1>3, <2>1, <2>2, RecordsKept
<1>4. CASE available' = FALSE /\ SetDocker(<<>>, {}) /\ applied' = NoContainers
  <2>1. docker' = EmptyTier /\ conflicts' = {}
    BY <1>4, NothingFiled DEF SetDocker
  <2>2. /\ poll' \in [pc : {"idle", "listed", "failed"}, list : Listing]
        /\ applied' \in Listing /\ Finite'
    BY <1>1, <1>4, PollEnds
  <2>3. TypeOK'
    BY <1>1, <1>2, <1>4, <2>1, <2>2, EmptyTierFacts DEF DInv, TypeOK, Listing
  <2>4. /\ Running(applied)' = {} /\ Candidates(applied)' = {} /\ Faulty(applied)' = {}
        /\ NamesIn(docker)' = {}
    <3>1. /\ Running(applied)' = Running(NoContainers)
          /\ Candidates(applied)' = Candidates(NoContainers)
          /\ Faulty(applied)' = Faulty(NoContainers)
      BY <1>1, <1>4, Carried
    <3>2. NamesIn(docker)' = NamesIn(EmptyTier)
      BY <2>1 DEF NamesIn
    <3> QED
      BY <3>1, <3>2, NobodyRuns, EmptyTierFacts
  <2>5. SoleClaimantRouted'
    BY <2>4 DEF SoleClaimantRouted
  <2>6. UnavailableWithdrawn'
    BY <2>1 DEF UnavailableWithdrawn, EmptyTier
  <2>7. Logged' /\ LogTells'
    BY <1>1, <1>4, <2>4 DEF DInv, Logged, LogTells
  <2> QED
    BY <2>2, <2>3, <2>5, <2>6, <2>7 DEF DInv
<1> QED
  BY <1>3, <1>4 DEF PollFailed

LEMMA NextDiscovery == DInv /\ [Next]_vars => DInv'
  BY ContainerStep, EngineStep, ListStep, ListedStep, FailedStep DEF Next, Poll

LEMMA DiscoveryInvariant == Spec => []DInv
  BY InitDiscovery, NextDiscovery, PTL DEF Spec

(* The poller's state and what it writes into the registry keep their      *)
(* types, whatever the containers' labels say (discovery.go:64-166).       *)
THEOREM TypeCorrect == Spec => []TypeOK
  BY DiscoveryInvariant, PTL DEF DInv

(* corenetd never silently selects one of several containers, and routes   *)
(* every container that alone claims its name, for any number of containers*)
(* and networks, and although containers change while the listing is on its*)
(* way (discovery.go:85-132, docker.go:115-180).                           *)
THEOREM NeverSelectsSilently == Spec => []SoleClaimantRouted
  BY DiscoveryInvariant, PTL DEF DInv

(* While the Engine does not answer nothing it once listed is served       *)
(* (discovery.go:70-79).                                                   *)
THEOREM WithdrawnWhileUnavailable == Spec => []UnavailableWithdrawn
  BY DiscoveryInvariant, PTL DEF DInv

(* A container that cannot be used has been logged with its present reason *)
(* since it was last in use, and the conflicts last logged are the         *)
(* registry's while Docker is available, although a line is written only   *)
(* where the daemon's own record changes (discovery.go:134-166).           *)
THEOREM LogIsTrue == Spec => []LogTells
  BY DiscoveryInvariant, PTL DEF DInv
=============================================================================
