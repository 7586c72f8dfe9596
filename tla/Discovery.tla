----------------------------- MODULE Discovery ------------------------------
(***************************************************************************)
(* internal/discovery: the goroutine that polls the Docker Engine and      *)
(* replaces the registry's Docker tier and conflicts.                      *)
(*                                                                         *)
(* The containers are the environment and change at any time, also between *)
(* the Engine's answer and the moment the answer reaches the registry.     *)
(* Docker keeps display names unique, so a container is known by its name. *)
(* A container's networks map to its address there, NoAddress where it has *)
(* none or is not attached.                                                *)
(***************************************************************************)
EXTENDS Tiers

CONSTANTS
    Containers,         \* display names of containers
    Looks,              \* container -> what it may look like
    EmptyName,          \* the empty string, also a label that is not there
    ServiceHTTP,        \* the supported value of the service label
    Networks,
    NetworkRank,        \* position of a network in string order
    NetworkSettings,    \* docker.network of the configurations it may run with
    NoNetwork           \* the empty docker.network

Descriptions == UNION {Looks[c] : c \in Containers}

(* A description has the three labels and the networks.  A port that is    *)
(* missing or not a number is any value that is not a port.                *)
ASSUME DiscoveryAssumption ==
    /\ EmptyName \in Spellings \ CoreNames
    /\ \A d \in Descriptions : d.name \in Spellings
    /\ \A d \in Descriptions : d.networks \in [Networks -> Addresses]
    /\ Absent \notin Descriptions /\ Absent # <<"address">>
    /\ NetworkRank \in [Networks -> Nat]
    /\ NetworkSettings \subseteq Networks \cup {NoNetwork}

VARIABLES
    network,            \* docker.network, read once: a change needs a restart
    docker, conflicts,  \* the registry's Docker tier and conflicts
    available,          \* d.available
    skipped,            \* d.skipped: container -> reason it was logged with
    conflicted,         \* d.conflicted: names logged as in conflict
    poll,               \* the polling goroutine: its label and its listing
    containers,         \* running containers, name -> description
    engineUp,           \* the Engine answers
    applied,            \* auxiliary: the listing the registry reflects
    told                \* auxiliary: what a reader of the log knows

vars == <<network, docker, conflicts, available, skipped, conflicted, poll,
          containers, engineUp, applied, told>>

Listing == [Containers -> Descriptions \cup {Absent}]

NoContainers == [c \in Containers |-> Absent]

-----------------------------------------------------------------------------
(* docker.go: one container.                                               *)

NoFault == <<"none">>

(* The address on the configured network, or on the first network, by name,*)
(* that has one; NoAddress is the error.                                   *)
AddressOf(d) ==
    LET reachable == {n \in Networks : d.networks[n] # NoAddress}
    IN  IF network # NoNetwork THEN d.networks[network]
        ELSE IF reachable = {} THEN NoAddress
        ELSE d.networks[CHOOSE n \in reachable : \A m \in reachable :
                            NetworkRank[n] <= NetworkRank[m]]

(* errSkip: not a CoreNet container, passed over silently.                 *)
Unlabelled(d) == NormalizeName(d.name) = EmptyName

(* The first thing service() finds wrong with a labelled container.  The   *)
(* offending value is part of the message that is compared and logged.     *)
Fault(d) ==
    IF ~ValidateName(NormalizeName(d.name))
        THEN <<"name", NormalizeName(d.name)>>
    ELSE IF d.kind # ServiceHTTP THEN <<"service", d.kind>>
    ELSE IF d.port \notin 1..MaxPort THEN <<"port", d.port>>
    ELSE IF AddressOf(d) = NoAddress THEN <<"address">>
    ELSE NoFault

ServiceOf(d) ==
    [name |-> NormalizeName(d.name), address |-> AddressOf(d), port |-> d.port]

-----------------------------------------------------------------------------
(* convert: a listing.                                                     *)

Running(list) == {c \in Containers : list[c] # Absent}

Faulty(list) ==
    {c \in Running(list) : ~Unlabelled(list[c]) /\ Fault(list[c]) # NoFault}

(* The containers convert makes a service of: "seen".                      *)
Candidates(list) ==
    {c \in Running(list) : ~Unlabelled(list[c]) /\ Fault(list[c]) = NoFault}

(* claimed[n].                                                             *)
Claimants(list, n) == {c \in Candidates(list) : ServiceOf(list[c]).name = n}

(* Mutant: off by one, a name is in conflict from the third container on.  *)
ConflictsOfThree(list) ==
    {n \in Spellings : Cardinality(Claimants(list, n)) > 2}

ConflictsOf(list) == {n \in Spellings : Cardinality(Claimants(list, n)) >= 2}

(* One service per claimed name, the last container winning.  Only one that*)
(* is in conflict has a choice, and it is deleted.                         *)
ServicesOf(list) ==
    LET claims(n) == Claimants(list, n)
        routed == {n \in Spellings \ ConflictsOf(list) : claims(n) # {}}
    IN  SetToSeq({ServiceOf(list[CHOOSE c \in claims(n) : TRUE]) : n \in routed})

(* Mutant: a container that became usable stays on record as ignored.      *)
SkippedNeverForgotten(list) ==
    [c \in Containers |->
        IF c \in Faulty(list) THEN Fault(list[c]) ELSE skipped[c]]

(* reportSkip and forgetSkips.  A container that is gone, or has lost its  *)
(* name label, stays on record.                                            *)
SkippedAfter(list) ==
    [c \in Containers |->
        IF c \in Faulty(list) THEN Fault(list[c])
        ELSE IF c \in Candidates(list) THEN Absent
        ELSE skipped[c]]

(* reportConflicts: what is in conflict now has been logged as such, and   *)
(* what is no longer has been logged as cleared.                           *)
ConflictedAfter(names) == names

(* The lines reportSkip and reportConflicts write, as a reader of the log  *)
(* takes them: for a container, the reason it was last ignored for, until  *)
(* it is in use; the names last heard of as not routed.                    *)
Told(list, names) ==
    [ignored |-> [c \in Containers |->
                     IF c \in Faulty(list) /\ skipped[c] # Fault(list[c])
                         THEN Fault(list[c])
                     ELSE IF c \in Candidates(list) THEN Absent
                     ELSE told.ignored[c]],
     conflicts |-> (told.conflicts \cup (names \ conflicted)) \ (conflicted \ names)]

-----------------------------------------------------------------------------
Init ==
    /\ network \in NetworkSettings
    /\ docker = EmptyTier
    /\ conflicts = {}
    /\ available = TRUE
    /\ skipped = [c \in Containers |-> Absent]
    /\ conflicted = {}
    /\ poll = [pc |-> "idle", list |-> NoContainers]
    /\ containers = NoContainers
    /\ engineUp \in BOOLEAN
    /\ applied = NoContainers
    /\ told = [ignored |-> [c \in Containers |-> Absent], conflicts |-> {}]

(* A container is started, stopped, or replaced under its name.            *)
ContainerChanges(c) ==
    /\ containers' \in {[containers EXCEPT ![c] = d] :
                           d \in Looks[c] \cup {Absent}}
    /\ UNCHANGED <<network, docker, conflicts, available, skipped, conflicted,
                   poll, engineUp, applied, told>>

EngineChanges ==
    /\ engineUp' = ~engineUp
    /\ UNCHANGED <<network, docker, conflicts, available, skipped, conflicted,
                   poll, containers, applied, told>>

listContainers ==
    /\ poll.pc = "idle"
    /\ \/ /\ engineUp
          /\ poll' = [pc |-> "listed", list |-> containers]
       \/ /\ ~engineUp
          /\ poll' = [pc |-> "failed", list |-> NoContainers]
    /\ UNCHANGED <<network, docker, conflicts, available, skipped, conflicted,
                   containers, engineUp, applied, told>>

SetDocker(list, names) ==
    /\ docker' = DockerTier(list, names)
    /\ conflicts' = ConflictNames(names)

PollDone == poll' = [pc |-> "idle", list |-> NoContainers]

PollListed ==
    /\ poll.pc = "listed"
    /\ PollDone
    /\ available' = TRUE
    /\ skipped' = SkippedAfter(poll.list)
    /\ \E services \in {ServicesOf(poll.list)},
          names \in {ConflictsOf(poll.list)} :
             /\ conflicted' = ConflictedAfter(names)
             /\ told' = Told(poll.list, names)
             /\ SetDocker(services, names)
    /\ applied' = poll.list
    /\ UNCHANGED <<network, containers, engineUp>>

(* Mutant: the failure is noted, the services stay.                        *)
PollFailedKeeping ==
    /\ poll.pc = "failed"
    /\ available' = FALSE
    /\ UNCHANGED <<docker, conflicts, applied>>
    /\ PollDone
    /\ UNCHANGED <<network, skipped, conflicted, containers, engineUp, told>>

(* Only the first failure withdraws; a later one finds nothing to withdraw.*)
PollFailed ==
    /\ poll.pc = "failed"
    /\ \/ /\ available
          /\ available' = FALSE
          /\ SetDocker(<<>>, {})
          /\ applied' = NoContainers
       \/ /\ ~available
          /\ UNCHANGED <<docker, conflicts, available, applied>>
    /\ PollDone
    /\ UNCHANGED <<network, skipped, conflicted, containers, engineUp, told>>

Poll == listContainers \/ PollListed \/ PollFailed

Next ==
    \/ Poll
    \/ \E c \in Containers : ContainerChanges(c)
    \/ EngineChanges

Spec == Init /\ [][Next]_vars

(* The ticker ticks and a request to the Engine times out, so the poller   *)
(* always takes its next step.                                             *)
FairSpec == Spec /\ WF_vars(Poll)

-----------------------------------------------------------------------------
Faults ==
    {Fault(d) : d \in {x \in Descriptions : ~Unlabelled(x)}} \ {NoFault}

(* Type invariant of the poller and of the part of the registry it writes. *)
TypeOK ==
    /\ network \in NetworkSettings
    /\ docker \in Tier
    /\ conflicts \in SUBSET CoreNames
    /\ available \in BOOLEAN
    /\ skipped \in [Containers -> Faults \cup {Absent}]
    /\ conflicted \in SUBSET CoreNames
    /\ poll \in [pc : {"idle", "listed", "failed"}, list : Listing]
    /\ containers \in Listing
    /\ engineUp \in BOOLEAN
    /\ applied \in Listing
    /\ told \in [ignored : [Containers -> Faults \cup {Absent}],
                 conflicts : SUBSET CoreNames]

(* "corenetd must not silently select one container" (specs-0.2.md section *)
(* 13): a name is routed to a container only if that container was the only*)
(* one of its listing to claim the name, on an address it has there, on the*)
(* configured network if there is one; the only one to claim a name is     *)
(* routed, and a name several containers claimed is in conflict            *)
(* (discovery.go:111-122, docker.go:157-180).                              *)
SoleClaimantRouted ==
    /\ \A n \in NamesIn(docker) :
          \E c \in Running(applied) :
              /\ NormalizeName(applied[c].name) = n
              /\ docker[n].port = applied[c].port
              /\ \E net \in Networks :
                    /\ docker[n].address = applied[c].networks[net]
                    /\ network \in {net, NoNetwork}
              /\ \A other \in Candidates(applied) \ {c} :
                    NormalizeName(applied[other].name) # n
    /\ \A c \in Candidates(applied) :
          LET n == NormalizeName(applied[c].name)
          IN  IF Claimants(applied, n) = {c}
                  THEN docker[n] = Stamp(ServiceOf(applied[c]), SourceDocker)
                  ELSE n \in conflicts

(* While Docker is unavailable nothing discovered is served and no name is *)
(* in conflict: "discovery paused" (discovery.go:70-79).                   *)
UnavailableWithdrawn ==
    ~available => docker = EmptyTier /\ conflicts = {}

(* The log tells why a container is ignored and which names are not routed,*)
(* although a line is written only when something changed and polls fail in*)
(* between: a labelled container of the listing in force that cannot be    *)
(* used has been logged with the reason it gives now, since it was last in *)
(* use; without a configured network, the address is the reason only if it *)
(* has none on any network; and while Docker is available, the conflicts   *)
(* logged and not logged as over are the registry's.  Two returns are not  *)
(* logged again: of a container that went away, or lost its label, and is  *)
(* back with the same fault, since it was never in use meanwhile; and of a *)
(* conflict that an outage of Docker ended, since its end was not logged   *)
(* (discovery.go:134-166, docker.go:169-179).                              *)
LogTells ==
    /\ \A c \in Faulty(applied) :
          /\ told.ignored[c] = Fault(applied[c])
          /\ network = NoNetwork /\ told.ignored[c] = <<"address">> =>
                \A net \in Networks : applied[c].networks[net] = NoAddress
    /\ available => told.conflicts = conflicts

NamedLooks(c) == {d \in Looks[c] : ValidateName(NormalizeName(d.name))}

SoleClaimant(c) ==
    /\ c \in Candidates(containers)
    /\ Claimants(containers, ServiceOf(containers[c]).name) = {c}

(* Without operator action, a container that stays the only one to claim   *)
(* its name is eventually routed and a name that stays claimed twice       *)
(* eventually is not (specs-0.2.md section 13).                            *)
Discovers ==
    /\ \A c \in Containers : \A d \in NamedLooks(c) :
          <>[](engineUp /\ containers[c] = d /\ SoleClaimant(c)) =>
              <>[](docker[NormalizeName(d.name)]
                      = Stamp(ServiceOf(d), SourceDocker))
    /\ \A n \in CoreNames :
          <>[](engineUp /\ Cardinality(Claimants(containers, n)) >= 2) =>
              <>[](docker[n] = Absent /\ n \in conflicts)

(* When the Engine stays down, and when the containers that claimed a name *)
(* stay gone, the name eventually disappears from the directory.           *)
Withdraws ==
    /\ <>[]~engineUp => <>[](docker = EmptyTier)
    /\ \A n \in CoreNames :
          <>[](Claimants(containers, n) = {}) => <>[](docker[n] = Absent)
=============================================================================
