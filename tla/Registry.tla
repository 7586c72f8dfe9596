------------------------------ MODULE Registry ------------------------------
(***************************************************************************)
(* internal/registry: the service directory of one node, and the two       *)
(* handlers of internal/daemon/api.go that write to it.                    *)
(*                                                                         *)
(* Every method of Registry holds its mutex for its whole critical section,*)
(* so every operation is one atomic action.  The callers that fill the     *)
(* tiers (config reload, peer puller, Docker poller) run concurrently and  *)
(* are represented here by arbitrary interleavings of the setters.         *)
(***************************************************************************)
EXTENDS Tiers

CONSTANTS
    Bodies,        \* services POSTed to /v1/services
    ServiceLists,  \* lists handed to SetConfigServices, SetRemote, SetDocker
    ConflictLists  \* sets of names handed to SetDocker as conflicts

ASSUME InputAssumption ==
    /\ Bodies \subseteq RawService
    /\ ServiceLists \subseteq Seq(RawService)
    /\ ConflictLists \subseteq SUBSET Spellings

VARIABLES
    config,     \* tier of the configuration file
    runtime,    \* tier of the control API
    docker,     \* tier of the running containers
    remote,     \* node ID -> tier learned from that node
    conflicts,  \* names more than one container claims
    reply       \* the control API's last answer, until something else happens

vars == <<config, runtime, docker, remote, conflicts, reply>>

StatusCodes == {201, 204, 400, 404, 409}

NoReply == [op |-> "none", name |-> Absent, code |-> 0]

Reply(op, name, code) == [op |-> op, name |-> name, code |-> code]

Init ==
    /\ config = EmptyTier
    /\ runtime = EmptyTier
    /\ docker = EmptyTier
    /\ remote = [id \in NodeIDs |-> EmptyTier]
    /\ conflicts = {}
    /\ reply = NoReply

-----------------------------------------------------------------------------
(* Reading.                                                                *)

(* The nodes something was learned from, in the order of their IDs.        *)
sortedNodeIDs ==
    LET ids == {id \in NodeIDs : remote[id] # EmptyTier}
    IN  CHOOSE s \in [1..Cardinality(ids) -> ids] :
            \A i, j \in DOMAIN s : i < j => Rank[s[i]] < Rank[s[j]]

(* The first node, in ID order, that offers n.                             *)
RemoteLookup(n) ==
    LET ids   == sortedNodeIDs
        first == SelectInSeq(ids, LAMBDA id : remote[id][n] # Absent)
    IN  IF first = 0 THEN Absent ELSE remote[ids[first]][n]

Lookup(s) ==
    LET n == NormalizeName(s)
    IN  IF runtime[n] # Absent THEN runtime[n]
        ELSE IF config[n] # Absent THEN config[n]
        ELSE IF docker[n] # Absent THEN docker[n]
        ELSE RemoteLookup(n)

Conflict(s) == NormalizeName(s) \in conflicts

Conflicts == conflicts

(* Mutant: the configured service written over the runtime registration.   *)
ListLocalConfigLast == Override(Override(docker, runtime), config)

(* The merge of the local tiers: what this node advertises to its peers.   *)
ListLocal == Override(Override(docker, config), runtime)

(* What the nodes in ids leave behind, each written over those before it.  *)
Learned(ids) ==
    [n \in Spellings |->
        LET offering == {i \in DOMAIN ids : remote[ids[i]][n] # Absent}
        IN  IF offering = {} THEN Absent ELSE remote[ids[Max(offering)]][n]]

(* Mutant: the nodes merged in ascending order, so the highest ID wins.    *)
ListUnreversed ==
    Override(Override(Override(Learned(sortedNodeIDs), docker), config), runtime)

(* The merge of everything, lowest precedence first, later writes winning. *)
List ==
    Override(Override(Override(Learned(Reverse(sortedNodeIDs)), docker), config),
             runtime)

CountRemote(id) == Cardinality(NamesIn(remote[id]))

-----------------------------------------------------------------------------
(* Writing.                                                                *)

SetConfigServices(list) ==
    /\ ValidConfig(list)
    /\ config' = Filed(list, DOMAIN list, SourceConfig)
    /\ reply' = NoReply
    /\ UNCHANGED <<runtime, docker, remote, conflicts>>

(* Mutant: the configured services are not looked at.                      *)
AddRefusedIgnoringConfig(n) == runtime[n] # Absent

(* Adding over the Docker tier is allowed, over the two others it is not.  *)
AddRefused(n) == config[n] # Absent \/ runtime[n] # Absent

Add(body) ==
    LET n == NormalizeName(body.name)
    IN  \/ /\ ~Usable(body)
           /\ reply' = Reply("add", n, 400)
           /\ UNCHANGED runtime
        \/ /\ Usable(body)
           /\ AddRefused(n)
           /\ reply' = Reply("add", n, 409)
           /\ UNCHANGED runtime
        \/ /\ Usable(body)
           /\ ~AddRefused(n)
           /\ runtime' = [runtime EXCEPT ![n] = Stamp(body, SourceRuntime)]
           /\ reply' = Reply("add", n, 201)

(* A body that is not JSON is refused before Add sees it.                  *)
handleAddService(body) ==
    /\ \/ /\ reply' = Reply("add", Absent, 400)
          /\ UNCHANGED runtime
       \/ Add(body)
    /\ UNCHANGED <<config, docker, remote, conflicts>>

(* Mutant: a name Docker provides is answered as if it did not exist.      *)
RemoveServiceForgettingDocker(s) ==
    LET n == NormalizeName(s)
    IN  \/ /\ runtime[n] # Absent
           /\ runtime' = [runtime EXCEPT ![n] = Absent]
           /\ reply' = Reply("remove", n, 204)
        \/ /\ runtime[n] = Absent
           /\ reply' = Reply("remove", n, IF config[n] # Absent THEN 409 ELSE 404)
           /\ UNCHANGED runtime

RemoveService(s) ==
    LET n == NormalizeName(s)
    IN  \/ /\ runtime[n] # Absent
           /\ runtime' = [runtime EXCEPT ![n] = Absent]
           /\ reply' = Reply("remove", n, 204)
        \/ /\ runtime[n] = Absent
           /\ config[n] # Absent \/ docker[n] # Absent
           /\ reply' = Reply("remove", n, 409)
           /\ UNCHANGED runtime
        \/ /\ runtime[n] = Absent
           /\ config[n] = Absent /\ docker[n] = Absent
           /\ reply' = Reply("remove", n, 404)
           /\ UNCHANGED runtime

(* The handler normalizes the path value and Remove does so again.         *)
handleRemoveService(s) ==
    /\ RemoveService(NormalizeName(s))
    /\ UNCHANGED <<config, docker, remote, conflicts>>

SetRemote(id, list) ==
    /\ remote' = [remote EXCEPT ![id] = RemoteTier(list, id)]
    /\ reply' = NoReply
    /\ UNCHANGED <<config, runtime, docker, conflicts>>

SetDocker(list, names) ==
    /\ docker' = DockerTier(list, names)
    /\ conflicts' = ConflictNames(names)
    /\ reply' = NoReply
    /\ UNCHANGED <<config, runtime, remote>>

Next ==
    \/ \E list \in ServiceLists : SetConfigServices(list)
    \/ \E body \in Bodies : handleAddService(body)
    \/ \E s \in Spellings : handleRemoveService(s)
    \/ \E id \in NodeIDs, list \in ServiceLists : SetRemote(id, list)
    \/ \E list \in ServiceLists, names \in ConflictLists :
          SetDocker(list, names)

Spec == Init /\ [][Next]_vars

-----------------------------------------------------------------------------
(* Type invariant: the maps of struct Registry hold services, and the last *)
(* answer is one api.go can give.                                          *)
TypeOK ==
    /\ config \in Tier /\ runtime \in Tier /\ docker \in Tier
    /\ remote \in [NodeIDs -> Tier]
    /\ conflicts \in SUBSET Spellings
    /\ reply \in [op : {"none", "add", "remove"},
                  name : Spellings \cup {Absent}, code : StatusCodes \cup {0}]

(* Whatever a file, a request, a container or a peer hands over, a tier    *)
(* only ever holds services under their own valid name, with a backend the *)
(* proxy can dial and with the source of that tier ("never trust a peer's  *)
(* directory blindly", registry.go:118).                                   *)
WellFiled ==
    /\ FiledFrom(config, SourceConfig)
    /\ FiledFrom(runtime, SourceRuntime)
    /\ FiledFrom(docker, SourceDocker)
    /\ \A id \in NodeIDs : FiledFrom(remote[id], id)

(* corenetd does not silently select one of several containers: a name in  *)
(* conflict is a valid name and has no service in the Docker tier          *)
(* (registry.go:152).                                                      *)
NoSilentChoice ==
    /\ conflicts \subseteq CoreNames
    /\ conflicts \cap NamesIn(docker) = {}

(* The directory listing and resolution agree on every name, although List *)
(* merges upwards from the weakest tier and Lookup searches downwards from *)
(* the strongest; and the node whose ID sorts lowest serves a name, whatever*)
(* the order in which the nodes were heard of (registry.go:184-234).       *)
ListMatchesLookup ==
    /\ NamesIn(List) \subseteq CoreNames
    /\ \A n \in CoreNames :
          /\ List[n] = Lookup(n)
          /\ \A id \in NodeIDs : ListLocal[n] = Absent /\ remote[id][n] # Absent =>
                \E owner \in NodeIDs :
                   /\ Lookup(n) = remote[owner][n] /\ Lookup(n) # Absent
                   /\ Rank[owner] <= Rank[id]

(* What a node advertises to its peers is what it serves itself: never     *)
(* something learned from another node, never the Docker service of a      *)
(* conflicted name, and exactly the service it resolves the name to        *)
(* (registry.go:236-238).                                                  *)
AdvertisedIsServed ==
    \A n \in NamesIn(ListLocal) :
        /\ ListLocal[n] = Lookup(n)
        /\ ListLocal[n] \in {runtime[n], config[n], docker[n]}
        /\ n \in conflicts =>
              ListLocal[n].source \in {SourceConfig, SourceRuntime}

(* The status code of a write tells the truth about the directory it leaves*)
(* behind: 201 is served from the registration, 409 on POST means a        *)
(* configured or registered name, 409 on DELETE a name this node serves    *)
(* from elsewhere, 404 a name it does not serve (api.go:82-105).           *)
RepliesTruthful ==
    LET n == reply.name
    IN  /\ reply.op = "add" /\ reply.code = 201 =>
              n \in CoreNames /\ Lookup(n).source = SourceRuntime
        /\ reply.op = "add" /\ reply.code = 409 =>
              Lookup(n).source \in {SourceConfig, SourceRuntime}
        /\ reply.op = "remove" /\ reply.code = 409 =>
              ListLocal[n].source \in {SourceConfig, SourceDocker}
        /\ reply.op = "remove" /\ reply.code = 404 => ListLocal[n] = Absent

(* "A registration never silently replaces a configured service"           *)
(* (registry.go:62-63), nor another registration: a runtime entry comes    *)
(* into being only where neither existed, and then never changes.          *)
RegistrationNeverReplaces ==
    [][\A n \in Spellings :
          runtime'[n] # Absent /\ runtime'[n] # runtime[n] =>
              runtime[n] = Absent /\ config[n] = Absent]_vars
=============================================================================
