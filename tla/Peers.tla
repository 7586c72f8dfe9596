------------------------------- MODULE Peers --------------------------------
(***************************************************************************)
(* internal/daemon/peers.go: the goroutine that pulls the directories of   *)
(* the configured nodes, against the goroutine that changes the list of    *)
(* those nodes on SIGHUP (Daemon.Reload -> Peers.SetEndpoints).            *)
(*                                                                         *)
(* The two share p.states and p.order under the mutex p.mu, and the remote *)
(* tiers of the registry under the registry's own mutex.  Reload holds p.mu*)
(* across its calls of SetRemote; the puller releases p.mu BEFORE it calls *)
(* SetRemote, so a label of the puller is a place where p.mu is not held.  *)
(*                                                                         *)
(* The other nodes are the environment: world[e] is what answers at the    *)
(* endpoint e, and it changes at any time.  A request fails when nothing   *)
(* usable answers (refused, timed out, not 200, not JSON), which is Down.  *)
(***************************************************************************)
EXTENDS Tiers

CONSTANTS
    Endpoints,       \* host:port strings
    LocalID,         \* cfg.Node.ID of this node
    NoNodeID,        \* the empty node ID
    Down,            \* nothing usable answers
    Announcements,   \* endpoint -> what may answer there: [id, services]
    InitialLists,    \* cfg.Nodes when the daemon starts
    ReloadLists      \* cfg.Nodes of the files a SIGHUP may find

Announcement ==
    [id : NodeIDs \cup {NoNodeID}, services : Seq(RawService)]

ASSUME PeersAssumption ==
    /\ LocalID \in NodeIDs
    /\ NoNodeID \notin NodeIDs
    /\ Down \notin Announcement
    /\ \A e \in Endpoints : Announcements[e] \subseteq Announcement
    /\ InitialLists \subseteq Seq(Endpoints)
    /\ ReloadLists \subseteq Seq(Endpoints)

(* struct peerState.  status stands for (online, lastErr): "new" before the*)
(* first answer, then "online" (no error) or "offline" (some error).       *)
PeerState ==
    [nodeID : NodeIDs \cup {NoNodeID}, status : {"new", "online", "offline"}]

NewState == [nodeID |-> NoNodeID, status |-> "new"]

ASSUME StateAssumption == Absent \notin PeerState

VARIABLES
    remote,   \* the registry's remote tiers, node ID -> tier
    states,   \* p.states
    order,    \* p.order
    started,  \* peers.Run is running
    puller,   \* the pulling goroutine
    reload,   \* the goroutine in SetEndpoints, which holds p.mu
    world,    \* what answers at each endpoint
    learned,  \* auxiliary: the tier of the last recorded answer of a peer
    orphans   \* auxiliary: IDs filed after their peer had been dropped

vars == <<remote, states, order, started, puller, reload, world, learned,
          orphans>>

PullerLabels ==
    {"idle", "info", "services", "record", "offline", "forget", "store",
     "withdraw"}

(* The local variables of PullAll and pull: the endpoints still to do, the *)
(* current one, info.NodeID, list.Services, and previousID (or, in         *)
(* markOffline, nodeID).                                                   *)
Puller ==
    [pc : PullerLabels, todo : Seq(Endpoints), endpoint : Endpoints \cup {Absent},
     id : NodeIDs \cup {NoNodeID}, services : Seq(RawService),
     previous : NodeIDs \cup {NoNodeID}]

IdlePuller ==
    [pc |-> "idle", todo |-> <<>>, endpoint |-> Absent, id |-> NoNodeID,
     services |-> <<>>, previous |-> NoNodeID]

IdleReload == [pc |-> "idle", list |-> <<>>, dropped |-> {}]

Configured == {e \in Endpoints : states[e] # Absent}

Unlocked == reload.pc = "idle"

-----------------------------------------------------------------------------
(* SetEndpoints, of a list without repetitions: the states of the peers it *)
(* keeps, adds and drops.                                                  *)

NextStates(current, list) ==
    [e \in Endpoints |->
        IF e \notin ToSet(list) THEN Absent
        ELSE IF current[e] # Absent THEN current[e]
        ELSE NewState]

(* Daemon.Run starts the puller only when the configuration the daemon     *)
(* starts with names a node.                                               *)
StartsPuller(list) == Len(list) > 0

Init ==
    /\ remote = [id \in NodeIDs |-> EmptyTier]
    /\ \E list \in InitialLists :
          /\ states = NextStates([e \in Endpoints |-> Absent], list)
          /\ order = WithoutRepeats(list)
          /\ started = StartsPuller(list)
    /\ puller = IdlePuller
    /\ reload = IdleReload
    /\ world \in [Endpoints -> {Down}]
    /\ learned = [e \in Endpoints |-> EmptyTier]
    /\ orphans = {}

-----------------------------------------------------------------------------
(* The environment.                                                        *)

WorldChanges(e) ==
    /\ world' \in {[world EXCEPT ![e] = a] : a \in Announcements[e] \cup {Down}}
    /\ UNCHANGED <<remote, states, order, started, puller, reload, learned,
                   orphans>>

-----------------------------------------------------------------------------
(* The puller.                                                             *)

(* Mutant: a round ends after its first peer.                              *)
PullFirstOnly(todo) ==
    IF todo = <<>> THEN IdlePuller
    ELSE [IdlePuller EXCEPT !.pc = "info", !.endpoint = Head(todo)]

(* The head of PullAll's loop: the next endpoint, or the wait for the tick.*)
Pull(todo) ==
    IF todo = <<>> THEN IdlePuller
    ELSE [IdlePuller EXCEPT !.pc = "info", !.todo = Tail(todo),
                            !.endpoint = Head(todo)]

PullAll ==
    /\ started
    /\ puller.pc = "idle"
    /\ Unlocked
    /\ puller' = Pull(order)
    /\ UNCHANGED <<remote, states, order, started, reload, world, learned,
                   orphans>>

(* Mutant: the answer's node ID is only tested for being empty.            *)
BadIDEmptyOnly(id) == id = NoNodeID

(* A node without an ID, or with this node's own ID, counts as a failure.  *)
BadID(id) == id = NoNodeID \/ id = LocalID

(* One GET of a peer's API.                                                *)
get(e) == world[e]

Identified(answer) == answer # Down /\ ~BadID(answer.id)

FetchInfo ==
    /\ puller.pc = "info"
    /\ LET answer == get(puller.endpoint)
       IN  \/ /\ ~Identified(answer)
              /\ puller' = [puller EXCEPT !.pc = "offline"]
           \/ /\ Identified(answer)
              /\ puller' = [puller EXCEPT !.pc = "services", !.id = answer.id]
    /\ UNCHANGED <<remote, states, order, started, reload, world, learned,
                   orphans>>

(* A second request: what answers may no longer be what gave the ID.       *)
FetchServices ==
    /\ puller.pc = "services"
    /\ LET answer == get(puller.endpoint)
       IN  \/ /\ answer = Down
              /\ puller' = [puller EXCEPT !.pc = "offline"]
           \/ /\ answer # Down
              /\ puller' = [puller EXCEPT !.pc = "record",
                                          !.services = answer.services]
    /\ UNCHANGED <<remote, states, order, started, reload, world, learned,
                   orphans>>

(* The endpoint was removed by a reload while it was being asked.          *)
Abandon ==
    /\ puller.pc \in {"record", "offline"}
    /\ Unlocked
    /\ states[puller.endpoint] = Absent
    /\ puller' = Pull(puller.todo)
    /\ UNCHANGED <<remote, states, order, started, reload, world, learned,
                   orphans>>

AfterRecord(previous) ==
    IF previous # NoNodeID /\ previous # puller.id THEN "forget" ELSE "store"

RecordOnline ==
    /\ puller.pc = "record"
    /\ Unlocked
    /\ LET e == puller.endpoint
       IN  /\ states[e] # Absent
           /\ states' = [states EXCEPT ![e] = [nodeID |-> puller.id,
                                               status |-> "online"]]
           /\ puller' = [puller EXCEPT !.previous = states[e].nodeID,
                                       !.pc = AfterRecord(states[e].nodeID)]
           /\ learned' = [learned EXCEPT ![e] =
                             RemoteTier(puller.services, puller.id)]
    /\ UNCHANGED <<remote, order, started, reload, world, orphans>>

ForgetPrevious ==
    /\ puller.pc = "forget"
    /\ remote' = [remote EXCEPT ![puller.previous] = EmptyTier]
    /\ orphans' = orphans \ {puller.previous}
    /\ puller' = [puller EXCEPT !.pc = "store"]
    /\ UNCHANGED <<states, order, started, reload, world, learned>>

(* The answer is still attributed to a peer that will be withdrawn with it.*)
StillOwned(e, id) ==
    /\ states[e] # Absent
    /\ states[e].nodeID = id
    /\ Unlocked \/ e \in ToSet(reload.list) \/ e \in reload.dropped

StoreDirectory ==
    /\ puller.pc = "store"
    /\ remote' = [remote EXCEPT ![puller.id] =
                     RemoteTier(puller.services, puller.id)]
    /\ orphans' = IF StillOwned(puller.endpoint, puller.id)
                     THEN orphans \ {puller.id}
                     ELSE orphans \cup {puller.id}
    /\ puller' = Pull(puller.todo)
    /\ UNCHANGED <<states, order, started, reload, world, learned>>

(* Mutant: an unreachable node is marked, its services are kept.           *)
AfterOfflineKeeping(nodeID) == Pull(puller.todo)

AfterOffline(nodeID) ==
    IF nodeID = NoNodeID THEN Pull(puller.todo)
    ELSE [puller EXCEPT !.pc = "withdraw", !.previous = nodeID]

markOffline ==
    /\ puller.pc = "offline"
    /\ Unlocked
    /\ LET e == puller.endpoint
       IN  /\ states[e] # Absent
           /\ states' = [states EXCEPT ![e].status = "offline"]
           /\ puller' = AfterOffline(states[e].nodeID)
    /\ UNCHANGED <<remote, order, started, reload, world, learned, orphans>>

Withdraw ==
    /\ puller.pc = "withdraw"
    /\ remote' = [remote EXCEPT ![puller.previous] = EmptyTier]
    /\ orphans' = orphans \ {puller.previous}
    /\ puller' = Pull(puller.todo)
    /\ UNCHANGED <<states, order, started, reload, world, learned>>

PullerStep ==
    \/ PullAll \/ FetchInfo \/ FetchServices \/ Abandon \/ RecordOnline
    \/ ForgetPrevious \/ StoreDirectory \/ markOffline \/ Withdraw

-----------------------------------------------------------------------------
(* SetEndpoints, called by Reload with p.mu held from the first step to the*)
(* last.  Dropped peers are forgotten in map order, one SetRemote each.    *)

(* Mutant: the peers that are no longer configured are not forgotten.      *)
DroppedNone(list) == {}

Dropped(list) ==
    {e \in Configured \ ToSet(list) : states[e].nodeID # NoNodeID}

SetEndpoints(list) ==
    /\ Unlocked
    /\ reload' = [pc |-> "forget", list |-> list, dropped |-> Dropped(list)]
    /\ UNCHANGED <<remote, states, order, started, puller, world, learned,
                   orphans>>

ForgetDropped(e) ==
    /\ reload.pc = "forget"
    /\ e \in reload.dropped
    /\ remote' = [remote EXCEPT ![states[e].nodeID] = EmptyTier]
    /\ orphans' = orphans \ {states[e].nodeID}
    /\ reload' = [reload EXCEPT !.dropped = @ \ {e}]
    /\ UNCHANGED <<states, order, started, puller, world, learned>>

PublishEndpoints ==
    /\ reload.pc = "forget"
    /\ reload.dropped = {}
    /\ states' = NextStates(states, reload.list)
    /\ order' = WithoutRepeats(reload.list)
    /\ reload' = IdleReload
    /\ UNCHANGED <<remote, started, puller, world, learned, orphans>>

ReloadStep == PublishEndpoints \/ \E e \in Endpoints : ForgetDropped(e)

-----------------------------------------------------------------------------
(* Nodes: the peers as "corenet nodes" shows them.                         *)
Nodes ==
    [i \in DOMAIN order |->
        LET state == states[order[i]]
        IN  [endpoint |-> order[i], id |-> state.nodeID,
             online |-> state.status = "online",
             services |-> IF state.nodeID = NoNodeID THEN 0
                          ELSE Cardinality(NamesIn(remote[state.nodeID]))]]

-----------------------------------------------------------------------------
Next ==
    \/ PullerStep
    \/ \E list \in ReloadLists : SetEndpoints(list)
    \/ ReloadStep
    \/ \E e \in Endpoints : WorldChanges(e)

Spec == Init /\ [][Next]_vars

(* Requests time out and the ticker ticks, so an enabled step of the puller*)
(* is taken.  Its locking steps are enabled only while no reload holds     *)
(* p.mu; Go's mutex hands itself to a waiter that has starved, so they are *)
(* not passed over for ever.  A reload, once begun, runs to its end.       *)
Fairness == SF_vars(PullerStep) /\ WF_vars(ReloadStep)

FairSpec == Spec /\ Fairness

-----------------------------------------------------------------------------
(* Type invariant of the puller, the reloading goroutine and what they     *)
(* share.  p.order and p.states name the same peers, each once: Nodes      *)
(* dereferences p.states[endpoint] for every endpoint of p.order without a *)
(* nil check, and PullAll pulls each peer once a round (peers.go:115-123,  *)
(* 211-218).                                                               *)
TypeOK ==
    /\ remote \in [NodeIDs -> Tier]
    /\ states \in [Endpoints -> PeerState \cup {Absent}]
    /\ order \in Seq(Endpoints)
    /\ started \in BOOLEAN
    /\ puller \in Puller
    /\ reload \in [pc : {"idle", "forget"}, list : Seq(Endpoints),
                   dropped : SUBSET Endpoints]
    /\ world \in [Endpoints -> Announcement \cup {Down}]
    /\ learned \in [Endpoints -> Tier]
    /\ orphans \in SUBSET NodeIDs
    /\ ToSet(order) = Configured
    /\ \A i, j \in DOMAIN order : order[i] = order[j] => i = j

(* A node never files a directory under its own ID, whoever answers with   *)
(* that ID and however the answers interleave with reloads                 *)
(* (peers.go:131-133).                                                     *)
NeverOwnID == remote[LocalID] = EmptyTier

Quiet == puller.pc = "idle" /\ Unlocked

(* The peer that accounts for the directory of id.                         *)
Owner(id) ==
    {e \in Configured : states[e].nodeID = id /\ states[e].status = "online"}

(* The IDs a peer may be filed under; distinct endpoints are distinct nodes.*)
IDsAt(e) == {a.id : a \in {x \in Announcements[e] : ~BadID(x.id)}}

DistinctIDs == \A e, f \in Endpoints : IDsAt(e) \cap IDsAt(f) # {} => e = f

(* Peers "keeps the directories of the statically configured nodes up to   *)
(* date" and "drops everything it learned from a node it can no longer     *)
(* reach" (peers.go:28-32): between rounds the remote tiers are exactly    *)
(* what the peers shown as online last answered, and nothing is filed for  *)
(* a node no online peer reports, except for a directory that was stored   *)
(* after a reload had dropped its peer.  For peers with DistinctIDs.       *)
MirrorsPeers ==
    Quiet =>
        \A id \in NodeIDs \ orphans :
            IF Owner(id) = {} THEN remote[id] = EmptyTier
                              ELSE \A e \in Owner(id) : remote[id] = learned[e]

(* "corenet nodes" never shows services of a node it shows as unreachable, *)
(* between rounds, and never reads a peer that is not there                *)
(* (peers.go:163-183, 205-229).                                            *)
OfflineShowsNothing ==
    Quiet => \A i \in DOMAIN order : Nodes[i].online \/ Nodes[i].services = 0

(* "forgetting the services of any node that is no longer configured"      *)
(* (peers.go:71-72): between rounds every directory belongs to an endpoint *)
(* of the configuration.                                                   *)
NoOrphans ==
    Quiet =>
        \A id \in NodeIDs : remote[id] # EmptyTier =>
            \E e \in Configured : states[e].nodeID = id

(* A node that stays configured and keeps answering the same is eventually *)
(* and from then on in the directory with what it answers                  *)
(* (peers.go:98-112).                                                      *)
Converges ==
    \A e \in Endpoints : \A a \in {x \in Announcements[e] : ~BadID(x.id)} :
        <>[](world[e] = a /\ e \in Configured)
            => <>[](remote[a.id] = RemoteTier(a.services, a.id))

(* A node that stays configured and unreachable is eventually dropped, with*)
(* everything that was learned from it, unless it left an orphan.          *)
Withdrawn ==
    \A e \in Endpoints : \A a \in {x \in Announcements[e] : ~BadID(x.id)} :
        <>[](world[e] = Down /\ e \in Configured)
            => <>[](a.id \in orphans \/ remote[a.id] = EmptyTier)
=============================================================================
