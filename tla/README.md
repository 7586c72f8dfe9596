# CoreNet in TLA+

A verification project for CoreNet: TLA+ models of the parts of `corenetd` that
keep state, TLC configurations that check them on small instances, and theorems
with machine-checked proofs. Paths below are relative to the repository
(`internal/...` is `src/internal/...` in `PROJECT.json`).

## 1. The system

A CoreNet node runs `corenetd`, which keeps a directory of `.core` names and
serves it through DNS, an HTTP proxy, a control API on a Unix socket and a
read-only API for other nodes. Nodes learn names from one another by pulling;
nothing is relayed.

| Component | State | Operations | Talks to |
|---|---|---|---|
| Names and services (`pkg/protocol`) | none | `NormalizeName`, `ValidateName` | everyone |
| Registry (`internal/registry`) | tiers `config`, `runtime`, `docker`, `remote[id]`, and `conflicts`, one mutex | `SetConfigServices`, `Add`, `Remove`, `SetRemote`, `SetDocker`, `Lookup`, `List`, `ListLocal`, `Conflict(s)`, `CountRemote` | called by all the others |
| Control and peer API (`internal/daemon/api.go`) | none | POST/DELETE/GET `/v1/services`, GET `/v1/resolve`, `/v1/status`, `/v1/info`, `/v1/nodes` | registry, peers |
| HTTP proxy (`internal/daemon/proxy.go`) | none | route by Host | registry |
| DNS (`internal/dns`) | listeners | answer A/AAAA for `.core` | registry |
| Peer puller (`internal/daemon/peers.go`) | `states`, `order`, one mutex; a goroutine's locals | `PullAll`, `pull`, `markOffline`, `SetEndpoints`, `Nodes` | registry, other nodes (HTTP), reload |
| Docker discovery (`internal/discovery`) | `available`, `skipped`, `conflicted` | `Poll`, `convert`, `report*` | Docker Engine, registry |
| Configuration (`internal/config`) | the file | `Load`, `Validate` | daemon |
| Daemon (`internal/daemon/daemon.go`, `cmd/corenetd`) | `cfg`, listeners, control socket path | `Run`, `Reload` on SIGHUP, `shutdown` | all of the above |
| `corenet connect` / `disconnect` (`cmd/corenet/connect.go`) | resolver drop-in file | write, remove, restart the resolver | systemd-resolved |
| `corenet` CLI (`cmd/corenet/main.go`) | none | one request per command | control API |

What is hard here, and where:

- **Concurrency.** The puller, the Docker poller, the signal handler and any
  number of request goroutines share the registry. Every registry method is one
  critical section, but callers make several calls: `pull` releases `p.mu`
  before it calls `SetRemote`; `handleResolve` and the proxy call `Lookup`
  and then `Conflict`; `handleServices` calls `List` and then `Conflicts`.
- **Failure.** A peer may die between `/v1/info` and `/v1/services`, come back
  under another ID, or answer with this node's own ID; the Docker Engine comes
  and goes; a container changes after it was listed.
- **Ordering.** `List` merges upwards from the weakest tier, `Lookup` searches
  downwards from the strongest; both depend on the order of node IDs.
- **Processes.** `Reload` publishes one file in three critical sections while
  signals, status requests and the shutdown go on. Daemons on one machine compete
  for addresses and for one socket path. `connect` and `disconnect` change a file
  and then restart a service, and may be killed or fail in between.
- **Names.** `NormalizeName` strips one trailing dot, so it is not idempotent,
  and different paths apply it once or twice.

What makes each component correct:

- *Registry:* tiers hold only usable services under their own names; listing and
  resolution agree; what is advertised is local and is what is served; two
  containers that claim a name are never silently decided between; registrations
  replace nothing; status codes are true.
- *Readers:* the answer to a request, put together from two reads, is true of the
  name at one instant, and what is routed is a backend of the name asked for.
- *Puller:* the remote tiers mirror the configured peers that are online;
  unreachable nodes are withdrawn, reachable ones converge; nothing is ever filed
  under the own ID.
- *Network:* a node learns of another only what that one serves itself, so names
  disappear with their node also where nodes pull one another in a ring.
- *Discovery:* only sole claimants are routed; nothing discovered is served while
  Docker is away; the log tells what is ignored and what is in conflict.
- *Daemon:* it runs one whole valid file at a time, keeps the settings only a
  restart applies, honours every SIGHUP it takes, and shows nothing half replaced.
- *Lifecycle:* a daemon takes over what a crash left behind and disturbs no daemon
  that serves; DNS is up wherever the control socket answers.
- *connect / disconnect:* the resolver never sees half a file; file and resolver
  agree; success means what it says.

## 2. Modules

| Module | Models | Notes |
|---|---|---|
| `Protocol` | `pkg/protocol` names, services, sources; the usability test all writers share | names are opaque, `Canon` is one call of `NormalizeName` |
| `Tiers` | one map of the registry, how `SetRemote`/`SetDocker`/`SetConfigServices` fill it, the services part of `config.Validate`, and the list `SetEndpoints` makes of the nodes | used by six components |
| `Registry` | `internal/registry`, POST/DELETE of `api.go` | one action per method |
| `Requests` (extends `Registry`) | GET `/v1/resolve`, GET `/v1/services` on both listeners, proxy, DNS handler | one action per registry read |
| `Peers` | `internal/daemon/peers.go`; when `Daemon.Run` starts the puller | two goroutines and a world of peers |
| `Network` | several nodes that pull one another | a tier is the set of its names |
| `Discovery` | `internal/discovery` | poller, Engine, containers |
| `Config` | `internal/config`: defaults, search order, decoding, `Validate`; the comparison in `Reload` | operators only |
| `LiveConfig` | what a running daemon promises about its configuration | abstract specification |
| `Reload` (extends `Config`) | `cmd/corenetd`, `Daemon.New`, `Run`, `Reload`, `Status`, how the CLI finds the socket | implements `LiveConfig` |
| `Lifecycle` | binding and releasing of all listeners, `removeStaleSocket`, `shutdown` | several daemons on one machine |
| `Resolver` | `cmd/corenet/connect.go` | several commands, systemd-resolved external |
| `TierProofs`, `RegistryProofs` (also of `Requests`), `PeersProofs`, `NetworkProofs`, `DiscoveryProofs`, `ReloadProofs`, `LifecycleProofs`, `ResolverProofs` | theorems | section 5 |
| `MC...` | instances for TLC | section 3 |

How state and actions correspond to the code:

**Protocol, Tiers, Registry.** A Go map is a total function with `Absent` for a
missing key; a node whose remote map is deleted has `EmptyTier`. Each method is
one action because it holds `r.mu` throughout. `Add` and `RemoveService` have
one disjunct per return path; `reply` is the status code the handler sends and is
cleared by the next step of anybody else, so properties of it speak of the
directory the write left behind. `SetConfigServices` is guarded by
`ValidConfig`, because a file that fails `config.Validate` never gets there.
`Filed` is the loop `next[svc.Name] = svc`: the last entry of a name wins. Ports
are integers and are compared with 1 and 65535, so the edges are in the inputs.

**Requests.** A request is in flight while any writer of `Registry` may act. The
reads are separate actions (`Begin`, then `CheckConflict` or `ListConflicts`).
`ControlMux` and `PeerMux` are the handlers of the two listeners that read the
directory: the peer listener lists only local services and no conflicts. The other
routes are the writes of `Registry`, `Nodes` of `Peers` and the status of `Reload`.
A listing is followed for one name of it. `seen` is auxiliary: the standings
(routed, in conflict) the name has had since the request began; a writer's step
after the answer forgets both. One request at a time is enough, since readers
change nothing.

**Peers.** `puller.pc` is a place of `pull`/`markOffline` where `p.mu` is not
held: `info`, `services` (the two requests), `record`/`offline` (waiting for
`p.mu`), `forget`, `store`, `withdraw` (the `SetRemote` calls made after
`p.mu` was released). `SetEndpoints` holds `p.mu` from its first to its last
step, which is `Unlocked` being false, and forgets dropped peers one at a time
in any order, as Go ranges over a map. `world` is what answers at each
endpoint and changes at any moment. A failed request of any kind (refused,
timeout, not 200, not JSON) is `Down`. `(online, lastErr)` is `status`; the
wording of the error is left out. `learned` and `orphans` are auxiliary.

**Network.** `Registry` and `Peers` are one node in detail; `Network` keeps of a
node its local names, the names filed per pulled node, the puller's place in its
list and the answer it has fetched and not filed yet. A node that stops loses all
of it, since the daemon keeps its directory in memory. `MayOffer` is what a node
may ever serve itself.

**Discovery.** A poll is two steps: the Engine's answer, then `convert`,
`reportSkip`, `forgetSkips`, `reportConflicts` and `SetDocker`, which touch
nothing another goroutine writes until `SetDocker`. Containers change in between.
A reason for ignoring a container is a tuple (what is wrong, the value), since
the code compares messages that contain the value. `network` is chosen once:
changing it takes a restart. `applied` and `told` are auxiliary: the listing the
registry reflects, and what a reader of the log knows, which only the lines written
change (`Told`): why each container is ignored, and which conflicts were logged
and not yet logged as over.

**Config, Reload.** A file is a record of the settings it names; `Decode` puts it over
the defaults, as `json.Unmarshal` does over `Default()`. `Settings` is the part that
only a restart applies, by meaning: an explicit default equals an absent one. In
`Reload`, `handler` is what SIGHUP does to the process, `hup` the channel of capacity
one, `pc` the place of `reloadOnHUP` and of `Daemon.Reload` inside it, `next` the
local `cfg` of `Reload`. The three publications are three actions, the last with the
deduplication of `SetEndpoints`, and `corenet status` is three reads. A SIGHUP before
`signal.Notify` or after `signal.Stop` kills the process. `path` is the file the
daemon started with, "" when it found none, in which case a reload searches again.
`asked`, `replaced` (the configuration a reload is taking out of force) and, of a
status, `seen` (the configurations in force or being replaced since it began) and
`outdated` (it read something of none of them) are auxiliary.

**Lifecycle.** `pc` runs through the listeners in the order of `Run`, then
`removeStaleSocket` (stat, dial, remove: three steps), bind and listen (two system
calls, between which the file exists and connections are refused), chmod, and back
through `shutdown`, whose control listener unlinks the path when it closes and
whose `os.Remove` does so again. A crash is possible at every step; a refused
listener ends the process. All daemons use one control path. `alone` is auxiliary.

**Resolver.** A command's `pc` is the next system call of `connect`, `disconnect`
or `writeFileAtomic`; each may fail, and `Kill` may end the command before it.
`restartResolved` is two steps, the request to systemd and the wait for the job.
The resolver is external and takes its own steps: it stops; it starts, reads the
drop-in (`routes`) and is `starting`, which is what systemd calls activating; it
becomes `active`, which ends the waiting commands. `systemctl is-active` succeeds
only for `active`. `due` is a restart asked for and not begun: systemd merges a
request into the job that is running and runs it again, so the resolver always
starts once more after the last request, unless the job fails (`RestartFails`).
A killed command does not take its request back. `truth`, `overlapped` and
`unread` are auxiliary: what was the case when the command reported, whether
another command ran meanwhile, and whether a restart failed, never came or was
left out since the resolver last started.

## 3. Runs

Passing runs:

| Run | States | Question |
|---|---|---|
| `requests` | 217,092 | Do all orders of writes keep the tiers well filed, `List` equal to `Lookup`, the advertised directory local, the answers to writes true, and registrations harmless? With writers between the two reads of a request, is its answer the standing of the name at one instant, and is it only ever sent to a backend of its own name? |
| `peers` | 161,724 | Do the remote tiers mirror the online peers while answers change and reloads drop, repeat and reorder endpoints at any moment of a pull? Does a node that keeps answering get into the directory, and one that stays away out of it? |
| `network` | 68,401 | Where nodes pull one another in rings, does every name disappear with its node, and does every offer reach those who pull it, whatever other nodes do? |
| `discovery` | 48,960 | Is no container chosen silently, does the log tell which are ignored and which names are not routed, is a lone claimant eventually routed and what is gone withdrawn? |
| `reload` | 207,682 | Does reading, deciding and publishing in steps, with signals that coalesce, implement whole-file readings that honour every request? Does a status read meanwhile show only what was in force or being replaced in its own time? |
| `lifecycle` | 12,631 | Does a daemon on its own always take over what a crash left, does DNS stand behind every control socket, and do daemons that contend for an address leave each other's socket alone? |
| `resolver` | 220,580 | With commands that overlap, fail and are killed, and a resolver that restarts in steps, is the drop-in always whole, does the resolver agree with it, and does a reported connect route `.core` to the daemon? |

Runs that show the code and its documentation disagree (each checks the
documented statement and TLC finds a behaviour of the code against it):

| Run | Statement | Behaviour |
|---|---|---|
| `peers_orphan` | `SetEndpoints` forgets "the services of any node that is no longer configured" (`peers.go:71`) | `pull` leaves its critical section, a reload drops the endpoint and forgets it, `pull` then stores the directory; nothing removes it any more. |
| `peers_unstarted` | "`SIGHUP` re-reads the file and applies the new services and nodes." (`docs/specs/specs-0.1.md:107`) | A daemon that started without nodes has no puller; nodes a reload adds are never pulled. |
| `lifecycle_stale_race` | "removeStaleSocket deletes a socket file that no daemon is listening on." (`daemon.go:305`) | Between the refused dial and `os.Remove` another daemon binds the path; its live socket is removed and it serves on without one. It takes daemons with no address in common: `SocketLostOnlyToShutdown` is the other half. |
| `resolver_disconnect` | `disconnect` is to "stop resolving .core names" (`cmd/corenet/main.go:30`) | The resolver is starting and has read the file; `disconnect` removes it, finds the resolver not active (`connect.go:69`), leaves the restart out and reports success, while the resolver routes `.core`. A longer way to the same end: the restart fails; repeated, `disconnect` finds no file and reports success without a restart, though `connect` and `disconnect` "are idempotent" (`docs/specs/specs-0.1.md:137`). |
| `requests_conflict` | "A conflicted name is not routed", nor listed as a service (`docs/specs/specs-0.2.md:410-418`; only configuration and registrations are exempt, 426-428) | A name two containers claim is resolved, routed and listed when another node offers it, since `Lookup` and `List` do not consult the conflicts (`registry.go:197`). |

Disagreements and oddities met while modelling that have no run of their own:

- Two endpoints that lead to one node share its directory; when one of them fails,
  `markOffline` withdraws it although the other is online (`peers.go:178`).
  `MirrorsPeers` therefore speaks of peers with IDs of their own.
- "The conflict is logged when it appears and when it clears."
  (`docs/specs/specs-0.2.md:424`): an outage of Docker ends a conflict without a
  line, and the conflict that is back after the outage is not logged either
  (`discovery.go:76`, where `d.conflicted` is kept). `LogTells` claims the conflicts
  only while Docker is available.
- A container that goes away and comes back with the same fault is not logged again:
  `forgetSkips` forgets only those that became usable (`discovery.go:143`).
- "404   the name is not in this node's directory" (`docs/specs/specs-0.1.md:322`):
  also when a conflict resolves between `Lookup` and `Conflict` (`api.go:116-121`),
  so that the name was in the directory, in conflict or routed, all the time. That is
  the exception in `AnswersOneInstant`, and the only one.
- `api.go:40-41` says that the peer listener serves only what the node serves
  itself; its `/v1/resolve` is the control API's and answers for names learned from
  third nodes too (`api.go:46`).
- `shutdown` removes the control path whoever's socket is there by then
  (`daemon.go:212`). During a shutdown the cancelled context makes pulls and polls
  fail, so requests still being served may find the learned names gone.
- A conflict that appears between `List` and `Conflicts` is reported in both halves
  of one GET `/v1/services`; a status read during a reload mixes two files.
  `AnswersOneInstant` and `StatusOfItsTime` state what holds.
- `docs/specs/specs-0.2.md:775` says that `docker` never appears as the source of a
  remote service, but nothing forbids a node the ID `docker` (`registry.go:120`).

### Bounds

- *Names:* two valid names, further spellings that normalize to them at once, after
  a second normalization, or never. Two names are what it takes to see that
  operations on one leave the other alone; no code relates three.
- *Lists:* empty, single, the same name twice, two names, and good entries among
  bad ones (invalid name, no address, ports 0 and 65536). These are the branches of
  the filter and the overwriting of an earlier entry.
- *Nodes:* two remote nodes, the least that have an order; in `peers` four IDs over
  two endpoints, so that an endpoint changes its ID, answers without one, or with this
  node's; three in `network`, the least with a ring that is not a pair, and two that
  offer one name.
- *Endpoints:* two, so that a round goes on after a failed peer and a reload can
  drop one and keep the other; reload lists that drop one, and that bring it back
  behind the other and with a repetition.
- *Containers:* two, the least that conflict; both valid port limits and every fault
  (name, service, port, address) occur, with and without a configured network.
- *Files:* two locations, each missing, unreadable or holding a file that differs in
  what a reload applies, in a listener, in a Docker setting, only in the spelling of
  a default, or that `Validate` refuses; a node listed twice.
- *Daemons:* three, of which two, or all, share addresses and one has no DNS: one
  that tests the path, one that takes it, and one that shuts down.
- *Commands:* two, each run again and again; corenetd with DNS on a wildcard
  address, on one address at another port, without DNS, and down.
- No counters are bounded: the models keep none. All state spaces are complete.

Deadlock is checked in every run except where a cfg says otherwise (`reload`: the
process ends).

### Fairness

- `Peers`: `SF(PullerStep)` and `WF(ReloadStep)`. The puller is driven by a
  ticker and its requests time out, so its requests and stores are always taken.
  Its critical sections are enabled only while no reload holds `p.mu`; reloads may
  recur for ever, hence strong fairness, which Go's mutex justifies by handing
  itself to a waiter that has waited for more than a millisecond. A reload that has
  begun finishes: it makes no blocking call while it holds `p.mu` except the
  registry's mutex, whose critical sections are finite. Whether a reload *starts*
  is up to the operator, and no fairness is assumed of that or of the world.
- `Network`: `WF(Pull(n))` for every node, by the same ticker and timeout. Nothing
  is assumed of nodes starting, stopping or offering.
- `Discovery`: `WF(Poll)`. The ticker ticks and a request to the Engine has a
  timeout. Nothing is assumed of the Engine or of the containers.
- `Reload`: `WF(Loop)`, the goroutine of `reloadOnHUP`: nothing it does waits for
  another goroutine for ever. `select` may take either ready case, so `Return` is
  left out of it and a signal that comes with the end may go unread; the promise
  in `LiveConfig` is void once the daemon is ending.
- `Lifecycle` and `Resolver` state safety only: a process may be killed at any step.

The liveness properties assume stability (`<>[]`) only of the node or container
they speak of; everything else may change for ever.

### Refinement

`LiveConfig` says what an operator may rely on: settings fixed at the start,
services and nodes of one valid file read as a whole, every request followed by a
reading that begins after it. `Reload` implements it (`ImplementsLiveConfig`, a
property of the run `reload`, liveness included). The mapping takes the file that
`Reload` has read for the one in force from the moment it has been read
(`InForce`: `next` while it waits to be published, `d.cfg` afterwards), so the
publication steps are stutters, `LoadFile` is `Apply`, and several SIGHUPs that
meet in the channel are one `Ask`.

## 4. Mutants

Each property of each passing run has a mutant in `PROJECT.json`: a definition
next to the original, marked `Mutant` in its comment, that changes it as a
plausible slip would (a filter left out, a merge in the wrong direction, an
off-by-one, a missing withdrawal, an unbuffered channel). With the mutant in place
TLC finds the property violated under the run's own configuration.

## 5. Proofs

Every safety property of every passing run, invariants and action properties alike,
is a theorem, and so is the safety part of the refinement. The theorems hold for
every value of the constants that satisfies the named assumptions, all of which TLC
also evaluates on the instances:

- `NameAssumption`, `NodeAssumption`: a valid name is its own normal form; node IDs
  are totally ordered. `AbsentAssumption`, `StateAssumption`: the marker of a missing
  key is no service, no name and no peer state.
- `InputAssumption`, and `FileAssumption` of `Reload`: what arrives is lists of raw
  services. The typed decoding of `encoding/json` refuses anything else, and a
  negative or oversized port is still a raw service.
- `PeersAssumption`, `NetworkAssumption`, `SuffixAssumption`: this node's ID is a node
  ID, the empty ID is not, `Down` and `Unreachable` are no answers, nodes do not pull
  themselves, every valid name is one the DNS handler takes for its own.
- `DiscoveryAssumption`: container names are spellings, a container without a label
  has an invalid one, networks have an order (that of their names), and the markers
  are distinct. `FileAssumption` and `ConfigAssumption` of `Lifecycle`,
  `FileAssumption` of `Resolver`: the markers of a path are not daemons or contents,
  and DNS has one address for its two sockets.

Two theorems on the puller have `DistinctIDs` as a hypothesis: no two endpoints lead
to nodes with the same ID. Without it they are false, and the code knows (section 3,
`peers.go:178`). `MCPeers` asserts it of its instance.

Nothing is assumed finite except a list. That only finitely many nodes have been
heard of, and only finitely many containers run, is part of the invariants: each step
adds one.

| Module | Theorem | Statement |
|---|---|---|
| `RegistryProofs` | `TypeCorrect` | `Spec => []TypeOK` |
| | `FiledRight` | `Spec => []WellFiled` |
| | `NeverChoosesSilently` | `Spec => []NoSilentChoice` |
| | `AdvertisesWhatItServes` | `Spec => []AdvertisedIsServed` |
| | `NeverReplaces` | `Spec => RegistrationNeverReplaces`, an action property |
| | `ListAgreesWithLookup` | `Spec => []ListMatchesLookup`, for any number of nodes |
| | `AnswersTruthfully` | `Spec => []RepliesTruthful` |
| | `AnswersAreOfOneInstant` | `RequestsSpec => []AnswersOneInstant` |
| | `RoutesToTheName` | `RequestsSpec => []RoutedToOwnName` |
| `PeersProofs` | `NeverFilesOwnID` | `Spec => []NeverOwnID` |
| | `TypeCorrect` | `Spec => []TypeOK` |
| | `MirrorsOnlinePeers` | `Spec => []MirrorsPeers`, given `DistinctIDs` |
| | `ShowsNothingOffline` | `Spec => []OfflineShowsNothing`, given `DistinctIDs` |
| `NetworkProofs` | `NoNameTravelsOn` | `Spec => []NothingRelayed`, for every topology |
| | `TypeCorrect` | `Spec => []TypeOK` |
| `DiscoveryProofs` | `TypeCorrect` | `Spec => []TypeOK` |
| | `NeverSelectsSilently` | `Spec => []SoleClaimantRouted` |
| | `WithdrawnWhileUnavailable` | `Spec => []UnavailableWithdrawn` |
| | `LogIsTrue` | `Spec => []LogTells` |
| `ReloadProofs` | `TypeCorrect` | `Spec => []TypeOK` |
| | `ReportsTruth` | `Spec => []RunsWhatItReports` |
| | `SettledBetweenReloads` | `Spec => []Settled` |
| | `SignalsAreKept` | `Spec => []HupNotLost` |
| | `StatusIsOfItsTime` | `Spec => []StatusOfItsTime` |
| | `ImplementsSafety` | `Spec => Live!LiveSafety`, the safety part of the refinement |
| `LifecycleProofs` | `TypeCorrect` | `Spec => []TypeOK` |
| | `DNSIsBehindSocket` | `Spec => []DNSBehindSocket` |
| | `AloneTakesOver` | `Spec => []AloneNeverRefused` |
| | `OnlyShutdownTakesSockets` | `Spec => SocketLostOnlyToShutdown`, an action property |
| `ResolverProofs` | `NeverVisibleHalfWritten` | `Spec => []NeverHalfWritten` |
| | `ReadOrReported` | `Spec => []InSync` |
| | `ConnectTellsTheTruth` | `Spec => []ConnectedIsRouted` |
| | `TypeCorrect` | `Spec => []TypeOK` |

`TierProofs` holds the lemmas the others share. On filing a list: the entry that wins
(`FiledEntry`, by `MaxIndex`), that the result is a tier (`FiledType`), and that
filtering by `UsableIn` makes it well filed (`FiledUsable`, `RemoteTierFacts`,
`DockerTierFacts`). On finite sets: `ListingOfSet` (a set made a list), `AtLeastTwo`,
`FiniteImage`, `LeastIndex`. On sorting: a finite set with distinct ranks has an
ascending enumeration, because a member's place is the number of members up to it
(`EnumerationExists`), and any such enumeration is complete (`EnumerationComplete`).
`sortedNodeIDs` and `WithoutRepeats` are defined as such enumerations, so what they
return is proved without induction over the data.

The inductive invariants, and why each strengthening is needed:

- *Registry:* `TypeOK`, `WellFiled` and `NoSilentChoice` together. `WellFiled`
  needs `TypeOK` (a removal or a registration changes one entry of a function) and
  `NoSilentChoice` needs that conflicts are normalized with the same function as
  the names of the tier. `AdvertisedIsServed` follows: by `NoSilentChoice` a
  conflicted name that is advertised comes from configuration or a registration,
  and by `WellFiled` its source says so. `ListMatchesLookup` adds that the nodes
  heard of (`Known`) are finitely many: then they can be sorted, and the last writer
  of the reversed list is the first of the list that offers the name (`FirstOffer`).
  `Accounted` ties a status code to the tiers it was given for, which are then read
  through `Lookup` and `ListLocal`.
- *Requests:* `Watching` says that a request in flight has seen the present standing
  of its name; `AskingWhy` that one between `Lookup` and `Conflict` has seen it
  unrouted, and `AskingConflicts` that one between `List` and `Conflicts` has seen the
  name with the service it lists, or without one: so whatever the second read
  finds, the answer fits a standing that was seen, or two of them differ in conflict.
- *Peers:* `Typed` adds to the type invariant that a puller at work has an endpoint
  and that what it carries to a `SetRemote` are IDs. The ID is tested once, after the
  first request, and used after a second request, a critical section and a
  `SetRemote`; `CarriesForeignID` says that the puller carries no own ID at any label
  in between. `MirrorsPeers` speaks of quiet moments only and is far from inductive:
  `Mirror` says for every endpoint and every ID it may report which of four cases the
  directory is in: a `SetRemote` of the puller is still to come (`Pending`), it was
  stored when nobody accounted for it any more (an orphan), a reload has already
  forgotten the peer it is about to drop (`Gone`), or it is what the peer's state
  says (`Expected`). `PullerMatches` says what a reload can have done to the peer
  between the critical section of `pull` and its `SetRemote`.
- *Network:* `Fetched` (an answer in hand came from the node the puller is at) and
  `Offered` (a node's local names are its own) carry `NothingRelayed` from the
  request to the filing.
- *Discovery:* what the registry and the record hold is determined by the listing last
  applied (`applied`), which is finite. The proof relates the loop over the
  listing, whatever its order, to the set of those who claim a name: two members make
  a conflict, and one makes a service. `Logged` ties the daemon's own record, which
  decides whether a line is written, to what the log has told: the record of an
  ignored container is its last line, and `conflicted` is what was logged as conflict.
- *Reload:* `Publication` says that `next` is a configuration with the settings of
  `d.cfg` while it waits, equals `d.cfg` while the other two publications follow, and
  that what is not published yet is that of `replaced`; `Unstarted` that there is
  nothing before `New`. The refinement is proved step by step from it (`LiveStep`);
  that `Applied` keeps the settings and takes the services and nodes of the file is a
  lemma on `Config`. `StatusInv` says that a status in progress has seen the
  configuration in force and the one being replaced, so that whatever it reads next
  belongs to one of them. For the types, `InHand` is the set of configurations
  anything still refers to: a step adds to it at most the one it has loaded.
- *Lifecycle:* `Holds` (at which steps each listener is bound), `Owned` (a socket in
  the file system belongs to a process that has not closed it), `Exclusive` (no
  address is bound twice) and `Undisturbed` (what a lone daemon finds). Two daemons
  that contend for an address cannot both be past the listeners, by `Holds` and
  `Exclusive`: that is why the race in `removeStaleSocket` needs daemons that share
  nothing but the path.
- *Resolver:* `Told` (a command that will write has an address), `Complete` (what is
  renamed is whole) and `Read` (a resolver that is starting or active has read the file
  unless a restart is due or about to be asked for, failed, was cut off or left out).
  For `ConnectedIsRouted` also `Alone` (a command that is
  not overlapped runs by itself), `Written` (what it renames is the drop-in of the
  address it was told), `InPlace` (and so is the file until its restart is done) and
  `Fresh` (the resolver it waits for has read that file once it has started anew).

Only model-checked: liveness (`Converges`, `Withdrawn`, `Discovers`, `Withdraws`,
`Vanishes`, `Spreads`, and `Honoured` inside `ImplementsLiveConfig`), which is beyond
the prover; and the five statements that the code violates, which cannot be theorems.

## 6. Not modelled, and the plan

- Serving of sockets and HTTP, the contents of DNS messages and JSON bodies, the
  proxying of bodies: the libraries' work, without state of this program's own.
- The other commands of the `corenet` client: they parse arguments, make one of the
  modelled requests and print the answer. What the client decides for itself, which
  socket to use, is in `Reload`.
- `NormalizeName` and `ValidateName` over characters: pure scans that the
  repository's table tests reach. The models keep what the callers depend on: one
  call may not reach the normal form, and a valid name is its own.
- The syntax of host names, host:port pairs and durations in the configuration:
  files are taken by what they decode to. `Validate` and the listeners do not have
  the same idea of an address: `listen.http` with a host name passes `Validate`,
  and the DNS handler, which answers with that address, then refuses to start.
- Log wording, except where the code compares it (`Discovery`).
- `internal/identity` and `services/` are empty.

What is left to do: that a step of `Network`'s puller is what the steps of one
`Peers` puller amount to, with the directory of one node projected to its names, so
that the proofs about a network rest on those about a node; and that a finished poll
of `Discovery` is a `SetDocker` of `Registry`, a finished reload of `Reload` its
`SetConfigServices`, as refinements rather than by reading.
