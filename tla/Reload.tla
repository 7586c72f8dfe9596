------------------------------- MODULE Reload -------------------------------
(***************************************************************************)
(* The configuration of a running corenetd: the start of the process,      *)
(* SIGHUP and its goroutine (cmd/corenetd/main.go), Daemon.Reload, which   *)
(* publishes a new configuration in three critical sections, and a client  *)
(* that asks for the status meanwhile.  Files are edited at any time.      *)
(*                                                                         *)
(* The registry and the peers are represented by the part Reload hands     *)
(* them: the configured tier and the list of endpoints.                    *)
(***************************************************************************)
EXTENDS Config

CONSTANTS
    FileSystems,  \* what may be found at the two locations
    Flags         \* values of the -config flag, "" when it is not given

(* encoding/json refuses a document whose services are not a list of them. *)
ASSUME FileAssumption ==
    \A f \in FileSystems : \A p \in {SystemPath, UserPath} \cup (Flags \ {""}) :
        f[p] \in {Missing, Malformed} \/ Decode(f[p]).services \in Seq(RawService)

VARIABLES
    fs,        \* path -> content
    proc,      \* the process: "new", "up", "exited" or "killed"
    done,      \* ctx is cancelled: SIGINT or SIGTERM was received
    handler,   \* what SIGHUP does: "default", "notified" or "stopped"
    hup,       \* the signal channel, of capacity one, holds a signal
    pc,        \* where the goroutine of reloadOnHUP is
    next,      \* the configuration Reload is publishing
    path,      \* the configPath reloadOnHUP was given
    cfg,       \* d.cfg
    tier,      \* the registry's configured services
    endpoints, \* the puller's endpoints
    bound,     \* the settings the listeners and loops were started with
    asked,     \* auxiliary: a SIGHUP was taken and no reading began since
    replaced,  \* auxiliary: the configuration a reload is taking out of force
    status     \* a GET /v1/status: where it is and, auxiliary, the
               \* configurations seen in force since it began and whether it
               \* read something that belongs to none of them

fileVars  == <<fs>>
procVars  == <<proc, done, path, bound>>
loopVars  == <<handler, hup, pc, next, asked, replaced>>
liveVars  == <<cfg, tier, endpoints>>
vars == <<fileVars, procVars, loopVars, liveVars, status>>

NoStatus == [pc |-> "idle", seen |-> {}, outdated |-> FALSE]

Init ==
    /\ fs \in FileSystems
    /\ proc = "new" /\ done = FALSE /\ path = "" /\ bound = Unset
    /\ handler = "default" /\ hup = FALSE /\ pc = "start" /\ next = Unset
    /\ cfg = Unset /\ tier = EmptyTier /\ endpoints = <<>>
    /\ asked = FALSE /\ replaced = Unset /\ status = NoStatus

(* What is done to the files once the process has ended is of no interest. *)
EditFile ==
    /\ proc = "up"
    /\ fs' \in FileSystems
    /\ UNCHANGED <<procVars, loopVars, liveVars, status>>

ConfiguredTier(c) == Filed(c.services, DOMAIN c.services, SourceConfig)

(* run: load the configuration, build the daemon, start the goroutines.    *)
New ==
    /\ proc = "new"
    /\ \E flag \in Flags : \E file \in {Load(fs, flag)} :
          \/ /\ Failed(file)
             /\ proc' = "exited"
             /\ UNCHANGED <<path, liveVars>>
          \/ /\ ~Failed(file)
             /\ proc' = "up"
             /\ path' = file.path
             /\ cfg' = file
             /\ tier' = ConfiguredTier(file)
             /\ endpoints' = WithoutRepeats(file.nodes)
    /\ UNCHANGED <<fileVars, done, bound, loopVars, status>>

(* Run reads the configuration once; a reload may have come before it.     *)
Run ==
    /\ proc = "up" /\ bound = Unset
    /\ \/ bound' = Settings(cfg) /\ UNCHANGED proc
       \/ proc' = "exited" /\ UNCHANGED bound     \* a listener is refused
    /\ UNCHANGED <<fileVars, done, path, loopVars, liveVars, status>>

Terminate ==
    /\ proc = "up" /\ ~done
    /\ done' = TRUE
    /\ UNCHANGED <<fileVars, proc, path, bound, loopVars, liveVars, status>>

(* Run has returned from shutdown.                                         *)
Exit ==
    /\ proc = "up" /\ done /\ bound # Unset
    /\ proc' = "exited"
    /\ UNCHANGED <<fileVars, done, path, bound, loopVars, liveVars, status>>

-----------------------------------------------------------------------------
(* SIGHUP and reloadOnHUP.                                                 *)

(* Mutant: a channel without a buffer; os/signal drops what is not awaited.*)
DeliverUnbuffered == hup' = (hup \/ pc = "select")

(* os/signal never blocks: a signal that finds the channel full is dropped.*)
Deliver == hup' = TRUE

(* Before signal.Notify and after signal.Stop a SIGHUP ends the process.   *)
SendHUP ==
    /\ proc \in {"new", "up"}
    /\ \/ /\ handler = "notified"
          /\ Deliver
          /\ asked' = TRUE
          /\ UNCHANGED proc
       \/ /\ handler # "notified"
          /\ proc' = "killed"
          /\ UNCHANGED <<hup, asked>>
    /\ UNCHANGED <<fileVars, done, path, bound, handler, pc, next, replaced,
                   liveVars, status>>

Notify ==
    /\ proc = "up" /\ pc = "start"
    /\ handler' = "notified" /\ pc' = "select"
    /\ UNCHANGED <<fileVars, procVars, hup, next, asked, replaced, liveVars, status>>

TakeHUP ==
    /\ proc = "up" /\ pc = "select" /\ hup
    /\ hup' = FALSE /\ pc' = "load"
    /\ UNCHANGED <<fileVars, procVars, handler, next, asked, replaced, liveVars, status>>

Return ==
    /\ proc = "up" /\ pc = "select" /\ done
    /\ handler' = "stopped" /\ pc' = "returned"
    /\ UNCHANGED <<fileVars, procVars, hup, next, asked, replaced, liveVars, status>>

-----------------------------------------------------------------------------
(* Daemon.Reload.                                                          *)

(* Mutant: a file that cannot be loaded is replaced by the defaults.       *)
ReloadedOrDefault(file) ==
    /\ pc' = "publish"
    /\ next' = IF Failed(file) THEN Applied(Default, cfg) ELSE Applied(file, cfg)

Reloaded(file) ==
    \/ /\ Failed(file)
       /\ pc' = "select" /\ UNCHANGED next
    \/ /\ ~Failed(file)
       /\ pc' = "publish" /\ next' = Applied(file, cfg)

LoadFile ==
    /\ proc = "up" /\ pc = "load"
    /\ asked' = FALSE
    /\ \E file \in {Load(fs, path)} : Reloaded(file)
    /\ UNCHANGED <<fileVars, procVars, handler, hup, replaced, liveVars, status>>

(* A status being read sees another configuration come into force.         *)
ComesIntoForce(c) ==
    /\ replaced' = cfg
    /\ status' = [status EXCEPT !.seen = IF status.pc = "idle" THEN @ ELSE @ \cup {c}]

(* Mutant: the old services are taken out before the new ones are filed.   *)
PublishConfigClearing ==
    /\ proc = "up" /\ pc = "publish"
    /\ cfg' = next /\ pc' = "services" /\ tier' = EmptyTier
    /\ ComesIntoForce(next)
    /\ UNCHANGED <<fileVars, procVars, handler, hup, next, asked, endpoints>>

PublishConfig ==
    /\ proc = "up" /\ pc = "publish"
    /\ cfg' = next /\ pc' = "services"
    /\ ComesIntoForce(next)
    /\ UNCHANGED <<fileVars, procVars, handler, hup, next, asked, tier, endpoints>>

(* Mutant: the services are filed and the nodes forgotten.                 *)
PublishServicesOnly ==
    /\ proc = "up" /\ pc = "services"
    /\ tier' = ConfiguredTier(next) /\ pc' = "select"
    /\ next' = Unset /\ replaced' = Unset
    /\ UNCHANGED <<fileVars, procVars, handler, hup, asked, cfg, endpoints, status>>

PublishServices ==
    /\ proc = "up" /\ pc = "services"
    /\ tier' = ConfiguredTier(next) /\ pc' = "endpoints"
    /\ UNCHANGED <<fileVars, procVars, handler, hup, next, asked, replaced, cfg,
                   endpoints, status>>

(* SetEndpoints keeps an endpoint that is listed twice once.               *)
PublishEndpoints ==
    /\ proc = "up" /\ pc = "endpoints"
    /\ endpoints' = WithoutRepeats(next.nodes) /\ pc' = "select"
    /\ next' = Unset /\ replaced' = Unset
    /\ UNCHANGED <<fileVars, procVars, handler, hup, asked, cfg, tier, status>>

-----------------------------------------------------------------------------
(* corenet status: the client finds the socket through the configuration   *)
(* file of its own time, and Status reads three things one after another.  *)

newClient ==
    \E flag \in Flags : \E file \in {Load(fs, flag)} :
        ~Failed(file) /\ file.control = cfg.control

ReadConfig ==
    /\ proc = "up" /\ bound # Unset /\ status.pc = "idle"
    /\ newClient
    /\ status' = [NoStatus EXCEPT !.pc = "services", !.seen = {cfg, replaced} \ {Unset}]
    /\ UNCHANGED <<fileVars, procVars, loopVars, liveVars>>

ReadServices ==
    /\ proc = "up" /\ status.pc = "services"
    /\ status' = [status EXCEPT !.pc = "nodes",
                     !.outdated = \A c \in status.seen : tier # ConfiguredTier(c)]
    /\ UNCHANGED <<fileVars, procVars, loopVars, liveVars>>

(* Nodes reads d.cfg once more, for the entry of this node only.           *)
ReadNodes ==
    /\ proc = "up" /\ status.pc = "nodes"
    /\ status' = [NoStatus EXCEPT
          !.outdated = \/ status.outdated
                       \/ \A c \in status.seen : endpoints # WithoutRepeats(c.nodes)]
    /\ UNCHANGED <<fileVars, procVars, loopVars, liveVars>>

-----------------------------------------------------------------------------
Loop == Notify \/ TakeHUP \/ LoadFile \/ PublishConfig \/ PublishServices
            \/ PublishEndpoints

Process == New \/ Run \/ Terminate \/ Exit \/ Return

Client == ReadConfig \/ ReadServices \/ ReadNodes

Next == EditFile \/ SendHUP \/ Process \/ Loop \/ Client

Spec == Init /\ [][Next]_vars

(* The goroutine of reloadOnHUP is scheduled; nothing it does waits for    *)
(* another one, and Go's select takes the signal or returns.               *)
FairSpec == Spec /\ WF_vars(Loop)

-----------------------------------------------------------------------------
(* Type invariant: the control state of the process, the goroutine and the *)
(* client; whenever the daemon is up there is a configuration; and every   *)
(* configuration in hand, in force, being published, being replaced or seen*)
(* by a status, has a list of services.                                    *)
TypeOK ==
    /\ fs \in FileSystems
    /\ proc \in {"new", "up", "exited", "killed"}
    /\ handler \in {"default", "notified", "stopped"}
    /\ pc \in {"start", "select", "load", "publish", "services", "endpoints",
               "returned"}
    /\ {done, hup, asked, status.outdated} \subseteq BOOLEAN
    /\ proc = "up" => cfg # Unset
    /\ next # Unset <=> pc \in {"publish", "services", "endpoints"}
    /\ replaced # Unset <=> pc \in {"services", "endpoints"}
    /\ status.pc \in {"idle", "services", "nodes"}
    /\ status.pc = "idle" <=> status.seen = {}
    /\ \A c \in ({cfg, next, replaced} \ {Unset}) \cup status.seen :
          c.services \in Seq(RawService)
    /\ tier \in Tier

(* The daemon reports, and at shutdown removes the socket of, the settings *)
(* it really runs with, whatever is in the file and whenever it is reloaded*)
(* (daemon.go:226-233; Run reads them at 66, Status at 247, shutdown at    *)
(* 212).                                                                   *)
RunsWhatItReports == bound # Unset => bound = Settings(cfg)

(* Between two reloads the configuration, the configured services and the  *)
(* nodes belong together (daemon.go:235-240).                              *)
Settled ==
    proc = "up" /\ pc \in {"start", "select", "load", "publish", "returned"} =>
        tier = ConfiguredTier(cfg) /\ endpoints = WithoutRepeats(cfg.nodes)

(* A SIGHUP the process took is never lost: until the file is read again,  *)
(* the signal is in the channel or about to be acted upon, also when it    *)
(* came in the middle of a reload (main.go:60-69).                         *)
HupNotLost == asked => hup \/ pc = "load"

(* A status read in three steps while reloads publish in three steps may   *)
(* join two configurations, but never shows anything older or half done:   *)
(* the services and the nodes it counts are, each, those of a configuration*)
(* that was in force, or was just being replaced, since the request began  *)
(* (daemon.go:235-240, 246-261).                                           *)
StatusOfItsTime == ~status.outdated

(* The daemon keeps the promise of LiveConfig.  The configuration in force *)
(* is the one Reload has read, from the moment it has read it.             *)
InForce == IF pc = "publish" THEN next ELSE cfg

Live == INSTANCE LiveConfig WITH
    settings <- IF cfg = Unset THEN Unset ELSE Settings(cfg),
    services <- IF cfg = Unset THEN <<>> ELSE InForce.services,
    nodes    <- IF cfg = Unset THEN <<>> ELSE InForce.nodes,
    ended    <- done \/ proc \in {"exited", "killed"}

(* Reading, deciding and publishing in steps, with signals that coalesce,  *)
(* implements whole-file readings that honour every request (daemon.go:    *)
(* 217-243, main.go:58-74).                                                *)
ImplementsLiveConfig == Live!LiveSpec

=============================================================================
