---------------------------- MODULE ReloadProofs ----------------------------
(***************************************************************************)
(* Proofs about Reload, for every set of files, whatever they contain.     *)
(***************************************************************************)
EXTENDS Reload, TierProofs

(* A configuration has the fields of the default one.                      *)
IsConfig(c) == c = [f \in DOMAIN Default |-> c[f]]

(* What loads is a configuration.                                          *)
LEMMA LoadedIsConfig ==
    ASSUME NEW f, NEW p, ~Failed(Load(f, p))
    PROVE  IsConfig(Load(f, p))
<1>1. IsConfig(Default)
  BY DEF IsConfig, Default
<1>2. ASSUME NEW q, ~Failed(loadFile(f, q))
      PROVE  IsConfig(loadFile(f, q))
  <2>1. loadFile(f, q) = [Normalized(Decode(f[q])) EXCEPT !.path = q]
    BY <1>2 DEF Failed, loadFile
  <2>2. IsConfig(Decode(f[q]))
    BY DEF IsConfig, Decode
  <2>3. ASSUME NEW c, NEW k, NEW v, IsConfig(c)
        PROVE  IsConfig([c EXCEPT ![k] = v])
    BY <2>3 DEF IsConfig
  <2> HIDE DEF IsConfig
  <2>4. IsConfig(Normalized(Decode(f[q])))
    BY <2>2, <2>3 DEF Normalized
  <2> QED BY <2>1, <2>3, <2>4
<1> HIDE DEF IsConfig
<1> DEFINE found == {i \in DOMAIN searchPaths : f[searchPaths[i]] # Missing}
<1>3. Load(f, p) = IF p # "" THEN loadFile(f, p)
                   ELSE IF found = {} THEN Default
                   ELSE loadFile(f, searchPaths[Min(found)])
  BY DEF Load
<1> QED BY <1>1, <1>2, <1>3

(* No configuration is mistaken for the lack of one.                       *)
LEMMA ConfigIsSet ==
    ASSUME NEW c, IsConfig(c)
    PROVE  c # Unset
<1>1. "id" \in DOMAIN c
  BY DEF IsConfig, Default
<1>2. "id" \notin DOMAIN Unset
  BY DEF Unset
<1> QED BY <1>1, <1>2

(* Nor are settings.                                                       *)
LEMMA SettingsAreSet ==
    ASSUME NEW c
    PROVE  Settings(c) # Unset
<1>1. "id" \in DOMAIN Settings(c)
  BY DEF Settings
<1>2. "id" \notin DOMAIN Unset
  BY DEF Unset
<1> QED BY <1>1, <1>2

(* Applying a file keeps every setting and takes services and nodes.       *)
LEMMA AppliedKeepsSettings ==
    ASSUME NEW c, NEW current, IsConfig(c), IsConfig(current)
    PROVE  /\ IsConfig(Applied(c, current))
           /\ Settings(Applied(c, current)) = Settings(current)
           /\ Applied(c, current).services = c.services
           /\ Applied(c, current).nodes = c.nodes
<1>1. CASE NeedsRestart(c, current)
  <2> DEFINE r == [current EXCEPT !.services = c.services, !.nodes = c.nodes,
                                  !.path = c.path]
  <2>1. Applied(c, current) = r
    BY <1>1 DEF Applied
  <2>2. /\ IsConfig(r) /\ r.services = c.services /\ r.nodes = c.nodes
        /\ \A k \in DOMAIN Default \ {"services", "nodes", "path"} :
              r[k] = current[k]
    BY DEF IsConfig, Default
  <2>3. Settings(r) = Settings(current)
    BY <2>2 DEF Settings, IsEnabled, SocketPath, PollInterval, Default
  <2> QED BY <2>1, <2>2, <2>3
<1>2. CASE ~NeedsRestart(c, current)
  BY <1>2 DEF Applied, NeedsRestart, DockerEqual, Settings
<1> QED BY <1>1, <1>2

-----------------------------------------------------------------------------
(* The inductive invariant: while Reload publishes, next is what d.cfg is  *)
(* about to become or has become, with the same settings, and what is not  *)
(* published yet is still that of the configuration being replaced; before *)
(* the start there is nothing; a request in hand is in the channel or being*)
(* served.                                                                 *)
Publication ==
    /\ pc \in {"start", "select", "load", "publish", "services", "endpoints",
               "returned"}
    /\ proc = "up" => IsConfig(cfg)
    /\ next # Unset <=> pc \in {"publish", "services", "endpoints"}
    /\ replaced # Unset <=> pc \in {"services", "endpoints"}
    /\ pc = "publish" => IsConfig(next) /\ Settings(next) = Settings(cfg)
    /\ pc \in {"services", "endpoints"} =>
          cfg = next /\ endpoints = WithoutRepeats(replaced.nodes)
    /\ pc = "services" => tier = ConfiguredTier(replaced)
    /\ pc = "endpoints" => tier = ConfiguredTier(next)

Unstarted ==
    /\ proc = "new" => /\ cfg = Unset /\ bound = Unset /\ handler = "default"
                       /\ pc = "start" /\ ~asked /\ ~done
    /\ pc = "start" => handler = "default" /\ ~asked
    /\ cfg = Unset => pc = "start" /\ bound = Unset

IInv == Publication /\ Unstarted /\ RunsWhatItReports /\ Settled /\ HupNotLost

LEMMA InvariantInit == Init => IInv
  BY DEF Init, IInv, Publication, Unstarted, RunsWhatItReports, Settled, HupNotLost

LEMMA InvariantNext == IInv /\ [Next]_vars => IInv'
<1> SUFFICES ASSUME IInv, [Next]_vars
             PROVE  IInv'
  OBVIOUS
<1> USE DEF IInv, Publication, Unstarted, RunsWhatItReports, Settled, HupNotLost
<1>1. CASE EditFile
  BY <1>1 DEF EditFile, fileVars, procVars, loopVars, liveVars
<1>2. CASE SendHUP
  BY <1>2 DEF SendHUP, Deliver, fileVars, procVars, loopVars, liveVars
<1>3. CASE New
  BY <1>3, LoadedIsConfig, ConfigIsSet
     DEF New, fileVars, procVars, loopVars, liveVars
<1>4. CASE Run
  BY <1>4, ConfigIsSet DEF Run, fileVars, procVars, loopVars, liveVars
<1>5. CASE Terminate
  BY <1>5 DEF Terminate, fileVars, procVars, loopVars, liveVars
<1>6. CASE Exit
  BY <1>6 DEF Exit, fileVars, procVars, loopVars, liveVars
<1>7. CASE Return
  BY <1>7 DEF Return, fileVars, procVars, loopVars, liveVars
<1>8. CASE Notify
  BY <1>8, ConfigIsSet DEF Notify, fileVars, procVars, loopVars, liveVars
<1>9. CASE TakeHUP
  BY <1>9, ConfigIsSet DEF TakeHUP, fileVars, procVars, loopVars, liveVars
<1>10. CASE LoadFile
  BY <1>10, LoadedIsConfig, AppliedKeepsSettings, ConfigIsSet
     DEF LoadFile, Reloaded, fileVars, procVars, loopVars, liveVars
<1>11. CASE PublishConfig
  BY <1>11, ConfigIsSet
     DEF PublishConfig, ComesIntoForce, fileVars, procVars, loopVars, liveVars
<1>12. CASE PublishServices
  BY <1>12 DEF PublishServices, fileVars, procVars, loopVars, liveVars
<1>13. CASE PublishEndpoints
  BY <1>13 DEF PublishEndpoints, fileVars, procVars, loopVars, liveVars
<1>14. CASE Client
  BY <1>14 DEF Client, ReadConfig, ReadServices, ReadNodes,
               fileVars, procVars, loopVars, liveVars
<1>15. CASE UNCHANGED vars
  BY <1>15 DEF vars, fileVars, procVars, loopVars, liveVars
<1> QED
  BY <1>1, <1>2, <1>3, <1>4, <1>5, <1>6, <1>7, <1>8, <1>9, <1>10, <1>11,
     <1>12, <1>13, <1>14, <1>15 DEF Next, Process, Loop

LEMMA Invariant == Spec => []IInv
  BY InvariantInit, InvariantNext, PTL DEF Spec

(* The settings a daemon reports are those it runs with: no file and no    *)
(* moment of a reload makes Status lie, or shutdown remove another path    *)
(* (daemon.go:226-233).                                                    *)
THEOREM ReportsTruth == Spec => []RunsWhatItReports
  BY Invariant, PTL DEF IInv

(* Between reloads the registry and the puller have what the configuration *)
(* says (daemon.go:235-240).                                               *)
THEOREM SettledBetweenReloads == Spec => []Settled
  BY Invariant, PTL DEF IInv

(* No SIGHUP that was taken is lost (main.go:60-69).                       *)
THEOREM SignalsAreKept == Spec => []HupNotLost
  BY Invariant, PTL DEF IInv

-----------------------------------------------------------------------------
LEMMA LiveStart == Init => Live!LiveInit
  BY DEF Init, Live!LiveInit

LEMMA LiveStep == IInv /\ IInv' /\ [Next]_vars => [Live!LiveNext]_Live!liveVars
<1> SUFFICES ASSUME IInv, IInv', [Next]_vars
             PROVE  [Live!LiveNext]_Live!liveVars
  OBVIOUS
<1> USE DEF InForce, Live!liveVars, fileVars, procVars, loopVars, liveVars
<1>1. CASE EditFile
  BY <1>1 DEF EditFile, Live!LiveNext, Live!Edit
<1>2. CASE SendHUP
  <2>1. CASE handler = "notified"
    BY <1>2, <2>1, SettingsAreSet
       DEF SendHUP, Live!LiveNext, Live!Ask, IInv, Unstarted
  <2>2. CASE handler # "notified"
    BY <1>2, <2>2 DEF SendHUP, Live!LiveNext, Live!End
  <2> QED BY <2>1, <2>2
<1>3. CASE New
  <2>1. PICK flag \in Flags : \E file \in {Load(fs, flag)} :
          \/ /\ Failed(file)
             /\ proc' = "exited"
             /\ UNCHANGED <<path, liveVars>>
          \/ /\ ~Failed(file)
             /\ proc' = "up"
             /\ path' = file.path
             /\ cfg' = file
             /\ tier' = ConfiguredTier(file)
             /\ endpoints' = WithoutRepeats(file.nodes)
    BY <1>3 DEF New
  <2>2. CASE Failed(Load(fs, flag))
    BY <1>3, <2>1, <2>2 DEF New, Live!LiveNext, Live!End
  <2>3. CASE ~Failed(Load(fs, flag))
    BY <1>3, <2>1, <2>3, LoadedIsConfig, ConfigIsSet
       DEF New, Live!LiveNext, Live!Start, IInv, Unstarted
  <2> QED BY <2>2, <2>3
<1>4. CASE Run
  BY <1>4 DEF Run, Live!LiveNext, Live!End
<1>5. CASE Terminate
  BY <1>5 DEF Terminate, Live!LiveNext, Live!End
<1>6. CASE Exit
  BY <1>6 DEF Exit, Live!LiveNext, Live!End
<1>7. CASE Return
  BY <1>7 DEF Return
<1>8. CASE Notify
  BY <1>8 DEF Notify
<1>9. CASE TakeHUP
  BY <1>9 DEF TakeHUP
<1>10. CASE LoadFile
  <2> DEFINE file == Load(fs, path)
  <2>1. IsConfig(cfg) /\ cfg # Unset
    BY <1>10, ConfigIsSet DEF LoadFile, IInv, Publication
  <2>2. CASE Failed(file)
    BY <1>10, <2>1, <2>2, SettingsAreSet
       DEF LoadFile, Reloaded, Live!LiveNext, Live!Apply
  <2>3. CASE ~Failed(file)
    BY <1>10, <2>1, <2>3, LoadedIsConfig, AppliedKeepsSettings, SettingsAreSet
       DEF LoadFile, Reloaded, Live!LiveNext, Live!Apply
  <2> QED BY <2>2, <2>3
<1>11. CASE PublishConfig
  BY <1>11, ConfigIsSet DEF PublishConfig, ComesIntoForce, IInv, Publication
<1>12. CASE PublishServices
  BY <1>12 DEF PublishServices
<1>13. CASE PublishEndpoints
  BY <1>13 DEF PublishEndpoints
<1>14. CASE Client
  BY <1>14 DEF Client, ReadConfig, ReadServices, ReadNodes
<1>15. CASE UNCHANGED vars
  BY <1>15 DEF vars
<1> QED
  BY <1>1, <1>2, <1>3, <1>4, <1>5, <1>6, <1>7, <1>8, <1>9, <1>10, <1>11,
     <1>12, <1>13, <1>14, <1>15 DEF Next, Process, Loop

(* The steps of Reload and of its goroutine implement whole-file readings  *)
(* that leave the settings alone: the safety part of ImplementsLiveConfig  *)
(* (daemon.go:217-243).                                                    *)
THEOREM ImplementsSafety == Spec => Live!LiveSafety
  BY Invariant, LiveStart, LiveStep, PTL DEF Spec, Live!LiveSafety

-----------------------------------------------------------------------------
(* What a file means, given what encoding/json lets through: its services  *)
(* are services, and it was found where configurations are looked for.     *)
Places == {SystemPath, UserPath} \cup (Flags \ {""})

LEMMA FoundIsService ==
    ASSUME NEW f \in FileSystems, NEW p \in Places, ~Failed(loadFile(f, p))
    PROVE  /\ loadFile(f, p).services \in Seq(RawService)
           /\ loadFile(f, p).path = p
<1> DEFINE c == Decode(f[p])
           n == Normalized(c)
<1>1. /\ f[p] \notin {Missing, Malformed}
      /\ loadFile(f, p) = [n EXCEPT !.path = p]
  BY DEF Failed, loadFile
<1>2. c.services \in Seq(RawService)
  BY <1>1, FileAssumption DEF Places
<1>3. c = [g \in DOMAIN Default |-> c[g]]
  BY DEF Decode
<1> HIDE DEF c
<1>4. /\ n.services = [i \in DOMAIN c.services |->
            [c.services[i] EXCEPT !.name = NormalizeName(c.services[i].name)]]
      /\ n = [g \in DOMAIN Default |-> n[g]]
  BY <1>3 DEF Normalized, Default
<1>5. ASSUME NEW i \in DOMAIN c.services
      PROVE  [c.services[i] EXCEPT !.name = NormalizeName(c.services[i].name)]
                \in RawService
  <2>1. c.services[i] \in RawService
    BY <1>2
  <2> QED
    BY <2>1, NameAssumption DEF RawService, NormalizeName
<1>6. n.services \in Seq(RawService)
  <2>1. DOMAIN c.services = 1..Len(c.services) /\ Len(c.services) \in Nat
    BY <1>2
  <2>2. n.services \in [1..Len(c.services) -> RawService]
    BY <1>4, <1>5, <2>1
  <2> HIDE DEF n
  <2> QED
    BY <2>1, <2>2
<1> HIDE DEF n
<1> QED
  BY <1>1, <1>4, <1>6 DEF Default

(* The places are searched in order; the first index found is one of them. *)
LEMMA FirstOfTwo ==
    ASSUME NEW a, NEW b, NEW T, T \subseteq DOMAIN <<a, b>>, T # {}
    PROVE  <<a, b>>[Min(T)] \in {a, b}
<1>1. DOMAIN <<a, b>> = {1, 2}
  OBVIOUS
<1>2. 1 \in T => \A y \in T : 1 <= y
  BY <1>1
<1>3. 1 \notin T => T = {2}
  BY <1>1
<1>4. \E x \in T : \A y \in T : x <= y
  <2>1. CASE 1 \in T
    BY <1>2, <2>1
  <2>2. CASE 1 \notin T
    BY <1>3, <2>2
  <2> QED
    BY <2>1, <2>2
<1>5. Min(T) \in T
  BY <1>4 DEF Min
<1>6. ASSUME NEW i \in {1, 2} PROVE <<a, b>>[i] \in {a, b}
  OBVIOUS
<1> QED
  BY <1>1, <1>5, <1>6

LEMMA NoServices == <<>> \in Seq(RawService)
  OBVIOUS

LEMMA LoadedServices ==
    ASSUME NEW f \in FileSystems, NEW p \in Places \cup {""}, ~Failed(Load(f, p))
    PROVE  /\ Load(f, p).services \in Seq(RawService)
           /\ Load(f, p).path \in Places \cup {""}
<1> DEFINE found == {i \in DOMAIN searchPaths : f[searchPaths[i]] # Missing}
           first == searchPaths[Min(found)]
<1>1. Load(f, p) = IF p # "" THEN loadFile(f, p)
                   ELSE IF found = {} THEN Default
                   ELSE loadFile(f, first)
  BY DEF Load
<1>2. found # {} => first \in Places
  <2>1. searchPaths = <<SystemPath, UserPath>> /\ found \subseteq DOMAIN searchPaths
    BY DEF searchPaths
  <2> HIDE DEF found
  <2>2. found # {} => first \in {SystemPath, UserPath}
    BY <2>1, FirstOfTwo
  <2> QED
    BY <2>2 DEF Places
<1>3. Default.services \in Seq(RawService) /\ Default.path = ""
  BY NoServices DEF Default
<1> HIDE DEF found, first
<1> QED
  BY <1>1, <1>2, <1>3, FoundIsService

-----------------------------------------------------------------------------
(* A status in progress has seen the configuration in force and, while a   *)
(* reload publishes, the one it replaces: whatever it may read now belongs *)
(* to one of them.                                                         *)
StatusInv ==
    /\ status = [f \in {"pc", "seen", "outdated"} |-> status[f]]
    /\ status.pc \in {"idle", "services", "nodes"}
    /\ status.pc = "idle" <=> status.seen = {}
    /\ status.pc # "idle" =>
          /\ proc # "new" /\ cfg \in status.seen
          /\ pc \in {"services", "endpoints"} => replaced \in status.seen
    /\ status.outdated = FALSE

LEMMA NoStatusFields ==
    /\ NoStatus = [f \in {"pc", "seen", "outdated"} |-> NoStatus[f]]
    /\ NoStatus.pc = "idle" /\ NoStatus.seen = {} /\ NoStatus.outdated = FALSE
  BY DEF NoStatus

LEMMA StatusInit == Init => StatusInv
  BY NoStatusFields DEF Init, StatusInv

LEMMA StatusNext == IInv /\ StatusInv /\ [Next]_vars => StatusInv'
<1> SUFFICES ASSUME IInv, StatusInv, [Next]_vars
             PROVE  StatusInv'
  OBVIOUS
<1> USE DEF StatusInv, fileVars, procVars, loopVars, liveVars
<1>1. CASE /\ UNCHANGED <<status, cfg, replaced>>
           /\ pc' \in {pc, "select", "load", "publish", "returned"}
           /\ proc' # "new" \/ proc = "new"
  BY <1>1
<1>2. CASE New
  BY <1>2 DEF New
<1>3. CASE EditFile \/ SendHUP \/ Run \/ Terminate \/ Exit \/ Return
  BY <1>1, <1>3 DEF EditFile, SendHUP, Run, Terminate, Exit, Return
<1>4. CASE Notify \/ TakeHUP \/ LoadFile
  BY <1>1, <1>4 DEF Notify, TakeHUP, LoadFile, Reloaded
<1>5. CASE PublishConfig
  <2>1. /\ proc = "up" /\ cfg' = next /\ replaced' = cfg /\ pc' = "services"
        /\ UNCHANGED proc
    BY <1>5 DEF PublishConfig, ComesIntoForce
  <2>2. CASE status.pc = "idle"
    <3>1. status' = status
      BY <1>5, <2>2 DEF PublishConfig, ComesIntoForce
    <3> QED
      BY <2>1, <2>2, <3>1
  <2>3. CASE status.pc # "idle"
    <3>1. /\ status' = [f \in {"pc", "seen", "outdated"} |-> status'[f]]
          /\ status'.pc = status.pc /\ status'.outdated = status.outdated
          /\ status'.seen = status.seen \cup {next}
      BY <1>5, <2>3 DEF PublishConfig, ComesIntoForce
    <3> QED
      BY <2>1, <2>3, <3>1
  <2> QED
    BY <2>2, <2>3
<1>6. CASE PublishServices \/ PublishEndpoints
  BY <1>6 DEF PublishServices, PublishEndpoints
<1>7. CASE ReadConfig
  <2>1. /\ status' = [f \in {"pc", "seen", "outdated"} |-> status'[f]]
        /\ status'.pc = "services" /\ status'.outdated = FALSE
        /\ status'.seen = {cfg, replaced} \ {Unset}
        /\ UNCHANGED <<proc, cfg, pc, replaced>> /\ proc = "up"
    BY <1>7 DEF ReadConfig, NoStatus
  <2>2. cfg # Unset /\ (pc \in {"services", "endpoints"} => replaced # Unset)
    BY <2>1, ConfigIsSet DEF IInv, Publication
  <2> QED
    BY <2>1, <2>2
<1>8. CASE ReadServices
  <2>1. /\ status' = [f \in {"pc", "seen", "outdated"} |-> status'[f]]
        /\ status'.pc = "nodes" /\ status'.seen = status.seen
        /\ status'.outdated = \A c \in status.seen : tier # ConfiguredTier(c)
        /\ UNCHANGED <<proc, cfg, pc, replaced>> /\ proc = "up"
        /\ status.pc = "services"
    BY <1>8 DEF ReadServices
  <2>2. \E c \in status.seen : tier = ConfiguredTier(c)
    BY <2>1 DEF IInv, Publication, Settled, Unstarted
  <2> QED
    BY <2>1, <2>2
<1>9. CASE ReadNodes
  <2>1. /\ status' = [f \in {"pc", "seen", "outdated"} |-> status'[f]]
        /\ status'.pc = "idle" /\ status'.seen = {}
        /\ status'.outdated = (\/ status.outdated
              \/ \A c \in status.seen : endpoints # WithoutRepeats(c.nodes))
        /\ UNCHANGED <<proc, cfg, pc, replaced>> /\ proc = "up"
        /\ status.pc = "nodes"
    BY <1>9 DEF ReadNodes, NoStatus
  <2>2. \E c \in status.seen : endpoints = WithoutRepeats(c.nodes)
    BY <2>1 DEF IInv, Publication, Settled, Unstarted
  <2> QED
    BY <2>1, <2>2
<1>10. CASE UNCHANGED vars
  BY <1>1, <1>10 DEF vars
<1> QED
  BY <1>2, <1>3, <1>4, <1>5, <1>6, <1>7, <1>8, <1>9, <1>10
     DEF Next, Process, Loop, Client

LEMMA StatusInvariant == Spec => []StatusInv
  BY Invariant, StatusInit, StatusNext, PTL DEF Spec

(* What a status counts belongs to configurations of its own time, however *)
(* its three readings and the three publications of any number of reloads  *)
(* interleave: a reload never empties what it replaces and never leaves an *)
(* earlier configuration behind (daemon.go:235-240, 246-261).              *)
THEOREM StatusIsOfItsTime == Spec => []StatusOfItsTime
<1>1. StatusInv => StatusOfItsTime
  BY DEF StatusInv, StatusOfItsTime
<1> QED
  BY StatusInvariant, <1>1, PTL

-----------------------------------------------------------------------------
(* The configurations that are in force, being published, being replaced   *)
(* or seen by a status.                                                    *)
InHand == ({cfg, next, replaced} \ {Unset}) \cup status.seen

(* The type invariant with what makes it inductive: the path to reload from*)
(* is one of the places.                                                   *)
TInv ==
    /\ path \in Places \cup {""}
    /\ fs \in FileSystems
    /\ proc \in {"new", "up", "exited", "killed"}
    /\ handler \in {"default", "notified", "stopped"}
    /\ done \in BOOLEAN /\ hup \in BOOLEAN /\ asked \in BOOLEAN
    /\ \A c \in InHand : c.services \in Seq(RawService)
    /\ tier \in Tier

LEMMA ConfiguredTierType ==
    ASSUME NEW c, c.services \in Seq(RawService)
    PROVE  ConfiguredTier(c) \in Tier
BY FiledType DEF ConfiguredTier, Sources

LEMMA TypeInit == Init => TInv
  BY EmptyTierFacts, NoStatusFields DEF Init, TInv, InHand

LEMMA TypeNext == IInv /\ StatusInv /\ TInv /\ [Next]_vars => TInv'
<1> SUFFICES ASSUME IInv, StatusInv, TInv, [Next]_vars
             PROVE  TInv'
  OBVIOUS
<1> USE DEF TInv, fileVars, procVars, loopVars, liveVars
<1>1. CASE EditFile
  BY <1>1 DEF EditFile, InHand
<1>2. CASE SendHUP
  BY <1>2 DEF SendHUP, Deliver, InHand
<1>3. CASE New
  <2>1. PICK flag \in Flags :
          \/ /\ Failed(Load(fs, flag))
             /\ proc' = "exited"
             /\ UNCHANGED <<path, cfg, tier>>
          \/ /\ ~Failed(Load(fs, flag))
             /\ proc' = "up"
             /\ path' = Load(fs, flag).path
             /\ cfg' = Load(fs, flag)
             /\ tier' = ConfiguredTier(Load(fs, flag))
    BY <1>3 DEF New
  <2>2. UNCHANGED <<fs, done, handler, hup, pc, next, asked, replaced, status>>
    BY <1>3 DEF New
  <2>3. flag \in Places \cup {""}
    BY DEF Places
  <2>4. CASE Failed(Load(fs, flag))
    BY <2>1, <2>2, <2>4 DEF InHand
  <2>5. CASE ~Failed(Load(fs, flag))
    <3>1. /\ Load(fs, flag).services \in Seq(RawService)
          /\ Load(fs, flag).path \in Places \cup {""}
      BY <2>3, <2>5, LoadedServices
    <3>2. ConfiguredTier(Load(fs, flag)) \in Tier
      BY <3>1, ConfiguredTierType
    <3>3. InHand' \subseteq InHand \cup {Load(fs, flag)}
      BY <2>1, <2>2, <2>5 DEF InHand
    <3>4. \A c \in InHand' : c.services \in Seq(RawService)
      BY <3>1, <3>3
    <3> QED
      BY <2>1, <2>2, <2>5, <3>1, <3>2, <3>4
  <2> QED
    BY <2>4, <2>5
<1>4. CASE Run
  BY <1>4 DEF Run, InHand
<1>5. CASE Terminate
  BY <1>5 DEF Terminate, InHand
<1>6. CASE Exit
  BY <1>6 DEF Exit, InHand
<1>7. CASE Return
  BY <1>7 DEF Return, InHand
<1>8. CASE Notify
  BY <1>8 DEF Notify, InHand
<1>9. CASE TakeHUP
  BY <1>9 DEF TakeHUP, InHand
<1>10. CASE LoadFile
  <2>1. /\ proc = "up" /\ IsConfig(cfg) /\ asked' = FALSE
        /\ Reloaded(Load(fs, path))
        /\ UNCHANGED <<fs, proc, done, path, handler, hup, cfg, tier, replaced, status>>
    BY <1>10 DEF LoadFile, IInv, Publication
  <2>2. CASE Failed(Load(fs, path))
    BY <2>1, <2>2 DEF Reloaded, InHand
  <2>3. CASE ~Failed(Load(fs, path))
    <3>1. /\ Load(fs, path).services \in Seq(RawService)
          /\ IsConfig(Load(fs, path))
      BY <2>3, LoadedServices, LoadedIsConfig
    <3>2. Applied(Load(fs, path), cfg).services \in Seq(RawService)
      BY <2>1, <3>1, AppliedKeepsSettings
    <3>3. InHand' \subseteq InHand \cup {Applied(Load(fs, path), cfg)}
      BY <2>1, <2>3 DEF Reloaded, InHand
    <3>4. \A c \in InHand' : c.services \in Seq(RawService)
      BY <3>2, <3>3
    <3> QED
      BY <2>1, <2>3, <3>4 DEF Reloaded
  <2> QED
    BY <2>2, <2>3
<1>11. CASE PublishConfig
  <2>1. status'.seen \subseteq status.seen \cup {next}
    BY <1>11 DEF PublishConfig, ComesIntoForce, StatusInv
  <2>2. next \in InHand
    BY <1>11 DEF PublishConfig, IInv, Publication, InHand
  <2>3. cfg' = next /\ next' = next /\ replaced' = cfg
    BY <1>11 DEF PublishConfig, ComesIntoForce
  <2>4. InHand' \subseteq InHand
    BY <2>1, <2>2, <2>3 DEF InHand
  <2> QED
    BY <1>11, <2>4 DEF PublishConfig
<1>12. CASE PublishServices
  <2>1. next \in InHand
    BY <1>12 DEF PublishServices, IInv, Publication, InHand
  <2>2. ConfiguredTier(next) \in Tier
    BY <2>1, ConfiguredTierType
  <2>3. InHand' = InHand
    BY <1>12 DEF PublishServices, InHand
  <2> QED
    BY <1>12, <2>2, <2>3 DEF PublishServices
<1>13. CASE PublishEndpoints
  <2>1. InHand' \subseteq InHand
    BY <1>13 DEF PublishEndpoints, InHand
  <2> QED
    BY <1>13, <2>1 DEF PublishEndpoints
<1>14. CASE Client
  <2>1. status'.seen \subseteq status.seen \cup ({cfg, replaced} \ {Unset})
    BY <1>14 DEF Client, ReadConfig, ReadServices, ReadNodes, StatusInv, NoStatus
  <2>2. /\ UNCHANGED <<fs, proc, done, path, handler, hup, pc, next, asked, replaced>>
        /\ UNCHANGED <<cfg, tier>>
    BY <1>14 DEF Client, ReadConfig, ReadServices, ReadNodes
  <2>3. InHand' \subseteq InHand
    BY <2>1, <2>2 DEF InHand
  <2> QED
    BY <2>2, <2>3
<1>15. CASE UNCHANGED vars
  BY <1>15 DEF vars, InHand
<1> QED
  BY <1>1, <1>2, <1>3, <1>4, <1>5, <1>6, <1>7, <1>8, <1>9, <1>10, <1>11,
     <1>12, <1>13, <1>14, <1>15 DEF Next, Process, Loop

LEMMA TypeInvariant == Spec => []TInv
  BY Invariant, StatusInvariant, TypeInit, TypeNext, PTL DEF Spec

(* Whatever the files say and however reloads and statuses interleave: a   *)
(* daemon that is up has a configuration, a configuration is in hand only  *)
(* while it is being published or replaced or a status is in progress, all *)
(* of them have lists of services, and the configured tier holds services  *)
(* (main.go:30-47, daemon.go:217-261).                                     *)
THEOREM TypeCorrect == Spec => []TypeOK
<1>1. IInv /\ StatusInv /\ TInv => TypeOK
  <2> SUFFICES ASSUME IInv, StatusInv, TInv
               PROVE  TypeOK
    OBVIOUS
  <2>1. {done, hup, asked, status.outdated} \subseteq BOOLEAN
    BY Zenon DEF TInv, StatusInv
  <2>2. proc = "up" => cfg # Unset
    BY ConfigIsSet DEF IInv, Publication
  <2>3. \A c \in ({cfg, next, replaced} \ {Unset}) \cup status.seen :
          c.services \in Seq(RawService)
    BY DEF TInv, InHand
  <2>4. /\ pc \in {"start", "select", "load", "publish", "services", "endpoints",
                   "returned"}
        /\ next # Unset <=> pc \in {"publish", "services", "endpoints"}
        /\ replaced # Unset <=> pc \in {"services", "endpoints"}
    BY DEF IInv, Publication
  <2> QED
    BY <2>1, <2>2, <2>3, <2>4 DEF TypeOK, TInv, StatusInv
<1> QED
  BY Invariant, StatusInvariant, TypeInvariant, <1>1, PTL

=============================================================================
