------------------------------- MODULE Config -------------------------------
(***************************************************************************)
(* internal/config: what a configuration file means.  A file is a partial  *)
(* record: the fields it names replace the defaults.  The nested objects of*)
(* the JSON document are flattened (listen.dns is dns, docker.poll_interval*)
(* is poll), and "enabled" tells the absent field from its two values.     *)
(***************************************************************************)
EXTENDS Tiers

CONSTANTS
    SystemPath, UserPath,  \* the locations searched, in this order
    HostID, HostName,      \* what the machine's host name makes of a node
    HostPorts,             \* the strings net.SplitHostPort accepts
    NodeAddrs,             \* those with a host and a numeric port
    Missing,               \* content of a path where there is no file
    Malformed,             \* content that cannot be read or is not JSON
    NotExist, Invalid      \* the two kinds of error Load returns

Default ==
    [id |-> HostID, name |-> HostName,
     dns |-> "127.0.0.1:53", http |-> "127.0.0.1:80", peer |-> "",
     control |-> "/run/corenet/corenetd.sock",
     services |-> <<>>, nodes |-> <<>>, pull |-> 0,
     enabled |-> "unset", socket |-> "", network |-> "", poll |-> 0,
     path |-> ""]

(* The configuration of a daemon that has not loaded one.                  *)
Unset == [unset |-> TRUE]

IsEnabled(c)    == c.enabled # "false"
SocketPath(c)   == IF c.socket = "" THEN "/var/run/docker.sock" ELSE c.socket
PollInterval(c) == IF c.poll <= 0 THEN 5 ELSE c.poll

(* Docker.Equal compares by meaning: an absent field and its default agree.*)
DockerEqual(c, d) ==
    /\ IsEnabled(c) = IsEnabled(d)
    /\ SocketPath(c) = SocketPath(d)
    /\ c.network = d.network
    /\ PollInterval(c) = PollInterval(d)

Validate(c) ==
    /\ c.id # "" /\ c.control # ""
    /\ {c.dns, c.http, c.peer} \subseteq HostPorts \cup {""}
    /\ ValidConfig(c.services)
    /\ c.pull >= 0 /\ c.poll >= 0
    /\ \A i \in DOMAIN c.nodes : c.nodes[i] \in NodeAddrs

(* Validate leaves the normalized names in the configuration.              *)
Normalized(c) ==
    [c EXCEPT !.services = [i \in DOMAIN c.services |->
        [c.services[i] EXCEPT !.name = NormalizeName(c.services[i].name)]]]

(* Unmarshalling over the defaults.                                        *)
Decode(file) ==
    [f \in DOMAIN Default |-> IF f \in DOMAIN file THEN file[f] ELSE Default[f]]

loadFile(fs, p) ==
    IF fs[p] = Missing THEN NotExist
    ELSE IF fs[p] = Malformed \/ ~Validate(Decode(fs[p])) THEN Invalid
    ELSE [Normalized(Decode(fs[p])) EXCEPT !.path = p]

(* Without a home directory there is no second place to search, which is   *)
(* the case of no file there.                                              *)
searchPaths == <<SystemPath, UserPath>>

(* Without a path the first file that exists decides, broken or not.       *)
Load(fs, path) ==
    LET found == {i \in DOMAIN searchPaths : fs[searchPaths[i]] # Missing}
    IN  IF path # "" THEN loadFile(fs, path)
        ELSE IF found = {} THEN Default
        ELSE loadFile(fs, searchPaths[Min(found)])

Failed(result) == result \in {NotExist, Invalid}

(* What the running parts of a daemon were built from, by its meaning.     *)
Settings(c) ==
    [listen |-> <<c.dns, c.http, c.peer, c.control>>, id |-> c.id,
     pull |-> c.pull,
     docker |-> <<IsEnabled(c), SocketPath(c), c.network, PollInterval(c)>>]

-----------------------------------------------------------------------------
(* Daemon.Reload: a file that differs in a setting only a restart applies  *)
(* keeps all of those settings, and the node's name with them, as they are.*)

(* Mutant: the Docker settings are left out of the comparison.             *)
NeedsRestartIgnoringDocker(c, current) ==
    \/ <<c.dns, c.http, c.peer, c.control>>
           # <<current.dns, current.http, current.peer, current.control>>
    \/ c.id # current.id
    \/ c.pull # current.pull

NeedsRestart(c, current) ==
    \/ <<c.dns, c.http, c.peer, c.control>>
           # <<current.dns, current.http, current.peer, current.control>>
    \/ c.id # current.id
    \/ c.pull # current.pull
    \/ ~DockerEqual(c, current)

Applied(c, current) ==
    IF NeedsRestart(c, current)
        THEN [current EXCEPT !.services = c.services, !.nodes = c.nodes,
                             !.path = c.path]
        ELSE c

=============================================================================
