----------------------------- MODULE Lifecycle ------------------------------
(***************************************************************************)
(* Several corenetd processes on one machine: Daemon.Run binds listeners   *)
(* one after the other, startControlAPI takes over the control socket, and *)
(* shutdown gives everything back.  Any process may be killed at any step; *)
(* the kernel then closes its sockets but leaves the file of the control   *)
(* socket behind.  All daemons use the same control path, as they do by    *)
(* default; their other addresses may coincide or not.                     *)
(***************************************************************************)
EXTENDS Naturals, FiniteSets

CONSTANTS
    Daemons,
    Configs,    \* the listen addresses the daemons may have been given
    NoFile,     \* the control path does not exist
    Other,      \* a file that is not a socket is there
    Stale       \* a socket is there that no process listens on

(* The network listeners; DNS is served on two sockets of one address.     *)
Listeners == {"udp", "tcp", "http", "peer"}

ASSUME FileAssumption ==
    /\ NoFile \notin Daemons /\ Other \notin Daemons /\ Stale \notin Daemons
    /\ NoFile # Other /\ NoFile # Stale /\ Other # Stale

ASSUME ConfigAssumption ==
    \A c \in Configs : \A d \in Daemons :
        /\ DOMAIN c = Daemons /\ DOMAIN c[d] = Listeners
        /\ c[d]["udp"] = c[d]["tcp"]

VARIABLES
    addr,   \* daemon -> listener -> address, "" when it is disabled
    held,   \* daemon -> the listeners it has bound
    file,   \* the control path: a daemon's socket, NoFile, Other or Stale
    pc,     \* daemon -> the step of Run, startControlAPI or shutdown it is at
    alone   \* auxiliary: the daemons that no other has run beside

vars == <<addr, held, file, pc, alone>>

Starting  == {"stat", "dial", "remove", "bind"}
Attached  == {"listen", "chmod", "serving", "stop_http", "stop_peer", "stop_control"}
Detached  == {"stop_udp", "stop_tcp", "unlink"}
Steps     == {"off", "refused"} \cup Listeners \cup Starting \cup Attached \cup Detached

Idle(d) == pc[d] \in {"off", "refused"}

Init ==
    /\ addr \in Configs
    /\ held = [d \in Daemons |-> {}]
    /\ file \in {NoFile, Other, Stale}
    /\ pc = [d \in Daemons |-> "off"]
    /\ alone = {}

Goto(d, step) == pc' = [pc EXCEPT ![d] = step]

(* The end of a process: the kernel closes what it held; its control socket*)
(* stays in the file system.                                               *)
Gone(d, how) ==
    /\ Goto(d, how)
    /\ held' = [held EXCEPT ![d] = {}]
    /\ file' = IF file = d THEN Stale ELSE file
    /\ UNCHANGED <<addr, alone>>

Start(d) ==
    /\ Idle(d)
    /\ Goto(d, "udp")
    /\ alone' = IF \A e \in Daemons \ {d} : Idle(e) THEN {d} ELSE {}
    /\ UNCHANGED <<addr, held, file>>

Crash(d) == ~Idle(d) /\ Gone(d, "off")

-----------------------------------------------------------------------------
(* startDNS, startHTTP, startPeerAPI.                                      *)

Taken(d, l) ==
    \E e \in Daemons \ {d} : l \in held[e] /\ addr[e][l] = addr[d][l]

(* Mutant: the control API is started before most of the listeners.        *)
AfterListenerControlFirst ==
    [udp |-> "stat", tcp |-> "http", http |-> "peer", peer |-> "stat"]

AfterListener ==
    [udp |-> "tcp", tcp |-> "http", http |-> "peer", peer |-> "stat"]

Listen(d) ==
    LET l == pc[d]
    IN  /\ l \in Listeners
        /\ \/ /\ addr[d][l] # "" /\ Taken(d, l)
              /\ Gone(d, "off")                      \* bindError
           \/ /\ addr[d][l] = "" \/ ~Taken(d, l)
              /\ held' = [held EXCEPT ![d] =
                             @ \cup (IF addr[d][l] = "" THEN {} ELSE {l})]
              /\ Goto(d, AfterListener[l])
              /\ UNCHANGED <<addr, file, alone>>

-----------------------------------------------------------------------------
(* startControlAPI and removeStaleSocket.                                  *)

(* A connection to the path is accepted once its owner has called listen.  *)
Accepting == file \in Daemons /\ pc[file] \in Attached \ {"listen"}

(* Mutant: a socket that is there already is left for bind to stumble on.  *)
AfterStatKeeping == "bind"

AfterStat == IF file = NoFile THEN "bind" ELSE "dial"

Stat(d) ==
    /\ pc[d] = "stat"
    /\ \/ file = Other /\ Gone(d, "refused")         \* "not a socket"
       \/ file # Other /\ Goto(d, AfterStat) /\ UNCHANGED <<addr, held, file, alone>>

Dial(d) ==
    /\ pc[d] = "dial"
    /\ \/ Accepting /\ Gone(d, "refused")            \* "already running"
       \/ ~Accepting /\ Goto(d, "remove") /\ UNCHANGED <<addr, held, file, alone>>

(* os.Remove takes away whatever is at the path by now.                    *)
RemoveStale(d) ==
    /\ pc[d] = "remove"
    /\ \/ file = NoFile /\ Gone(d, "refused")
       \/ /\ file # NoFile
          /\ file' = NoFile
          /\ Goto(d, "bind") /\ UNCHANGED <<addr, held, alone>>

Bind(d) ==
    /\ pc[d] = "bind"
    /\ \/ file # NoFile /\ Gone(d, "refused")
       \/ /\ file = NoFile
          /\ file' = d
          /\ Goto(d, "listen") /\ UNCHANGED <<addr, held, alone>>

ListenControl(d) ==
    /\ pc[d] = "listen"
    /\ Goto(d, "chmod") /\ UNCHANGED <<addr, held, file, alone>>

Chmod(d) ==
    /\ pc[d] = "chmod"
    /\ \/ file = NoFile /\ Gone(d, "refused")
       \/ file # NoFile /\ Goto(d, "serving") /\ UNCHANGED <<addr, held, file, alone>>

-----------------------------------------------------------------------------
(* shutdown: the HTTP servers in their order, DNS, and the path once more. *)

Stop(d) ==
    /\ pc[d] = "serving"
    /\ Goto(d, "stop_http") /\ UNCHANGED <<addr, held, file, alone>>

(* Mutant: DNS is stopped before the control API.                          *)
AfterStopDNSFirst ==
    [stop_http |-> "stop_peer", stop_peer |-> "stop_udp",
     stop_udp |-> "stop_tcp", stop_tcp |-> "stop_control",
     stop_control |-> "unlink"]

AfterStop ==
    [stop_http |-> "stop_peer", stop_peer |-> "stop_control",
     stop_control |-> "stop_udp", stop_udp |-> "stop_tcp",
     stop_tcp |-> "unlink"]

(* Mutant: only the UDP server of DNS is stopped.                          *)
ReleasedKeepingTCP ==
    [stop_http |-> {"http"}, stop_peer |-> {"peer"}, stop_control |-> {},
     stop_udp |-> {"udp"}, stop_tcp |-> {}]

Released ==
    [stop_http |-> {"http"}, stop_peer |-> {"peer"}, stop_control |-> {},
     stop_udp |-> {"udp"}, stop_tcp |-> {"tcp"}]

(* Closing a Unix listener unlinks its path, whoever's socket is there.    *)
StopListener(d) ==
    /\ pc[d] \in DOMAIN AfterStop
    /\ held' = [held EXCEPT ![d] = @ \ Released[pc[d]]]
    /\ file' = IF pc[d] = "stop_control" THEN NoFile ELSE file
    /\ Goto(d, AfterStop[pc[d]]) /\ UNCHANGED <<addr, alone>>

Unlink(d) ==
    /\ pc[d] = "unlink"
    /\ file' = NoFile
    /\ Goto(d, "off") /\ UNCHANGED <<addr, held, alone>>

(* Somebody else tidies up, or puts a file where the socket belongs.       *)
Outsider ==
    /\ \A d \in Daemons : Idle(d)
    /\ file' \in {NoFile, Other}
    /\ alone' = {}
    /\ UNCHANGED <<addr, held, pc>>

Next ==
    \/ \E d \in Daemons :
          \/ Start(d) \/ Crash(d) \/ Listen(d)
          \/ Stat(d) \/ Dial(d) \/ RemoveStale(d) \/ Bind(d)
          \/ ListenControl(d) \/ Chmod(d)
          \/ Stop(d) \/ StopListener(d) \/ Unlink(d)
    \/ Outsider

Spec == Init /\ [][Next]_vars

-----------------------------------------------------------------------------
(* Type invariant; a process that has ended holds nothing.                 *)
TypeOK ==
    /\ addr \in Configs
    /\ held \in [Daemons -> SUBSET Listeners]
    /\ file \in Daemons \cup {NoFile, Other, Stale}
    /\ pc \in [Daemons -> Steps]
    /\ alone \in SUBSET Daemons
    /\ \A d \in Daemons : Idle(d) => held[d] = {}

(* A control socket that can be found belongs to a daemon whose DNS is up: *)
(* what connect learns there (connect.go:31-38) is an address that answers *)
(* (Run starts DNS first, shutdown stops it after the control API;         *)
(* daemon.go:75-86, 199-211).                                              *)
DNSBehindSocket ==
    \A d \in Daemons :
        file = d /\ addr[d]["udp"] # "" => {"udp", "tcp"} \subseteq held[d]

(* Every two daemons have an enabled listener address in common.           *)
Contended ==
    \A d, e \in Daemons : \E l \in Listeners :
        addr[d][l] # "" /\ addr[d][l] = addr[e][l]

(* Daemons that contend for some address never take the control socket of  *)
(* one another while starting, although removeStaleSocket tests and removes*)
(* in separate steps: only one that is shutting down can (daemon.go:75-86, *)
(* 306-322, 212).                                                          *)
SocketLostOnlyToShutdown ==
    [][Contended =>
        \A d \in Daemons :
            pc[d] = "serving" /\ file = d /\ file' # d =>
                \/ pc'[d] # "serving"
                \/ \E e \in Daemons \ {d} : pc[e] \in {"stop_control", "unlink"}]_vars

(* A daemon that nobody runs beside is never refused the control socket,   *)
(* whatever crashes and earlier daemons have left there, unless it is not a*)
(* socket (daemon.go:163-166, 306-322).                                    *)
AloneNeverRefused ==
    \A d \in alone : pc[d] = "refused" => file = Other

(* As its comment says (daemon.go:305): removeStaleSocket deletes a socket *)
(* file that no daemon is listening on.                                    *)
RemovesOnlyStale == \A d \in Daemons : pc[d] = "remove" => ~Accepting

=============================================================================
