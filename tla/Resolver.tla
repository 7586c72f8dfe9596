------------------------------ MODULE Resolver ------------------------------
(***************************************************************************)
(* corenet connect and corenet disconnect (cmd/corenet/connect.go): the    *)
(* drop-in file of systemd-resolved, written through a temporary file, and *)
(* the restart that makes the resolver read it.  Several commands may run  *)
(* at once; any of them may be killed, any write or restart may fail, the  *)
(* resolver starts and stops by itself and corenetd comes, goes and moves. *)
(* A resolver that starts reads its files before systemd calls it active.  *)
(***************************************************************************)
EXTENDS Naturals

CONSTANTS
    Commands,   \* processes that run connect or disconnect, again and again
    DNSAddrs,   \* records [host, port] corenetd may serve DNS on
    Disabled,   \* corenetd runs without DNS
    Down,       \* corenetd does not answer on the control socket
    NoFile,     \* no such file; also: nothing is routed
    Partial     \* a file that is not completely written

VARIABLES
    listen,     \* the DNS address in corenetd's status, Disabled or Down
    dropIn,     \* the drop-in file
    tmp,        \* command -> its temporary file
    unit,       \* systemd-resolved: "inactive", "starting" or "active"
    due,        \* systemd has been asked to restart it and has not yet
    routes,     \* the drop-in it read when it started
    cmd,        \* command -> its step, the address it was told, its outcome
    unread      \* auxiliary: a restart failed, never came or was left out, and
                \* the resolver did not start since

unitVars == <<unit, due, routes>>
vars == <<listen, dropIn, tmp, unitVars, cmd, unread>>

Wildcards == {"", "0.0.0.0", "::"}

(* Mutant: the listen address is written as it is.                         *)
dropInContentVerbatim(a) == [host |-> a.host, port |-> a.port]

(* A server that listens everywhere is reached through the loopback.       *)
dropInContent(a) ==
    [host |-> IF a.host \in Wildcards THEN "127.0.0.1" ELSE a.host, port |-> a.port]

(* Whether a query sent to the server of a drop-in arrives at a listener.  *)
Arrives(content, a) ==
    /\ content.port = a.port
    /\ content.host \notin Wildcards
    /\ a.host \in Wildcards \cup {content.host}

Idle == [pc |-> "idle", addr |-> NoFile, outcome |-> "none",
         overlapped |-> FALSE, truth |-> TRUE]

Init ==
    /\ listen \in DNSAddrs \cup {Disabled, Down}
    /\ dropIn = NoFile
    /\ tmp = [c \in Commands |-> NoFile]
    /\ unit \in {"inactive", "active"}
    /\ due = FALSE
    /\ routes = NoFile
    /\ cmd = [c \in Commands |-> Idle]
    /\ unread = FALSE

resolutionState == IF dropIn # NoFile THEN "connected" ELSE "not connected"

-----------------------------------------------------------------------------
(* Steps of a command.                                                     *)

Running(c) == cmd[c].pc # "idle"

Goto(c, pc) == cmd' = [cmd EXCEPT ![c].pc = pc]

(* A command that ends with an outcome; truth: what it says is so.         *)
Ended(command, outcome, truth) ==
    [command EXCEPT !.pc = "idle", !.addr = NoFile,
                    !.outcome = outcome, !.truth = truth]

End(c, outcome, truth) == cmd' = [cmd EXCEPT ![c] = Ended(@, outcome, truth)]

Begin(c, pc) ==
    /\ ~Running(c)
    /\ cmd' = [d \in Commands |->
                 IF d = c THEN [Idle EXCEPT !.pc = pc,
                                    !.overlapped = \E e \in Commands : Running(e)]
                 ELSE [cmd[d] EXCEPT !.overlapped = @ \/ Running(d)]]
    /\ UNCHANGED <<listen, dropIn, tmp, unitVars, unread>>

(* connect: the status of corenetd, then whether the resolver is running.  *)
GetStatus(c) ==
    /\ cmd[c].pc = "status"
    /\ \/ listen \in {Disabled, Down} /\ End(c, "failed", TRUE)
       \/ /\ listen \notin {Disabled, Down}
          /\ cmd' = [cmd EXCEPT ![c].pc = "active", ![c].addr = listen]
    /\ UNCHANGED <<listen, dropIn, tmp, unitVars, unread>>

IsActive(c) ==
    /\ cmd[c].pc = "active"
    /\ \/ unit = "active" /\ Goto(c, "create")
       \/ unit # "active" /\ End(c, "failed", TRUE)
    /\ UNCHANGED <<listen, dropIn, tmp, unitVars, unread>>

(* writeFileAtomic.                                                        *)

(* Mutant: the file is written in place.                                   *)
CreateTempInPlace(c) == dropIn' = Partial /\ tmp' = [tmp EXCEPT ![c] = Partial]

CreateTemp(c) == tmp' = [tmp EXCEPT ![c] = Partial] /\ UNCHANGED dropIn

Create(c) ==
    /\ cmd[c].pc = "create"
    /\ \/ CreateTemp(c) /\ Goto(c, "write")
       \/ End(c, "failed", TRUE) /\ UNCHANGED <<dropIn, tmp>>
    /\ UNCHANGED <<listen, unitVars, unread>>

(* Mutant: the temporary file stays behind after an error.                 *)
DiscardForgotten(c) == UNCHANGED tmp

(* The deferred removal of the temporary file.                             *)
Discard(c) == tmp' = [tmp EXCEPT ![c] = NoFile]

Write(c) ==
    /\ cmd[c].pc = "write"
    /\ \/ /\ tmp' = [tmp EXCEPT ![c] = dropInContent(cmd[c].addr)]
          /\ Goto(c, "rename")
       \/ Discard(c) /\ End(c, "failed", TRUE)
    /\ UNCHANGED <<listen, dropIn, unitVars, unread>>

(* Closing, changing the mode and renaming; each may fail.                 *)
Rename(c) ==
    /\ cmd[c].pc = "rename"
    /\ \/ dropIn' = tmp[c] /\ Goto(c, "restart")
       \/ End(c, "failed", TRUE) /\ UNCHANGED dropIn
    /\ Discard(c)
    /\ UNCHANGED <<listen, unitVars, unread>>

(* disconnect.                                                             *)
StatDropIn(c) ==
    /\ cmd[c].pc = "stat"
    /\ \/ dropIn = NoFile /\ End(c, "not connected", routes = NoFile)
       \/ dropIn # NoFile /\ Goto(c, "remove")
    /\ UNCHANGED <<listen, dropIn, tmp, unitVars, unread>>

RemoveDropIn(c) ==
    /\ cmd[c].pc = "remove"
    /\ \/ dropIn # NoFile /\ dropIn' = NoFile /\ Goto(c, "check")
       \/ End(c, "failed", TRUE) /\ UNCHANGED dropIn
    /\ UNCHANGED <<listen, tmp, unitVars, unread>>

(* Mutant: no restart, as if the resolver watched its files.               *)
CheckNever(c) ==
    /\ cmd[c].pc = "check" /\ End(c, "disconnected", routes = NoFile)
    /\ UNCHANGED unread

(* A resolver that has read the file and is not active yet is left alone.  *)
Check(c) ==
    /\ cmd[c].pc = "check"
    /\ \/ unit = "active" /\ Goto(c, "restart") /\ UNCHANGED unread
       \/ /\ unit # "active"
          /\ End(c, "disconnected", routes = NoFile)
          /\ unread' = (unread \/ unit = "starting")

CheckActive(c) ==
    /\ Check(c)
    /\ UNCHANGED <<listen, dropIn, tmp, unitVars>>

(* restartResolved asks for the restart and waits for it.                  *)
Restart(c) ==
    /\ cmd[c].pc = "restart"
    /\ \/ due' = TRUE /\ Goto(c, "waiting") /\ UNCHANGED unread
       \/ End(c, "failed", TRUE) /\ unread' = TRUE /\ UNCHANGED due
    /\ UNCHANGED <<listen, dropIn, tmp, unit, routes>>

(* What a connect or a disconnect reports once the restart is done.        *)
Reported(command) ==
    IF command.addr # NoFile
        THEN Ended(command, "connected", routes # NoFile /\ Arrives(routes, command.addr))
        ELSE Ended(command, "disconnected", routes = NoFile)

(* The end of a command that is interrupted.  It leaves its temporary file *)
(* behind, under a name that nothing reads or writes again; a restart it   *)
(* waits for goes on.                                                      *)
Kill(c) ==
    /\ Running(c)
    /\ unread' = (unread \/ cmd[c].pc \in {"check", "restart"})
    /\ tmp' = [tmp EXCEPT ![c] = NoFile]
    /\ End(c, "killed", TRUE)
    /\ UNCHANGED <<listen, dropIn, unitVars>>

-----------------------------------------------------------------------------
(* The environment: corenetd, and systemd with the resolver.               *)
DaemonChanges ==
    /\ listen' \in DNSAddrs \cup {Disabled, Down}
    /\ UNCHANGED <<dropIn, tmp, unitVars, cmd, unread>>

(* By itself, or because a restart is due.                                 *)
ResolverStops ==
    /\ unit' = "inactive" /\ routes' = NoFile
    /\ UNCHANGED <<listen, dropIn, tmp, due, cmd, unread>>

ResolverStarts ==
    /\ unit = "inactive"
    /\ unit' = "starting" /\ routes' = dropIn
    /\ due' = FALSE /\ unread' = FALSE
    /\ UNCHANGED <<listen, dropIn, tmp, cmd>>

Waiting(c) == cmd[c].pc = "waiting"

(* The restart is done, and whoever waits for it is told.  One asked for   *)
(* while the resolver was already starting makes systemd start it again.   *)
ResolverReady ==
    /\ unit = "starting" /\ unit' = "active"
    /\ cmd' = [c \in Commands |->
                 IF Waiting(c) /\ ~due THEN Reported(cmd[c]) ELSE cmd[c]]
    /\ UNCHANGED <<listen, dropIn, tmp, due, routes, unread>>

(* The resolver may have been started, stopped or left as it was.          *)
RestartFails ==
    /\ due \/ \E c \in Commands : Waiting(c)
    /\ due' = FALSE /\ unread' = (unread \/ due)
    /\ cmd' = [c \in Commands |->
                 IF Waiting(c) THEN Ended(cmd[c], "failed", TRUE) ELSE cmd[c]]
    /\ UNCHANGED <<listen, dropIn, tmp, unit, routes>>

Resolved == ResolverStops \/ ResolverStarts \/ ResolverReady \/ RestartFails

Step(c) ==
    \/ GetStatus(c) \/ IsActive(c) \/ Create(c) \/ Write(c) \/ Rename(c)
    \/ StatDropIn(c) \/ RemoveDropIn(c) \/ CheckActive(c) \/ Restart(c)

Next ==
    \/ \E c \in Commands : Begin(c, "status") \/ Begin(c, "stat") \/ Step(c) \/ Kill(c)
    \/ DaemonChanges \/ Resolved

Spec == Init /\ [][Next]_vars

-----------------------------------------------------------------------------
Contents == {dropInContent(a) : a \in DNSAddrs}

(* A written file is a file.                                               *)
ASSUME FileAssumption == NoFile \notin Contents

Labels ==
    {"idle", "status", "active", "create", "write", "rename", "stat", "remove",
     "check", "restart", "waiting"}

Outcomes ==
    {"none", "failed", "killed", "connected", "disconnected", "not connected"}

Command ==
    [pc : Labels, addr : DNSAddrs \cup {NoFile}, outcome : Outcomes,
     overlapped : BOOLEAN, truth : BOOLEAN]

(* Type invariant; no error path leaves a temporary file behind            *)
(* (connect.go:143).                                                       *)
TypeOK ==
    /\ listen \in DNSAddrs \cup {Disabled, Down}
    /\ unit \in {"inactive", "starting", "active"}
    /\ due \in BOOLEAN
    /\ unread \in BOOLEAN
    /\ cmd \in [Commands -> Command]
    /\ tmp \in [Commands -> Contents \cup {NoFile, Partial}]
    /\ \A c \in Commands :
          tmp[c] # NoFile => cmd[c].pc \in {"write", "rename"}

(* A half-written configuration is never visible to the resolver, whenever *)
(* a command is killed or fails and however commands overlap (connect.go:  *)
(* 133-156).                                                               *)
NeverHalfWritten == {dropIn, routes} \subseteq Contents \cup {NoFile}

(* The resolver has read the file that is there, and what corenet status   *)
(* calls connected is routed, unless a restart is about to come, failed or *)
(* was cut off, or a disconnect found the resolver still starting, which is*)
(* not active, and left it alone: no other order of commands and of the    *)
(* resolver's own restarts leaves the two apart (connect.go:43-48, 66-73,  *)
(* 80-85, 120-131).                                                        *)
InSync ==
    /\ unit # "inactive" /\ ~unread /\ ~due
    /\ \A c \in Commands : cmd[c].pc \notin {"check", "restart"}
    =>  /\ routes = dropIn
        /\ resolutionState = "connected" <=> routes # NoFile

(* A connect that no other command overlapped and that reported success    *)
(* routes .core to where corenetd was listening (connect.go:30-50, 87-104).*)
ConnectedIsRouted ==
    \A c \in Commands :
        cmd[c].outcome = "connected" /\ ~cmd[c].overlapped => cmd[c].truth

(* As documented (specs-0.1.md section 5, "idempotent"; the usage text,    *)
(* "stop resolving .core names"): a disconnect that no other command       *)
(* overlapped and that reported success has the resolver route nothing.    *)
DisconnectedIsUnrouted ==
    \A c \in Commands :
        cmd[c].outcome \in {"disconnected", "not connected"} /\ ~cmd[c].overlapped =>
            cmd[c].truth
=============================================================================
