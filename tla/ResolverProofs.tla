--------------------------- MODULE ResolverProofs ---------------------------
(***************************************************************************)
(* For any number of connect and disconnect commands that overlap, fail and*)
(* are killed, and a resolver that takes its time to stop and to start: it *)
(* never reads a half-written file, and what it has read is what is there  *)
(* unless a restart is still to come, failed, was cut off or was left out. *)
(*                                                                         *)
(* The invariant adds what each command carries: an address it was told    *)
(* until the file is in place (Told), and a complete temporary file by the *)
(* time it is renamed (Complete).                                          *)
(***************************************************************************)
EXTENDS Resolver, TLAPS

Told ==
    \A c \in Commands :
        cmd[c].pc \in {"active", "create", "write", "rename"} =>
            cmd[c].addr \in DNSAddrs

Complete == \A c \in Commands : cmd[c].pc = "rename" => tmp[c] \in Contents

Pending == \E c \in Commands : cmd[c].pc \in {"check", "restart"}

Read == unit # "inactive" /\ ~unread /\ ~due /\ ~Pending => routes = dropIn

IInv == TypeOK /\ Told /\ Complete /\ NeverHalfWritten /\ Read

(* A command moves to another label; the others do not.                    *)
LEMMA GotoOK ==
    ASSUME cmd \in [Commands -> Command], NEW c \in Commands,
           NEW pc \in Labels, Goto(c, pc)
    PROVE  /\ cmd' \in [Commands -> Command]
           /\ cmd'[c].pc = pc
           /\ cmd'[c].addr = cmd[c].addr
           /\ cmd'[c].overlapped = cmd[c].overlapped
           /\ cmd'[c].outcome = cmd[c].outcome
           /\ cmd'[c].truth = cmd[c].truth
           /\ \A d \in Commands \ {c} : cmd'[d] = cmd[d]
  BY DEF Goto, Command

(* What is left of a command that ends.                                    *)
LEMMA EndedOK ==
    ASSUME NEW r \in Command, NEW outcome \in Outcomes, NEW truth \in BOOLEAN
    PROVE  /\ Ended(r, outcome, truth) \in Command
           /\ Ended(r, outcome, truth).pc = "idle"
           /\ Ended(r, outcome, truth).overlapped = r.overlapped
           /\ Ended(r, outcome, truth).outcome = outcome
           /\ Ended(r, outcome, truth).truth = truth
  BY DEF Ended, Command, Labels

(* A command ends with what it reports; the others go on.                  *)
LEMMA EndOK ==
    ASSUME cmd \in [Commands -> Command], NEW c \in Commands,
           NEW outcome \in Outcomes, NEW truth \in BOOLEAN,
           End(c, outcome, truth)
    PROVE  /\ cmd' \in [Commands -> Command]
           /\ cmd'[c].pc = "idle"
           /\ cmd'[c].overlapped = cmd[c].overlapped
           /\ cmd'[c].outcome = outcome
           /\ cmd'[c].truth = truth
           /\ \A d \in Commands \ {c} : cmd'[d] = cmd[d]
  BY EndedOK DEF End

(* A step of one command that touches no file and is not the restart: the  *)
(* command ends or moves to a label where it holds an address it needs.    *)
LEMMA QuietStep ==
    ASSUME IInv, NEW c \in Commands,
           UNCHANGED <<dropIn, unit, due, routes, unread, listen>>,
           cmd' \in [Commands -> Command],
           \A d \in Commands \ {c} : cmd'[d] = cmd[d] /\ tmp'[d] = tmp[d],
           tmp' \in [Commands -> Contents \cup {NoFile, Partial}],
           tmp'[c] # NoFile => cmd'[c].pc \in {"write", "rename"},
           cmd'[c].pc \in {"active", "create", "write", "rename"} =>
               cmd'[c].addr \in DNSAddrs,
           cmd'[c].pc = "rename" => tmp'[c] \in Contents,
           cmd[c].pc \in {"check", "restart"} =>
               cmd'[c].pc \in {"check", "restart"} \/ unit = "inactive"
    PROVE  IInv'
<1> USE DEF IInv
<1>1. TypeOK'
  BY DEF TypeOK, Contents
<1>2. Told'
  BY DEF Told
<1>3. Complete'
  BY DEF Complete, Contents
<1>4. NeverHalfWritten'
  BY DEF NeverHalfWritten, Contents
<1>5. Read'
  BY DEF Read, Pending
<1> QED
  BY <1>1, <1>2, <1>3, <1>4, <1>5

LEMMA InitOK == Init => IInv
<1> SUFFICES ASSUME Init PROVE IInv
  OBVIOUS
<1>1. TypeOK
  BY DEF Init, TypeOK, Idle, Command, Labels, Outcomes
<1>2. Told /\ Complete
  BY DEF Init, Told, Complete, Idle
<1>3. NeverHalfWritten /\ Read
  BY DEF Init, NeverHalfWritten, Read
<1> QED
  BY <1>1, <1>2, <1>3 DEF IInv

(* Another command begins (connect.go:22, 58).                             *)
LEMMA BeginOK ==
    ASSUME IInv, NEW c \in Commands, NEW pc \in {"status", "stat"}, Begin(c, pc)
    PROVE  IInv'
<1> USE DEF IInv
<1>1. UNCHANGED <<listen, dropIn, tmp, unit, due, routes, unread>> /\ cmd[c].pc = "idle"
  BY DEF Begin, Running, unitVars
<1>2. cmd' \in [Commands -> Command]
  BY ZenonT(60) DEF Begin, TypeOK, Command, Labels, Outcomes, Idle, Running
<1>3. cmd'[c].pc = pc /\ \A d \in Commands \ {c} : /\ cmd'[d].pc = cmd[d].pc
                                                   /\ cmd'[d].addr = cmd[d].addr
  BY DEF Begin, Idle, TypeOK, Command
<1>4. TypeOK'
  BY <1>1, <1>2, <1>3 DEF TypeOK, Contents
<1>5. Told'
  BY <1>3 DEF Told
<1>6. Complete'
  BY <1>1, <1>3 DEF Complete, Contents
<1>7. NeverHalfWritten' /\ Read'
  BY <1>1, <1>3 DEF NeverHalfWritten, Contents, Read, Pending
<1> QED
  BY <1>4, <1>5, <1>6, <1>7

(* connect asks corenetd for its DNS address (connect.go:30-38).           *)
LEMMA GetStatusOK ==
    ASSUME IInv, NEW c \in Commands, GetStatus(c) PROVE IInv'
<1> USE DEF IInv
<1>1. /\ cmd[c].pc = "status" /\ cmd \in [Commands -> Command] /\ tmp[c] = NoFile
      /\ UNCHANGED <<listen, dropIn, tmp, unit, due, routes, unread>>
  BY DEF GetStatus, TypeOK, unitVars
<1>2. CASE End(c, "failed", TRUE)
  BY <1>1, <1>2, EndOK, QuietStep, ZenonT(60) DEF TypeOK, Outcomes
<1>3. CASE /\ listen \notin {Disabled, Down}
           /\ cmd' = [cmd EXCEPT ![c].pc = "active", ![c].addr = listen]
  <2>1. listen \in DNSAddrs
    BY <1>3 DEF TypeOK
  <2>2. /\ cmd' \in [Commands -> Command]
        /\ cmd'[c].pc = "active" /\ cmd'[c].addr \in DNSAddrs
        /\ \A d \in Commands \ {c} : cmd'[d] = cmd[d]
    BY <1>1, <1>3, <2>1, ZenonT(60) DEF Command, Labels
  <2> QED
    BY <1>1, <2>2, QuietStep DEF TypeOK
<1> QED
  BY <1>2, <1>3 DEF GetStatus

(* connect goes on only while the resolver is running (connect.go:39-42).  *)
LEMMA IsActiveOK ==
    ASSUME IInv, NEW c \in Commands, IsActive(c) PROVE IInv'
<1> USE DEF IInv
<1>1. /\ cmd[c].pc = "active" /\ cmd \in [Commands -> Command] /\ tmp[c] = NoFile
      /\ cmd[c].addr \in DNSAddrs
      /\ UNCHANGED <<listen, dropIn, tmp, unit, due, routes, unread>>
  BY DEF IsActive, TypeOK, Told, unitVars
<1>2. CASE End(c, "failed", TRUE)
  BY <1>1, <1>2, EndOK, QuietStep, ZenonT(60) DEF TypeOK, Outcomes
<1>3. CASE Goto(c, "create")
  BY <1>1, <1>3, GotoOK, QuietStep DEF TypeOK, Labels
<1> QED
  BY <1>2, <1>3 DEF IsActive

(* writeFileAtomic creates its temporary file (connect.go:136-142).        *)
LEMMA CreateOK ==
    ASSUME IInv, NEW c \in Commands, Create(c) PROVE IInv'
<1> USE DEF IInv
<1>1. /\ cmd[c].pc = "create" /\ cmd \in [Commands -> Command] /\ tmp[c] = NoFile
      /\ cmd[c].addr \in DNSAddrs
      /\ UNCHANGED <<listen, dropIn, unit, due, routes, unread>>
  BY DEF Create, TypeOK, Told, CreateTemp, unitVars
<1>2. CASE End(c, "failed", TRUE) /\ UNCHANGED tmp
  BY <1>1, <1>2, EndOK, QuietStep, ZenonT(60) DEF TypeOK, Outcomes
<1>3. CASE CreateTemp(c) /\ Goto(c, "write")
  <2>1. /\ tmp' \in [Commands -> Contents \cup {NoFile, Partial}]
        /\ \A d \in Commands \ {c} : tmp'[d] = tmp[d]
    BY <1>3 DEF CreateTemp, TypeOK
  <2> QED
    BY <1>1, <1>3, <2>1, GotoOK, QuietStep DEF Labels
<1> QED
  BY <1>2, <1>3 DEF Create

(* writeFileAtomic writes it, or removes it (connect.go:143-148).          *)
LEMMA WriteOK ==
    ASSUME IInv, NEW c \in Commands, Write(c) PROVE IInv'
<1> USE DEF IInv
<1>1. /\ cmd[c].pc = "write" /\ cmd \in [Commands -> Command]
      /\ cmd[c].addr \in DNSAddrs
      /\ UNCHANGED <<listen, dropIn, unit, due, routes, unread>>
  BY DEF Write, TypeOK, Told, unitVars
<1>2. CASE Discard(c) /\ End(c, "failed", TRUE)
  <2>1. /\ tmp' \in [Commands -> Contents \cup {NoFile, Partial}]
        /\ tmp'[c] = NoFile
        /\ \A d \in Commands \ {c} : tmp'[d] = tmp[d]
    BY <1>2 DEF Discard, TypeOK
  <2> QED
    BY <1>1, <1>2, <2>1, EndOK, QuietStep DEF Outcomes
<1>3. CASE /\ tmp' = [tmp EXCEPT ![c] = dropInContent(cmd[c].addr)]
           /\ Goto(c, "rename")
  <2>1. dropInContent(cmd[c].addr) \in Contents
    BY <1>1 DEF Contents
  <2>2. /\ tmp' \in [Commands -> Contents \cup {NoFile, Partial}]
        /\ tmp'[c] \in Contents
        /\ \A d \in Commands \ {c} : tmp'[d] = tmp[d]
    BY <1>3, <2>1 DEF TypeOK
  <2> QED
    BY <1>1, <1>3, <2>2, GotoOK, QuietStep DEF Labels
<1> QED
  BY <1>2, <1>3 DEF Write

(* The complete file takes the place of the drop-in (connect.go:149-156).  *)
LEMMA RenameOK ==
    ASSUME IInv, NEW c \in Commands, Rename(c) PROVE IInv'
<1> USE DEF IInv
<1>1. /\ cmd[c].pc = "rename" /\ cmd \in [Commands -> Command]
      /\ cmd[c].addr \in DNSAddrs /\ tmp[c] \in Contents
      /\ UNCHANGED <<listen, unit, due, routes, unread>>
  BY DEF Rename, TypeOK, Told, Complete, unitVars
<1>2. /\ tmp' \in [Commands -> Contents \cup {NoFile, Partial}]
      /\ tmp'[c] = NoFile
      /\ \A d \in Commands \ {c} : tmp'[d] = tmp[d]
  BY DEF Rename, Discard, TypeOK
<1>3. CASE End(c, "failed", TRUE) /\ UNCHANGED dropIn
  BY <1>1, <1>2, <1>3, EndOK, QuietStep DEF Outcomes
<1>4. CASE dropIn' = tmp[c] /\ Goto(c, "restart")
  <2>1. /\ cmd' \in [Commands -> Command]
        /\ cmd'[c].pc = "restart"
        /\ \A d \in Commands \ {c} : cmd'[d] = cmd[d]
    BY <1>1, <1>4, GotoOK DEF Labels
  <2>2. TypeOK'
    BY <1>1, <1>2, <2>1 DEF TypeOK, Contents
  <2>3. Told'
    BY <2>1 DEF Told
  <2>4. Complete'
    BY <1>2, <2>1 DEF Complete, Contents
  <2>5. NeverHalfWritten'
    BY <1>1, <1>4 DEF NeverHalfWritten, Contents
  <2>6. Read'
    BY <2>1 DEF Read, Pending
  <2> QED
    BY <2>2, <2>3, <2>4, <2>5, <2>6
<1> QED
  BY <1>3, <1>4 DEF Rename

(* disconnect looks for the file (connect.go:62-65).                       *)
LEMMA StatOK ==
    ASSUME IInv, NEW c \in Commands, StatDropIn(c) PROVE IInv'
<1> USE DEF IInv
<1>1. /\ cmd[c].pc = "stat" /\ cmd \in [Commands -> Command] /\ tmp[c] = NoFile
      /\ UNCHANGED <<listen, dropIn, tmp, unit, due, routes, unread>>
  BY DEF StatDropIn, TypeOK, unitVars
<1>2. CASE End(c, "not connected", routes = NoFile)
  BY <1>1, <1>2, EndOK, QuietStep DEF TypeOK, Outcomes
<1>3. CASE Goto(c, "remove")
  BY <1>1, <1>3, GotoOK, QuietStep DEF TypeOK, Labels
<1> QED
  BY <1>2, <1>3 DEF StatDropIn

(* disconnect removes it (connect.go:66-68).                               *)
LEMMA RemoveOK ==
    ASSUME IInv, NEW c \in Commands, RemoveDropIn(c) PROVE IInv'
<1> USE DEF IInv
<1>1. /\ cmd[c].pc = "remove" /\ cmd \in [Commands -> Command] /\ tmp[c] = NoFile
      /\ UNCHANGED <<listen, tmp, unit, due, routes, unread>>
  BY DEF RemoveDropIn, TypeOK, unitVars
<1>2. CASE End(c, "failed", TRUE) /\ UNCHANGED dropIn
  BY <1>1, <1>2, EndOK, QuietStep, ZenonT(60) DEF TypeOK, Outcomes
<1>3. CASE dropIn' = NoFile /\ Goto(c, "check")
  <2>1. /\ cmd' \in [Commands -> Command]
        /\ cmd'[c].pc = "check"
        /\ \A d \in Commands \ {c} : cmd'[d] = cmd[d]
    BY <1>1, <1>3, GotoOK DEF Labels
  <2>2. TypeOK'
    BY <1>1, <2>1 DEF TypeOK, Contents
  <2>3. Told' /\ Complete'
    BY <1>1, <2>1 DEF Told, Complete, Contents
  <2>4. NeverHalfWritten' /\ Read'
    BY <1>1, <1>3, <2>1 DEF NeverHalfWritten, Contents, Read, Pending
  <2> QED
    BY <2>2, <2>3, <2>4
<1> QED
  BY <1>2, <1>3 DEF RemoveDropIn

(* What a command does last, or before it waits: the resolver has read the *)
(* file, or a note is left that it has not.                                *)
LEMMA LastStep ==
    ASSUME IInv, NEW c \in Commands, UNCHANGED <<dropIn, listen, unit, routes>>,
           cmd' \in [Commands -> Command], cmd'[c].pc \in {"idle", "waiting"},
           \A d \in Commands \ {c} : cmd'[d] = cmd[d] /\ tmp'[d] = tmp[d],
           tmp' \in [Commands -> Contents \cup {NoFile, Partial}],
           tmp'[c] = NoFile,
           due' \in BOOLEAN, unread' \in BOOLEAN,
           unit # "inactive" /\ ~unread' /\ ~due' =>
               ~unread /\ ~due /\ cmd[c].pc \notin {"check", "restart"}
    PROVE  IInv'
<1> USE DEF IInv
<1>1. TypeOK'
  BY DEF TypeOK, Contents
<1>2. Told' /\ Complete'
  BY DEF Told, Complete, Contents
<1>3. NeverHalfWritten'
  BY DEF NeverHalfWritten, Contents
<1>4. Read'
  BY DEF Read, Pending
<1> QED
  BY <1>1, <1>2, <1>3, <1>4

(* disconnect restarts the resolver only if it is active (connect.go:69-75,*)
(* 121).                                                                   *)
LEMMA CheckOK ==
    ASSUME IInv, NEW c \in Commands, CheckActive(c) PROVE IInv'
<1> USE DEF IInv
<1>1. /\ cmd[c].pc = "check" /\ cmd \in [Commands -> Command] /\ tmp[c] = NoFile
      /\ tmp \in [Commands -> Contents \cup {NoFile, Partial}]
      /\ UNCHANGED <<listen, dropIn, tmp, unit, due, routes>>
      /\ unit \in {"inactive", "starting", "active"}
      /\ due \in BOOLEAN /\ unread \in BOOLEAN
  BY DEF CheckActive, Check, TypeOK, unitVars
<1>2. CASE /\ unit # "active" /\ End(c, "disconnected", routes = NoFile)
           /\ unread' = (unread \/ unit = "starting")
  <2>1. /\ unread' \in BOOLEAN /\ due' \in BOOLEAN
        /\ unit # "inactive" => unread' = TRUE
    BY <1>1, <1>2
  <2> QED
    BY <1>1, <1>2, <2>1, EndOK, LastStep DEF Outcomes
<1>3. CASE Goto(c, "restart") /\ UNCHANGED unread
  BY <1>1, <1>3, GotoOK, QuietStep DEF TypeOK, Labels
<1> QED
  BY <1>2, <1>3 DEF CheckActive, Check

(* The restart is asked for, or cannot be (connect.go:124-127).            *)
LEMMA RestartOK ==
    ASSUME IInv, NEW c \in Commands, Restart(c) PROVE IInv'
<1> USE DEF IInv
<1>1. /\ cmd[c].pc = "restart" /\ cmd \in [Commands -> Command] /\ tmp[c] = NoFile
      /\ tmp \in [Commands -> Contents \cup {NoFile, Partial}]
      /\ UNCHANGED <<listen, dropIn, tmp, unit, routes>>
      /\ due \in BOOLEAN /\ unread \in BOOLEAN
  BY DEF Restart, TypeOK
<1>2. CASE due' = TRUE /\ Goto(c, "waiting") /\ UNCHANGED unread
  BY <1>1, <1>2, GotoOK, LastStep DEF Labels
<1>3. CASE End(c, "failed", TRUE) /\ unread' = TRUE /\ UNCHANGED due
  BY <1>1, <1>3, EndOK, LastStep DEF Outcomes
<1> QED
  BY <1>2, <1>3 DEF Restart

(* A command is killed at any of its steps.                                *)
LEMMA KillOK ==
    ASSUME IInv, NEW c \in Commands, Kill(c) PROVE IInv'
<1> USE DEF IInv
<1>1. /\ cmd \in [Commands -> Command] /\ End(c, "killed", TRUE)
      /\ UNCHANGED <<listen, dropIn, unit, due, routes>>
      /\ due \in BOOLEAN
  BY DEF Kill, TypeOK, unitVars
<1>2. /\ tmp' \in [Commands -> Contents \cup {NoFile, Partial}]
      /\ tmp'[c] = NoFile
      /\ \A d \in Commands \ {c} : tmp'[d] = tmp[d]
  BY DEF Kill, TypeOK
<1>3. unread' \in BOOLEAN
  BY DEF Kill, TypeOK
<1>4. ~unread' => ~unread /\ cmd[c].pc \notin {"check", "restart"}
  BY DEF Kill
<1> QED
  BY <1>1, <1>2, <1>3, <1>4, EndOK, LastStep DEF Outcomes

(* The end of a restart ends the commands that wait for it, and no other.  *)
LEMMA WaitersOnly ==
    ASSUME IInv, ResolverReady \/ RestartFails
    PROVE  /\ cmd' \in [Commands -> Command]
           /\ \A c \in Commands :
                 \/ cmd'[c] = cmd[c]
                 \/ /\ Waiting(c) /\ cmd'[c].pc = "idle"
                    /\ cmd'[c].overlapped = cmd[c].overlapped
                    /\ cmd'[c].outcome = "connected" =>
                          /\ ResolverReady /\ ~due /\ cmd[c].addr # NoFile
                          /\ cmd'[c].truth =
                                (routes # NoFile /\ Arrives(routes, cmd[c].addr))
<1>1. cmd \in [Commands -> Command]
  BY DEF IInv, TypeOK
<1>2. ASSUME NEW c \in Commands, cmd[c].addr # NoFile
      PROVE  /\ Reported(cmd[c]) \in Command
             /\ Reported(cmd[c]).pc = "idle"
             /\ Reported(cmd[c]).overlapped = cmd[c].overlapped
             /\ Reported(cmd[c]).truth =
                   (routes # NoFile /\ Arrives(routes, cmd[c].addr))
  <2>1. (routes # NoFile /\ Arrives(routes, cmd[c].addr)) \in BOOLEAN
    BY DEF Arrives
  <2> QED
    BY <1>1, <1>2, <2>1, EndedOK, ZenonT(60) DEF Reported, Outcomes
<1>3. ASSUME NEW c \in Commands, cmd[c].addr = NoFile
      PROVE  /\ Reported(cmd[c]) \in Command
             /\ Reported(cmd[c]).pc = "idle"
             /\ Reported(cmd[c]).overlapped = cmd[c].overlapped
             /\ Reported(cmd[c]).outcome = "disconnected"
  BY <1>1, <1>3, EndedOK, ZenonT(60) DEF Reported, Outcomes
<1>4. CASE ResolverReady
  <2>1. cmd' = [c \in Commands |->
                  IF Waiting(c) /\ ~due THEN Reported(cmd[c]) ELSE cmd[c]]
    BY <1>4 DEF ResolverReady
  <2> QED
    BY <1>1, <1>2, <1>3, <1>4, <2>1
<1>5. CASE RestartFails
  <2>1. cmd' = [c \in Commands |->
                  IF Waiting(c) THEN Ended(cmd[c], "failed", TRUE) ELSE cmd[c]]
    BY <1>5 DEF RestartFails
  <2>2. ASSUME NEW c \in Commands
        PROVE  /\ Ended(cmd[c], "failed", TRUE) \in Command
               /\ Ended(cmd[c], "failed", TRUE).pc = "idle"
               /\ Ended(cmd[c], "failed", TRUE).overlapped = cmd[c].overlapped
               /\ Ended(cmd[c], "failed", TRUE).outcome = "failed"
    BY <1>1, EndedOK, ZenonT(60) DEF Outcomes
  <2> QED
    BY <1>1, <2>1, <2>2
<1> QED
  BY <1>4, <1>5

LEMMA WaitersOK ==
    ASSUME IInv, ResolverReady \/ RestartFails PROVE IInv'
<1> USE DEF IInv
<1>1. UNCHANGED <<listen, dropIn, tmp, routes>>
  BY DEF ResolverReady, RestartFails
<1>2. \A c \in Commands :
         cmd'[c] = cmd[c] \/ (cmd[c].pc = "waiting" /\ cmd'[c].pc = "idle")
  BY WaitersOnly DEF Waiting
<1>3. /\ unit' \in {"inactive", "starting", "active"}
      /\ due' \in BOOLEAN /\ unread' \in BOOLEAN
      /\ unit' # "inactive" => unit # "inactive"
      /\ ~unread' /\ ~due' => ~unread /\ ~due
  BY DEF ResolverReady, RestartFails, TypeOK
<1>4. TypeOK'
  BY <1>1, <1>2, <1>3, WaitersOnly DEF TypeOK, Contents
<1>5. Told' /\ Complete'
  BY <1>1, <1>2 DEF Told, Complete, Contents
<1>6. NeverHalfWritten'
  BY <1>1 DEF NeverHalfWritten, Contents
<1>7. Read'
  BY <1>1, <1>2, <1>3 DEF Read, Pending
<1> QED
  BY <1>4, <1>5, <1>6, <1>7

(* corenetd and systemd-resolved by themselves.                            *)
LEMMA WorldOK ==
    ASSUME IInv, DaemonChanges \/ ResolverStops \/ ResolverStarts PROVE IInv'
<1> USE DEF IInv, unitVars
<1>1. UNCHANGED <<cmd, tmp, dropIn>>
  BY DEF DaemonChanges, ResolverStops, ResolverStarts
<1>2. TypeOK'
  BY <1>1 DEF TypeOK, Contents, DaemonChanges, ResolverStops, ResolverStarts
<1>3. Told' /\ Complete'
  BY <1>1 DEF Told, Complete, Contents
<1>4. NeverHalfWritten'
  BY <1>1 DEF NeverHalfWritten, Contents, DaemonChanges, ResolverStops, ResolverStarts
<1>5. Read'
  BY <1>1 DEF Read, Pending, DaemonChanges, ResolverStops, ResolverStarts
<1> QED
  BY <1>2, <1>3, <1>4, <1>5

LEMMA NextOK == IInv /\ [Next]_vars => IInv'
<1> SUFFICES ASSUME IInv, [Next]_vars PROVE IInv'
  OBVIOUS
<1>1. CASE UNCHANGED vars
  BY <1>1 DEF IInv, TypeOK, Told, Complete, NeverHalfWritten, Read, Pending,
              Contents, vars, unitVars
<1>2. ASSUME NEW c \in Commands, Step(c) PROVE IInv'
  BY <1>2, GetStatusOK, IsActiveOK, CreateOK, WriteOK, RenameOK, StatOK, RemoveOK,
     CheckOK, RestartOK DEF Step
<1>3. CASE Next
  BY <1>2, <1>3, BeginOK, KillOK, WorldOK, WaitersOK DEF Next, Resolved
<1> QED
  BY <1>1, <1>3

(* A half-written configuration is never visible, whatever fails and       *)
(* whichever commands overlap (connect.go:133-156).                        *)
THEOREM NeverVisibleHalfWritten == Spec => []NeverHalfWritten
<1>1. IInv => NeverHalfWritten
  BY DEF IInv
<1> QED
  BY InitOK, NextOK, <1>1, PTL DEF Spec

(* However commands, the steps of a restart and the resolver's own stops   *)
(* and starts interleave, the resolver has read the file that is there,    *)
(* unless a restart is due, failed or was cut off, or a disconnect found   *)
(* the resolver still starting and left its restart out (connect.go:43-48, *)
(* 66-73, 80-85, 120-131).                                                 *)
THEOREM ReadOrReported == Spec => []InSync
<1>1. IInv => InSync
  BY DEF IInv, Read, Pending, InSync, resolutionState
<1> QED
  BY InitOK, NextOK, <1>1, PTL DEF Spec

(* Every command leaves its temporary file only to its write and rename    *)
(* (connect.go:143).                                                       *)
THEOREM TypeCorrect == Spec => []TypeOK
<1>1. IInv => TypeOK
  BY DEF IInv
<1> QED
  BY InitOK, NextOK, <1>1, PTL DEF Spec
-----------------------------------------------------------------------------
(* What a connect that ran alone reports.  A command that is still not     *)
(* overlapped is the only one that runs (Alone), so nobody else touches the*)
(* drop-in from its rename to the end of its restart (InPlace), and the    *)
(* resolver it waits for has read that file (Fresh); the file it renames   *)
(* says the address it was told (Written), and only a connect was told one *)
(* (Disconnecting).                                                        *)

Alone ==
    \A c, d \in Commands :
        Running(c) /\ ~cmd[c].overlapped /\ Running(d) => c = d

Disconnecting ==
    \A c \in Commands :
        cmd[c].pc \in {"stat", "remove", "check"} => cmd[c].addr = NoFile

Written ==
    \A c \in Commands :
        cmd[c].pc = "rename" => tmp[c] = dropInContent(cmd[c].addr)

InPlace ==
    \A c \in Commands :
        /\ cmd[c].pc \in {"restart", "waiting"}
        /\ ~cmd[c].overlapped /\ cmd[c].addr # NoFile
        =>  /\ cmd[c].addr \in DNSAddrs
            /\ dropIn = dropInContent(cmd[c].addr)

Fresh ==
    \A c \in Commands :
        Waiting(c) /\ ~cmd[c].overlapped /\ ~due /\ unit # "inactive" =>
            routes = dropIn

RInv ==
    /\ IInv /\ Alone /\ Disconnecting /\ Written /\ InPlace /\ Fresh
    /\ ConnectedIsRouted

(* The loopback stands in for a server that listens everywhere, so a query *)
(* sent where the drop-in says arrives (connect.go:87-104).                *)
LEMMA ContentArrives ==
    \A a : Arrives(dropInContent(a), a)
  BY DEF Arrives, dropInContent, Wildcards

(* A step of a running command: what it must leave behind for itself.  The *)
(* others, if there are any, are overlapped and are promised nothing.      *)
LEMMA OwnStep ==
    ASSUME RInv, IInv', NEW c \in Commands, Running(c),
           \A d \in Commands \ {c} : cmd'[d] = cmd[d] /\ tmp'[d] = tmp[d],
           cmd'[c].overlapped = cmd[c].overlapped,
           cmd'[c].pc \in {"stat", "remove", "check"} => cmd'[c].addr = NoFile,
           cmd'[c].pc = "rename" => tmp'[c] = dropInContent(cmd'[c].addr),
           cmd'[c].pc \in {"restart", "waiting"} =>
               \/ cmd'[c].overlapped \/ cmd'[c].addr = NoFile
               \/ /\ cmd'[c].addr \in DNSAddrs
                  /\ dropIn' = dropInContent(cmd'[c].addr),
           cmd'[c].pc = "waiting" => due',
           cmd'[c].outcome = "connected" /\ ~cmd'[c].overlapped => cmd'[c].truth
    PROVE  RInv'
<1> USE DEF RInv
<1>1. Alone'
  BY DEF Alone, Running
<1>2. Disconnecting' /\ Written'
  BY DEF Disconnecting, Written
<1>3. InPlace'
  BY DEF InPlace, Alone, Running
<1>4. Fresh'
  BY DEF Fresh, Waiting, Alone, Running
<1>5. ConnectedIsRouted'
  BY DEF ConnectedIsRouted
<1> QED
  BY <1>1, <1>2, <1>3, <1>4, <1>5

LEMMA InitRouted == Init => RInv
  BY InitOK DEF Init, RInv, Alone, Disconnecting, Written, InPlace, Fresh,
                ConnectedIsRouted, Running, Waiting, Idle

(* A command that begins is overlapped, and overlaps, if one is running.   *)
LEMMA BeginRouted ==
    ASSUME RInv, NEW c \in Commands, NEW pc \in {"status", "stat"}, Begin(c, pc)
    PROVE  RInv'
<1> USE DEF RInv
<1>1. IInv' /\ UNCHANGED <<dropIn, tmp, unit, due, routes>> /\ ~Running(c)
  BY BeginOK DEF Begin, unitVars
<1>2. cmd \in [Commands -> Command]
  BY DEF IInv, TypeOK
<1>3. /\ cmd'[c].pc = pc /\ cmd'[c].addr = NoFile /\ cmd'[c].outcome = "none"
      /\ cmd'[c].overlapped = \E e \in Commands : Running(e)
  BY DEF Begin, Idle
<1>4. ASSUME NEW d \in Commands \ {c}
      PROVE  /\ cmd'[d].pc = cmd[d].pc /\ cmd'[d].addr = cmd[d].addr
             /\ cmd'[d].outcome = cmd[d].outcome /\ cmd'[d].truth = cmd[d].truth
             /\ cmd'[d].overlapped = (cmd[d].overlapped \/ Running(d))
  BY <1>2 DEF Begin, Command
<1>5. Alone'
  BY <1>3, <1>4, ZenonT(60) DEF Alone, Running
<1>6. Disconnecting' /\ Written' /\ InPlace'
  BY <1>1, <1>3, <1>4, ZenonT(60) DEF Disconnecting, Written, InPlace, Running
<1>7. Fresh'
  BY <1>1, <1>3, <1>4, ZenonT(60) DEF Fresh, Waiting, Running
<1>8. ConnectedIsRouted'
  BY <1>3, <1>4 DEF ConnectedIsRouted
<1> QED
  BY <1>1, <1>5, <1>6, <1>7, <1>8, SMTT(30)

(* Any step but the restart ends the command with a failure or without     *)
(* claiming to be connected, or takes it to its next label.                *)
LEMMA StepRouted ==
    ASSUME RInv, IInv', NEW c \in Commands,
           Step(c), ~Restart(c)
    PROVE  RInv'
<1> USE DEF RInv
<1>1. cmd \in [Commands -> Command] /\ tmp \in [Commands -> Contents \cup {NoFile, Partial}]
  BY DEF IInv, TypeOK
<1>2. Running(c) /\ \A d \in Commands \ {c} : tmp'[d] = tmp[d]
  BY <1>1 DEF Step, GetStatus, IsActive, Create, CreateTemp, Write, Rename, Discard,
              StatDropIn, RemoveDropIn, CheckActive, Check, Running
<1>3. ASSUME NEW outcome \in Outcomes \ {"connected"}, NEW truth \in BOOLEAN,
             End(c, outcome, truth)
      PROVE  RInv'
  BY <1>1, <1>2, <1>3, EndOK, OwnStep
<1>4. CASE GetStatus(c)
  <2>1. CASE /\ listen \notin {Disabled, Down}
             /\ cmd' = [cmd EXCEPT ![c].pc = "active", ![c].addr = listen]
    <3>1. /\ cmd'[c].pc = "active" /\ cmd'[c].overlapped = cmd[c].overlapped
          /\ cmd'[c].outcome = cmd[c].outcome /\ cmd'[c].truth = cmd[c].truth
          /\ \A d \in Commands \ {c} : cmd'[d] = cmd[d]
      BY <1>1, <2>1 DEF Command
    <3> QED
      BY <1>2, <3>1, OwnStep DEF ConnectedIsRouted
  <2> QED
    BY <1>3, <1>4, <2>1 DEF GetStatus, Outcomes
<1>5. CASE IsActive(c)
  <2>1. CASE Goto(c, "create")
    BY <1>1, <1>2, <2>1, GotoOK, OwnStep DEF ConnectedIsRouted, Labels
  <2> QED
    BY <1>3, <1>5, <2>1 DEF IsActive, Outcomes
<1>6. CASE Create(c)
  <2>1. CASE Goto(c, "write")
    BY <1>1, <1>2, <2>1, GotoOK, OwnStep DEF ConnectedIsRouted, Labels
  <2> QED
    BY <1>3, <1>6, <2>1 DEF Create, Outcomes
<1>7. CASE Write(c)
  <2>1. CASE /\ tmp' = [tmp EXCEPT ![c] = dropInContent(cmd[c].addr)]
             /\ Goto(c, "rename")
    <3>1. tmp'[c] = dropInContent(cmd[c].addr)
      BY <1>1, <2>1
    <3> QED
      BY <1>1, <1>2, <2>1, <3>1, GotoOK, OwnStep DEF ConnectedIsRouted, Labels
  <2> QED
    BY <1>3, <1>7, <2>1 DEF Write, Outcomes
<1>8. CASE Rename(c)
  <2>1. CASE dropIn' = tmp[c] /\ Goto(c, "restart")
    <3>1. cmd[c].addr \in DNSAddrs /\ tmp[c] = dropInContent(cmd[c].addr)
      BY <1>8 DEF Rename, Written, IInv, Told
    <3> QED
      BY <1>1, <1>2, <2>1, <3>1, GotoOK, OwnStep DEF ConnectedIsRouted, Labels
  <2> QED
    BY <1>3, <1>8, <2>1 DEF Rename, Outcomes
<1>9. CASE StatDropIn(c)
  <2>1. CASE Goto(c, "remove")
    BY <1>1, <1>2, <1>9, <2>1, GotoOK, OwnStep, ZenonT(60)
       DEF ConnectedIsRouted, Labels, Disconnecting, StatDropIn
  <2> QED
    BY <1>3, <1>9, <2>1 DEF StatDropIn, Outcomes
<1>10. CASE RemoveDropIn(c)
  <2>1. CASE Goto(c, "check")
    BY <1>1, <1>2, <1>10, <2>1, GotoOK, OwnStep
       DEF ConnectedIsRouted, Labels, Disconnecting, RemoveDropIn
  <2> QED
    BY <1>3, <1>10, <2>1 DEF RemoveDropIn, Outcomes
<1>11. CASE CheckActive(c)
  <2>1. CASE Goto(c, "restart")
    BY <1>1, <1>2, <1>11, <2>1, GotoOK, OwnStep
       DEF ConnectedIsRouted, Labels, Disconnecting, CheckActive, Check
  <2> QED
    BY <1>3, <1>11, <2>1 DEF CheckActive, Check, Outcomes
<1> QED
  BY <1>4, <1>5, <1>6, <1>7, <1>8, <1>9, <1>10, <1>11 DEF Step

(* A connect that nobody overlapped asks for its restart with its own file *)
(* in place.                                                               *)
LEMMA RestartRouted ==
    ASSUME RInv, NEW c \in Commands, Restart(c) PROVE RInv'
<1> USE DEF RInv
<1>1. /\ IInv' /\ cmd \in [Commands -> Command] /\ UNCHANGED <<dropIn, tmp>>
      /\ cmd[c].pc = "restart" /\ Running(c)
  BY RestartOK DEF IInv, TypeOK, Restart, Running
<1>2. CASE due' = TRUE /\ Goto(c, "waiting")
  <2>1. /\ cmd'[c].pc = "waiting" /\ cmd'[c].addr = cmd[c].addr
        /\ cmd'[c].overlapped = cmd[c].overlapped
        /\ cmd'[c].outcome = cmd[c].outcome /\ cmd'[c].truth = cmd[c].truth
        /\ \A d \in Commands \ {c} : cmd'[d] = cmd[d]
    BY <1>1, <1>2, GotoOK DEF Labels
  <2> QED
    BY <1>1, <1>2, <2>1, OwnStep DEF InPlace, ConnectedIsRouted
<1>3. CASE End(c, "failed", TRUE)
  BY <1>1, <1>3, EndOK, OwnStep DEF Outcomes
<1> QED
  BY <1>2, <1>3 DEF Restart

(* When the restart is done the resolver has read the file of a connect    *)
(* that nobody overlapped.                                                 *)
LEMMA WaitersRouted ==
    ASSUME RInv, ResolverReady \/ RestartFails PROVE RInv'
<1> USE DEF RInv
<1>1. IInv' /\ UNCHANGED <<dropIn, tmp, routes>>
  BY WaitersOK DEF ResolverReady, RestartFails
<1>2. ASSUME NEW c \in Commands, cmd'[c] # cmd[c]
      PROVE  /\ Waiting(c) /\ cmd'[c].pc = "idle"
             /\ cmd'[c].overlapped = cmd[c].overlapped
             /\ cmd'[c].outcome = "connected" /\ ~cmd'[c].overlapped => cmd'[c].truth
  <2>1. /\ Waiting(c) /\ cmd'[c].pc = "idle"
        /\ cmd'[c].overlapped = cmd[c].overlapped
        /\ cmd'[c].outcome = "connected" =>
              /\ ResolverReady /\ ~due /\ cmd[c].addr # NoFile
              /\ cmd'[c].truth = (routes # NoFile /\ Arrives(routes, cmd[c].addr))
    BY <1>2, WaitersOnly
  <2>2. ASSUME cmd'[c].outcome = "connected", ~cmd[c].overlapped
        PROVE  cmd'[c].truth
    <3>1. cmd[c].addr \in DNSAddrs /\ dropIn = dropInContent(cmd[c].addr)
      BY <2>1, <2>2 DEF InPlace, Waiting
    <3>2. routes = dropIn
      BY <2>1, <2>2 DEF Fresh, ResolverReady
    <3>3. routes # NoFile
      BY <3>1, <3>2, FileAssumption DEF Contents
    <3> QED
      BY <2>1, <2>2, <3>1, <3>2, <3>3, ContentArrives
  <2> QED
    BY <2>1, <2>2
<1>3. Alone'
  BY <1>2 DEF Alone, Running, Waiting
<1>4. Disconnecting' /\ Written' /\ InPlace'
  BY <1>1, <1>2 DEF Disconnecting, Written, InPlace, Waiting
<1>5. Fresh'
  <2>1. CASE ResolverReady
    BY <1>1, <1>2, <2>1 DEF Fresh, Waiting, ResolverReady
  <2>2. CASE RestartFails
    <3>1. ASSUME NEW c \in Commands, Waiting(c) PROVE cmd'[c].pc = "idle"
      BY <2>2, <3>1, EndedOK, ZenonT(60) DEF RestartFails, IInv, TypeOK, Outcomes
    <3> QED
      BY <1>2, <3>1 DEF Fresh, Waiting
  <2> QED
    BY <2>1, <2>2
<1>6. ConnectedIsRouted'
  BY <1>2 DEF ConnectedIsRouted
<1> QED
  BY <1>1, <1>3, <1>4, <1>5, <1>6

(* corenetd and the resolver by themselves: a resolver that starts reads   *)
(* the file, one that stops has to start again.                            *)
LEMMA WorldRouted ==
    ASSUME RInv, IInv',
           UNCHANGED vars \/ DaemonChanges \/ ResolverStops \/ ResolverStarts
    PROVE  RInv'
<1> USE DEF RInv
<1>1. UNCHANGED <<cmd, tmp, dropIn>>
  BY DEF vars, DaemonChanges, ResolverStops, ResolverStarts
<1>2. Fresh'
  BY <1>1 DEF Fresh, Waiting, vars, unitVars, DaemonChanges, ResolverStops,
              ResolverStarts
<1>3. Alone' /\ Disconnecting' /\ Written' /\ InPlace' /\ ConnectedIsRouted'
  BY <1>1 DEF Alone, Disconnecting, Written, InPlace, ConnectedIsRouted, Running
<1> QED
  BY <1>2, <1>3

(* A command that is killed claims nothing.                                *)
LEMMA KillRouted ==
    ASSUME RInv, NEW c \in Commands, Kill(c) PROVE RInv'
<1> USE DEF RInv
<1>1. /\ IInv' /\ cmd \in [Commands -> Command] /\ Running(c)
      /\ End(c, "killed", TRUE)
      /\ \A d \in Commands \ {c} : tmp'[d] = tmp[d]
  BY KillOK DEF IInv, TypeOK, Kill
<1> QED
  BY <1>1, EndOK, OwnStep DEF Outcomes

LEMMA NextRouted == RInv /\ [Next]_vars => RInv'
<1> SUFFICES ASSUME RInv, [Next]_vars PROVE RInv'
  OBVIOUS
<1>1. RInv => IInv
  BY DEF RInv
<1>2. IInv'
  BY <1>1, NextOK
<1>3. CASE UNCHANGED vars
  BY <1>2, <1>3, WorldRouted
<1>4. CASE Next
  BY <1>2, <1>4, BeginRouted, StepRouted, RestartRouted, KillRouted, WorldRouted,
     WaitersRouted DEF Next, Resolved
<1> QED
  BY <1>3, <1>4

(* A connect that no other command overlapped and that reported success    *)
(* routes .core to where corenetd was listening when it was asked, however *)
(* often corenetd moved, the resolver restarted and earlier commands failed*)
(* (connect.go:30-50, 87-104).                                             *)
THEOREM ConnectTellsTheTruth == Spec => []ConnectedIsRouted
<1>1. RInv => ConnectedIsRouted
  BY DEF RInv
<1> QED
  BY InitRouted, NextRouted, <1>1, PTL DEF Spec
=============================================================================
