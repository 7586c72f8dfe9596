----------------------------- MODULE LiveConfig -----------------------------
(***************************************************************************)
(* What a running daemon promises about its configuration file.  The       *)
(* settings it was started with never change; its services and nodes are   *)
(* those of one valid file, read as a whole; and a request to re-read the  *)
(* file is honoured by a reading that begins after the request, unless the *)
(* daemon ends first.                                                      *)
(***************************************************************************)
CONSTANTS
    FileSystems,  \* what may be found where configurations are looked for
    Flags,        \* values of the -config flag
    Load(_, _),   \* the configuration a file system holds at a path
    Failed(_),    \* whether that is an error
    Settings(_),  \* the part of a configuration that needs a restart
    Unset         \* the settings of a daemon that has not started

VARIABLES
    fs,        \* path -> content
    path,      \* the file to re-read, "" to search for it
    settings,  \* what only a restart changes; Unset before the start
    services,
    nodes,
    asked,     \* the file is to be re-read
    ended

liveVars == <<fs, path, settings, services, nodes, asked, ended>>

LiveInit ==
    /\ fs \in FileSystems
    /\ path = "" /\ settings = Unset /\ services = <<>> /\ nodes = <<>>
    /\ asked = FALSE /\ ended = FALSE

Edit ==
    /\ fs' \in FileSystems
    /\ UNCHANGED <<path, settings, services, nodes, asked, ended>>

Start ==
    /\ settings = Unset /\ ~ended
    /\ \E flag \in Flags :
          LET file == Load(fs, flag)
          IN  /\ ~Failed(file)
              /\ path' = file.path
              /\ settings' = Settings(file)
              /\ services' = file.services
              /\ nodes' = file.nodes
    /\ UNCHANGED <<fs, asked, ended>>

Ask ==
    /\ settings # Unset
    /\ asked' = TRUE
    /\ UNCHANGED <<fs, path, settings, services, nodes, ended>>

(* A reading of the file; nothing changes when it fails.                   *)
Apply ==
    /\ settings # Unset
    /\ asked' = FALSE
    /\ LET file == Load(fs, path)
       IN  IF Failed(file) THEN UNCHANGED <<services, nodes>>
           ELSE services' = file.services /\ nodes' = file.nodes
    /\ UNCHANGED <<fs, path, settings, ended>>

End == ended' = TRUE /\ UNCHANGED <<fs, path, settings, services, nodes, asked>>

LiveNext == Edit \/ Start \/ Ask \/ Apply \/ End

LiveSafety == LiveInit /\ [][LiveNext]_liveVars

Honoured == asked ~> (~asked \/ ended)

LiveSpec == LiveSafety /\ Honoured

=============================================================================
