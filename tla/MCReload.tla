------------------------------ MODULE MCReload ------------------------------
(***************************************************************************)
(* Two locations and files that differ in what a reload applies, in a      *)
(* setting that needs a restart, or only in spelling (an explicit default).*)
(***************************************************************************)
EXTENDS Reload, TLC

MC_Canon == [wiki |-> "wiki", Wiki |-> "wiki"]

MC_Spellings == DOMAIN MC_Canon

MC_Rank == [alpha |-> 1]

Raw(name) == [name |-> name, address |-> "a1", port |-> 80]

(* Services, a node listed twice and an explicit docker.enabled.           *)
Plain == [services |-> <<Raw("Wiki")>>, nodes |-> <<"h:1", "h:1">>, enabled |-> "true"]

(* Another name, and a Docker setting that needs a restart.                *)
Moved == [name |-> "other", nodes |-> <<>>, enabled |-> "false"]

(* A listener that needs a restart.                                        *)
Rebound == [services |-> <<Raw("wiki")>>, control |-> "/tmp/c.sock"]

(* Refused by Validate: a name declared twice.                             *)
Twice == [services |-> <<Raw("Wiki"), Raw("wiki")>>]

Found(s, u) == (SystemPath :> s) @@ (UserPath :> u)

MC_FileSystems ==
    {Found(s, Plain) : s \in {Missing, Moved, Rebound, Twice}}
        \cup {Found(Missing, u) : u \in {Missing, Malformed}}
=============================================================================
