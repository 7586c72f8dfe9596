------------------------------- MODULE Tiers --------------------------------
(***************************************************************************)
(* A tier is one of the registry's maps from names to services: a total    *)
(* function with Absent where the Go map has no key.  A whole tier is      *)
(* replaced at a time, by what a list of services files.                   *)
(***************************************************************************)
EXTENDS Protocol, SequencesExt

Tier == [Spellings -> Service \cup {Absent}]

EmptyTier == [n \in Spellings |-> Absent]

NamesIn(tier) == {n \in Spellings : tier[n] # Absent}

(* The map a loop "next[svc.Name] = svc" leaves behind when it goes over   *)
(* the entries of list at the indices in kept: the last one of a name wins.*)
Filed(list, kept, source) ==
    [n \in Spellings |->
        LET entries == {i \in kept : NormalizeName(list[i].name) = n}
        IN  IF entries = {} THEN Absent
                            ELSE Stamp(list[Max(entries)], source)]

(* Mutant: the filter of SetRemote and SetDocker is left out.              *)
UsableInUnfiltered(list) == DOMAIN list

UsableIn(list) == {i \in DOMAIN list : Usable(list[i])}

(* What SetRemote files for a node.  An empty result deletes the node's key,*)
(* which leaves EmptyTier here as well.                                    *)
RemoteTier(list, nodeID) == Filed(list, UsableIn(list), nodeID)

(* Names of the conflicts SetDocker is handed, after its own validation.   *)
ConflictNames(names) ==
    {NormalizeName(s) : s \in {t \in names : ValidateName(NormalizeName(t))}}

(* Mutant: a conflicted name keeps its service in the Docker tier.         *)
DockerTierUnconflicted(list, names) ==
    Filed(list, UsableIn(list), SourceDocker)

(* What SetDocker files: usable services without the conflicted names.     *)
DockerTier(list, names) ==
    [n \in Spellings |->
        IF n \in ConflictNames(names)
            THEN Absent
            ELSE Filed(list, UsableIn(list), SourceDocker)[n]]

(* config.Validate: every entry usable, no name declared twice.  A file    *)
(* that fails it is refused before the registry is reached.                *)
ValidConfig(list) ==
    /\ UsableIn(list) = DOMAIN list
    /\ \A i, j \in DOMAIN list :
          NormalizeName(list[i].name) = NormalizeName(list[j].name) => i = j

(* Writing tier over base, later writes winning.                           *)
Override(base, tier) ==
    [n \in Spellings |-> IF tier[n] # Absent THEN tier[n] ELSE base[n]]

(* SetEndpoints goes over the configured nodes: where it meets e for the   *)
(* first time, before next[e] is there.                                    *)
FirstPlace(list, e) == Min({i \in DOMAIN list : list[i] = e})

(* Mutant: an endpoint that is listed twice is kept twice.                 *)
WithoutRepeatsKeepingThem(list) == list

(* Every endpoint of the list once, in the order of its first place there. *)
WithoutRepeats(list) ==
    LET endpoints == ToSet(list)
    IN  CHOOSE s \in [1..Cardinality(endpoints) -> endpoints] :
            \A i, j \in DOMAIN s :
                i < j => FirstPlace(list, s[i]) < FirstPlace(list, s[j])

(* A tier holds usable services only, each under its own name and with the *)
(* tier's source.                                                          *)
FiledFrom(tier, source) ==
    \A n \in NamesIn(tier) :
        /\ n \in CoreNames
        /\ tier[n].name = n
        /\ tier[n].source = source
        /\ tier[n].address # NoAddress
        /\ tier[n].port >= 1 /\ tier[n].port <= MaxPort

=============================================================================
