------------------------------ MODULE Protocol ------------------------------
(***************************************************************************)
(* The vocabulary of pkg/protocol: names, services and their sources.      *)
(*                                                                         *)
(* A name is an opaque spelling.  Canon is what one call of NormalizeName  *)
(* makes of a spelling (trim space, strip ONE trailing dot, lower-case) and*)
(* CoreNames is the set of spellings that ValidateName accepts.  Canon is  *)
(* not assumed idempotent: "wiki.core.." becomes "wiki.core." and only a   *)
(* second call makes it "wiki.core".  All that is assumed is what          *)
(* ValidateName itself tests, that a valid name is its own normal form.    *)
(***************************************************************************)
EXTENDS Integers, Sequences, FiniteSets

CONSTANTS
    Spellings,   \* every string a name may arrive as, closed under Canon
    CoreNames,   \* the spellings ValidateName accepts
    Canon,       \* NormalizeName, as a function on Spellings
    Addresses,   \* backend addresses, NoAddress (the empty string) included
    NoAddress,
    NodeIDs,     \* IDs a node may report
    Rank,        \* position of a node ID in string order
    Absent       \* "no entry": the missing key of a Go map

ASSUME NameAssumption ==
    /\ CoreNames \subseteq Spellings
    /\ Canon \in [Spellings -> Spellings]
    /\ \A n \in CoreNames : Canon[n] = n

ASSUME NodeAssumption ==
    /\ Rank \in [NodeIDs -> Nat]
    /\ \A a, b \in NodeIDs : Rank[a] = Rank[b] => a = b

NormalizeName(s) == Canon[s]

ValidateName(s) == s \in CoreNames

SourceConfig  == "config"
SourceRuntime == "runtime"
SourceDocker  == "docker"

Sources == {SourceConfig, SourceRuntime, SourceDocker} \cup NodeIDs

(* A service as it arrives: in a file, a request body, a peer's answer.  A *)
(* source it may carry is overwritten by every operation that files it.    *)
RawService == [name : Spellings, address : Addresses, port : Int]

(* A service as it is filed.                                               *)
Service ==
    [name : Spellings, address : Addresses, port : Int, source : Sources]

ASSUME AbsentAssumption == Absent \notin Service /\ Absent \notin Spellings

MaxPort == 65535

(* Add, SetRemote, SetDocker and config.Validate all ask for these three.  *)
Usable(raw) ==
    /\ ValidateName(NormalizeName(raw.name))
    /\ raw.address # NoAddress
    /\ raw.port >= 1 /\ raw.port <= MaxPort

(* Mutant: the source is not overwritten; an unfiled service carries none. *)
StampUnsourced(raw, source) ==
    [name |-> NormalizeName(raw.name), address |-> raw.address,
     port |-> raw.port, source |-> ""]

Stamp(raw, source) ==
    [name |-> NormalizeName(raw.name), address |-> raw.address,
     port |-> raw.port, source |-> source]

=============================================================================
