---------------------------- MODULE MCDiscovery -----------------------------
(***************************************************************************)
(* Containers that claim one name in two spellings, or a second name, and  *)
(* containers with every fault.  Network "bridge" sorts before "lan".      *)
(***************************************************************************)
EXTENDS Discovery

CONSTANT NoPort

MC_Canon ==
    [wiki |-> "wiki", Wiki |-> "wiki", chat |-> "chat", wikiTest |-> "wikiTest",
     none |-> "none"]

(* The names of other nodes play no part here.                             *)
MC_Rank == <<>>

MC_NetworkRank == [bridge |-> 1, lan |-> 2]

Container(name, kind, port, bridge, lan) ==
    [name |-> name, kind |-> kind, port |-> port,
     networks |-> [bridge |-> bridge, lan |-> lan]]

(* Both networks, one network, no label, and a fault of name, port and     *)
(* address.                                                                *)
MC_Looks ==
    [c1 |-> {Container("wiki", "http", 80, "a1", "a2"),
             Container("chat", "http", 65536, "a1", ""),
             Container("none", "http", 80, "a1", "")},
     c2 |-> {Container("Wiki", "http", 65535, "", "a2"),
             Container("chat", "http", 1, "", ""),
             Container("wikiTest", "tcp", NoPort, "a1", "")}]
=============================================================================
