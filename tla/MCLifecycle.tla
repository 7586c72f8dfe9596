---------------------------- MODULE MCLifecycle -----------------------------
(***************************************************************************)
(* Three daemons: with the same addresses, with only the proxy in common,  *)
(* and with one that has nothing in common with the others and no DNS.     *)
(***************************************************************************)
EXTENDS Lifecycle

Addrs(dns, http, peer) == [udp |-> dns, tcp |-> dns, http |-> http, peer |-> peer]

MC_Configs ==
    {[a |-> Addrs("d1", "h1", "p1"), b |-> b, c |-> Addrs("d1", "h1", "")] :
        b \in {Addrs("d1", "h1", "p1"), Addrs("d2", "h1", ""),
               Addrs("", "h2", "p2")}}
=============================================================================
