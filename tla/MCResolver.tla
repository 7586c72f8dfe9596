----------------------------- MODULE MCResolver -----------------------------
(***************************************************************************)
(* Two commands at a time; corenetd listens on every interface or on one   *)
(* address, at another port.                                               *)
(***************************************************************************)
EXTENDS Resolver

MC_DNSAddrs == {[host |-> "0.0.0.0", port |-> 53], [host |-> "127.0.0.2", port |-> 5353]}
=============================================================================
