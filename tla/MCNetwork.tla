----------------------------- MODULE MCNetwork ------------------------------
(***************************************************************************)
(* Three nodes that pull in a ring, a from b, b from c and c from a; a and *)
(* c also pull in the other direction.  Two of them offer the same name.   *)
(***************************************************************************)
EXTENDS Network

MC_Order == [a |-> <<"b", "c">>, b |-> <<"c">>, c |-> <<"a", "b">>]

MC_MayOffer == [a |-> {"x"}, b |-> {"x"}, c |-> {"y"}]
=============================================================================
