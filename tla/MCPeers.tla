------------------------------ MODULE MCPeers -------------------------------
(***************************************************************************)
(* One service name and two configured endpoints.  What answers at e1 may  *)
(* change its ID, what answers at e2 may be this very node, or one without *)
(* an ID.  A reload drops e1 while it keeps e2, or reorders and repeats.   *)
(***************************************************************************)
EXTENDS Peers

MC_Canon == [wiki |-> "wiki", Wiki |-> "wiki"]

MC_Rank == [self |-> 1, n1 |-> 2, n2 |-> 3, n3 |-> 4]

Answer(id, spelling) ==
    [id |-> id,
     services |-> <<[name |-> spelling, address |-> "a1", port |-> 80]>>]

MC_Announcements ==
    [e1 |-> {Answer("n1", "wiki"), Answer("n2", "Wiki")},
     e2 |-> {Answer("n3", "wiki"), Answer("self", "wiki"), Answer("", "wiki")}]

MC_InitialLists == {<<"e1", "e2">>}

MC_NoNodes == {<<>>}

MC_ReloadLists == {<<"e2">>, <<"e2", "e1", "e2">>}

(* MirrorsPeers and OfflineShowsNothing are about peers with distinct IDs. *)
ASSUME DistinctIDs
=============================================================================
