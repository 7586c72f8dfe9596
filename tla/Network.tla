------------------------------ MODULE Network -------------------------------
(***************************************************************************)
(* Several CoreNet nodes and the directories they exchange: every node     *)
(* pulls the services its configured nodes serve themselves (api.go,       *)
(* peers.go, registry.go).  A pull fetches and stores in two steps, so an  *)
(* answer may be outdated when it is filed; nodes stop, start empty and    *)
(* change what they offer at any time.                                     *)
(*                                                                         *)
(* Registry and Peers model one node in detail.  Here a tier is the set of *)
(* its names, and a node is known under one endpoint and its own ID.       *)
(***************************************************************************)
EXTENDS Naturals, Sequences

CONSTANTS
    Nodes,
    Names,
    Order,       \* node -> the nodes it is configured to pull, in that order
    MayOffer,    \* node -> the names it may ever serve itself
    Unreachable  \* what a request to a node that is down returns

Peers(n) == {Order[n][i] : i \in DOMAIN Order[n]}

ASSUME NetworkAssumption ==
    /\ \A n \in Nodes : Order[n] \in Seq(Nodes \ {n})
    /\ MayOffer \in [Nodes -> SUBSET Names]
    /\ \A names \in SUBSET Names : names # Unreachable

VARIABLES
    up,      \* node -> it is running
    local,   \* node -> the names of its local tiers
    remote,  \* node -> node it pulls -> names learned from there
    turn,    \* node -> index of the endpoint its puller is at
    answer   \* node -> what its puller has fetched and not yet filed

vars == <<up, local, remote, turn, answer>>

Nothing == [n \in Nodes |-> {}]

Idle == [fetched |-> FALSE, names |-> {}]

Init ==
    /\ up = [n \in Nodes |-> FALSE]
    /\ local = Nothing
    /\ remote = [n \in Nodes |-> Nothing]
    /\ turn = [n \in Nodes |-> 1]
    /\ answer = [n \in Nodes |-> Idle]

(* The names a node resolves.                                              *)
List(n) == local[n] \cup UNION {remote[n][p] : p \in Peers(n)}

(* Mutant: a node passes on what it learned from others.                   *)
AdvertisedRelayed(p) == List(p)

(* What the peer listener answers to GET /v1/services.                     *)
Advertised(p) == local[p]

-----------------------------------------------------------------------------
(* A configuration, a registration or a container comes or goes.           *)
Offer(n) ==
    /\ up[n]
    /\ \E names \in SUBSET MayOffer[n] : local' = [local EXCEPT ![n] = names]
    /\ UNCHANGED <<up, remote, turn, answer>>

StartNode(n) ==
    /\ ~up[n]
    /\ up' = [up EXCEPT ![n] = TRUE]
    /\ \E names \in SUBSET MayOffer[n] : local' = [local EXCEPT ![n] = names]
    /\ UNCHANGED <<remote, turn, answer>>

(* Everything a node has learned is in memory.                             *)
StopNode(n) ==
    /\ up[n]
    /\ up' = [up EXCEPT ![n] = FALSE]
    /\ local' = [local EXCEPT ![n] = {}]
    /\ remote' = [remote EXCEPT ![n] = Nothing]
    /\ turn' = [turn EXCEPT ![n] = 1]
    /\ answer' = [answer EXCEPT ![n] = Idle]

-----------------------------------------------------------------------------
(* The puller: one endpoint after the other, reachable or not.             *)

Fetch(n) ==
    /\ up[n] /\ ~answer[n].fetched /\ Order[n] # <<>>
    /\ \E p \in {Order[n][turn[n]]} :
          answer' = [answer EXCEPT ![n] =
                        [fetched |-> TRUE,
                         names |-> IF up[p] THEN Advertised(p) ELSE Unreachable]]
    /\ UNCHANGED <<up, local, remote, turn>>

(* Mutant: an unreachable endpoint ends the round.                         *)
NextTurnOnError(n) ==
    IF answer[n].names = Unreachable \/ turn[n] = Len(Order[n]) THEN 1 ELSE turn[n] + 1

(* Mutant: the round does not end after the last endpoint.                 *)
NextTurnEndless(n) == turn[n] + 1

(* Past the last endpoint the puller waits for the next tick and starts    *)
(* over.                                                                   *)
NextTurn(n) == IF turn[n] = Len(Order[n]) THEN 1 ELSE turn[n] + 1

(* An unreachable node is withdrawn with everything learned from it.        *)
Filed(n) == IF answer[n].names = Unreachable THEN {} ELSE answer[n].names

Store(n) ==
    /\ up[n] /\ answer[n].fetched
    /\ \E p \in {Order[n][turn[n]]} :
          remote' = [remote EXCEPT ![n][p] = Filed(n)]
    /\ turn' = [turn EXCEPT ![n] = NextTurn(n)]
    /\ answer' = [answer EXCEPT ![n] = Idle]
    /\ UNCHANGED <<up, local>>

Pull(n) == Fetch(n) \/ Store(n)

Next == \E n \in Nodes : Offer(n) \/ StartNode(n) \/ StopNode(n) \/ Pull(n)

(* The ticker fires and requests end, answered or timed out.               *)
Fairness == \A n \in Nodes : WF_vars(Pull(n))

Spec == Init /\ [][Next]_vars /\ Fairness

-----------------------------------------------------------------------------
(* Type invariant.                                                         *)
TypeOK ==
    /\ up \in [Nodes -> BOOLEAN]
    /\ local \in [Nodes -> SUBSET Names]
    /\ remote \in [Nodes -> [Nodes -> SUBSET Names]]
    /\ turn \in [Nodes -> Nat]
    /\ \A n \in Nodes : turn[n] = 1 \/ turn[n] \in 1 .. Len(Order[n])
    /\ answer \in [Nodes -> [fetched : BOOLEAN,
                             names : (SUBSET Names) \cup {Unreachable}]]

(* What a node holds of another one that one has served itself: no name is *)
(* passed on through a third node (api.go:40-45, peers.go:136-157).        *)
NothingRelayed ==
    \A n, p \in Nodes : remote[n][p] \subseteq MayOffer[p]

(* A name that no node serves any more is forgotten by every node, also in *)
(* a ring of nodes that pull one another (specs-0.1.md section 9, "so a    *)
(* directory cannot loop").                                                *)
Vanishes ==
    \A x \in Names :
        <>[](\A n \in Nodes : x \notin local[n]) =>
            <>[](\A n \in Nodes : x \notin List(n))

(* A service that a running node keeps offering becomes known to, and stays*)
(* known to, every running node that pulls it, whatever the others do      *)
(* (peers.go:100-123).                                                     *)
Spreads ==
    \A n \in Nodes : \A p \in Peers(n) : \A x \in MayOffer[p] :
        <>[](up[n] /\ up[p] /\ x \in local[p]) => <>[](x \in remote[n][p])

=============================================================================
