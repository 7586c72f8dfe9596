--------------------------- MODULE NetworkProofs ----------------------------
(***************************************************************************)
(* For every network of nodes, whoever pulls whom: nothing is passed on    *)
(* through a third node, so a directory cannot loop.                       *)
(*                                                                         *)
(* NothingRelayed is not inductive: an answer that is under way must have  *)
(* come from the node that is being pulled (Fetched), and that node must   *)
(* have served it itself (Offered).                                        *)
(***************************************************************************)
EXTENDS Network, TLAPS

Offered == \A n \in Nodes : local[n] \subseteq MayOffer[n]

Fetched ==
    \A n \in Nodes : answer[n].fetched =>
        /\ Order[n] # <<>>
        /\ answer[n].names = Unreachable
              \/ answer[n].names \subseteq MayOffer[Order[n][turn[n]]]

IInv == TypeOK /\ Offered /\ Fetched /\ NothingRelayed

(* The endpoint a puller is at is one of its configured nodes              *)
(* (peers.go:120-122).                                                     *)
LEMMA AtAPeer ==
    ASSUME TypeOK, NEW n \in Nodes, Order[n] # <<>>
    PROVE  turn[n] \in 1 .. Len(Order[n]) /\ Order[n][turn[n]] \in Nodes
<1>1. Order[n] \in Seq(Nodes \ {n})
  BY NetworkAssumption
<1>2. Len(Order[n]) \in Nat /\ Len(Order[n]) # 0
  BY <1>1
<1>3. turn[n] \in 1 .. Len(Order[n])
  BY <1>2 DEF TypeOK
<1> QED
  BY <1>1, <1>3

(* The round moves to the next endpoint or back to the first               *)
(* (peers.go:120-123).                                                     *)
LEMMA NextTurnInRange ==
    ASSUME TypeOK, NEW n \in Nodes, Order[n] # <<>>
    PROVE  NextTurn(n) \in 1 .. Len(Order[n])
<1>1. Order[n] \in Seq(Nodes \ {n})
  BY NetworkAssumption
<1>2. Len(Order[n]) \in Nat /\ turn[n] \in 1 .. Len(Order[n])
  BY <1>1, AtAPeer
<1> QED
  BY <1>2 DEF NextTurn

LEMMA InitOK == Init => IInv
<1> SUFFICES ASSUME Init PROVE IInv
  OBVIOUS
<1>1. TypeOK
  BY DEF Init, TypeOK, Nothing, Idle
<1>2. Offered /\ Fetched /\ NothingRelayed
  BY DEF Init, Offered, Fetched, NothingRelayed, Nothing, Idle
<1> QED
  BY <1>1, <1>2 DEF IInv

(* A node changes what it serves (api.go, discovery.go, daemon.go).        *)
LEMMA OfferOK == ASSUME IInv, NEW n \in Nodes, Offer(n) PROVE IInv'
<1> USE DEF IInv
<1>1. PICK names \in SUBSET MayOffer[n] : local' = [local EXCEPT ![n] = names]
  BY DEF Offer
<1>2. names \subseteq Names
  BY <1>1, NetworkAssumption
<1>3. TypeOK'
  BY <1>1, <1>2 DEF TypeOK, Offer
<1>4. Offered'
  BY <1>1 DEF Offered, TypeOK
<1> QED
  BY <1>3, <1>4 DEF Offer, Fetched, NothingRelayed

(* A node starts with what it serves and nothing learned.                  *)
LEMMA StartOK == ASSUME IInv, NEW n \in Nodes, StartNode(n) PROVE IInv'
<1> USE DEF IInv
<1>1. PICK names \in SUBSET MayOffer[n] : local' = [local EXCEPT ![n] = names]
  BY DEF StartNode
<1>2. names \subseteq Names
  BY <1>1, NetworkAssumption
<1>3. TypeOK'
  BY <1>1, <1>2 DEF TypeOK, StartNode
<1>4. Offered'
  BY <1>1 DEF Offered, TypeOK
<1> QED
  BY <1>3, <1>4 DEF StartNode, Fetched, NothingRelayed

(* A node stops and forgets.                                               *)
LEMMA StopOK == ASSUME IInv, NEW n \in Nodes, StopNode(n) PROVE IInv'
  BY NetworkAssumption
     DEF IInv, TypeOK, Offered, Fetched, NothingRelayed, StopNode, Nothing, Idle

(* A pull reads what the other node serves itself.                         *)
LEMMA FetchOK == ASSUME IInv, NEW n \in Nodes, Fetch(n) PROVE IInv'
<1> USE DEF IInv
<1>1. Order[n] # <<>> /\ UNCHANGED <<up, local, remote, turn>>
  BY DEF Fetch
<1>2. PICK p \in {Order[n][turn[n]]} :
          answer' = [answer EXCEPT ![n] =
                        [fetched |-> TRUE,
                         names |-> IF up[p] THEN Advertised(p) ELSE Unreachable]]
  BY DEF Fetch
<1>3. p \in Nodes
  BY <1>1, <1>2, AtAPeer
<1>4. Advertised(p) \subseteq MayOffer[p] /\ Advertised(p) \subseteq Names
  BY <1>3, NetworkAssumption DEF Advertised, Offered
<1>5. TypeOK'
  BY <1>1, <1>2, <1>4 DEF TypeOK
<1>6. Fetched'
  BY <1>1, <1>2, <1>4 DEF Fetched, TypeOK
<1> QED
  BY <1>1, <1>5, <1>6 DEF Offered, NothingRelayed

(* A pull files what it read under the node it read it from.               *)
LEMMA StoreOK == ASSUME IInv, NEW n \in Nodes, Store(n) PROVE IInv'
<1> USE DEF IInv
<1>1. answer[n].fetched /\ Order[n] # <<>>
  BY DEF Store, Fetched
<1>2. /\ UNCHANGED <<up, local>>
      /\ turn' = [turn EXCEPT ![n] = NextTurn(n)]
      /\ answer' = [answer EXCEPT ![n] = Idle]
  BY DEF Store
<1>3. PICK p \in {Order[n][turn[n]]} :
          remote' = [remote EXCEPT ![n][p] = Filed(n)]
  BY DEF Store
<1>4. p \in Nodes /\ NextTurn(n) \in 1 .. Len(Order[n])
  BY <1>1, <1>3, AtAPeer, NextTurnInRange
<1>5. Filed(n) \subseteq MayOffer[p] /\ Filed(n) \subseteq Names
  BY <1>1, <1>3, <1>4, NetworkAssumption DEF Filed, Fetched
<1>6. remote' \in [Nodes -> [Nodes -> SUBSET Names]]
  BY <1>3, <1>4, <1>5 DEF TypeOK
<1>7. Order[n] \in Seq(Nodes \ {n})
  BY NetworkAssumption
<1>8. turn' \in [Nodes -> Nat]
  BY <1>2, <1>4, <1>7 DEF TypeOK
<1>9. \A m \in Nodes : turn'[m] = 1 \/ turn'[m] \in 1 .. Len(Order[m])
  BY <1>2, <1>4 DEF TypeOK
<1>10. TypeOK'
  BY <1>2, <1>6, <1>8, <1>9 DEF TypeOK, Idle
<1>11. Fetched'
  BY <1>2 DEF Fetched, TypeOK, Idle
<1>12. NothingRelayed'
  BY <1>3, <1>4, <1>5 DEF NothingRelayed, TypeOK
<1> QED
  BY <1>2, <1>10, <1>11, <1>12 DEF Offered

LEMMA NextOK == IInv /\ [Next]_vars => IInv'
<1> SUFFICES ASSUME IInv, [Next]_vars PROVE IInv'
  OBVIOUS
<1>1. CASE UNCHANGED vars
  BY <1>1 DEF IInv, TypeOK, Offered, Fetched, NothingRelayed, vars
<1>2. CASE Next
  BY <1>2, OfferOK, StartOK, StopOK, FetchOK, StoreOK DEF Next, Pull
<1> QED
  BY <1>1, <1>2

(* Whoever pulls whom, however requests, restarts and changes interleave,  *)
(* what is filed for a node is only what that node may serve itself        *)
(* (api.go:40-45, peers.go:136-157).                                       *)
THEOREM NoNameTravelsOn == Spec => []NothingRelayed
<1>1. IInv => NothingRelayed
  BY DEF IInv
<1> QED
  BY InitOK, NextOK, <1>1, PTL DEF Spec

(* The pullers' positions and answers keep their types.                    *)
THEOREM TypeCorrect == Spec => []TypeOK
<1>1. IInv => TypeOK
  BY DEF IInv
<1> QED
  BY InitOK, NextOK, <1>1, PTL DEF Spec
=============================================================================
