---------------------------- MODULE PeersProofs -----------------------------
(***************************************************************************)
(* The puller against reloads, for any endpoints, answers and lists: its   *)
(* types, what it never files, and (for peers with distinct IDs) that the  *)
(* remote tiers mirror the peers shown as online.                          *)
(***************************************************************************)
EXTENDS Peers, TierProofs

PullerFields ==
    puller = [pc |-> puller.pc, todo |-> puller.todo,
              endpoint |-> puller.endpoint, id |-> puller.id,
              services |-> puller.services, previous |-> puller.previous]

RemoteIsMap == remote = [id \in NodeIDs |-> remote[id]]

(* The test of pull is made once, after the first request; the ID is then  *)
(* carried through the second request, the critical section and the two    *)
(* SetRemote calls.                                                        *)
CarriesForeignID ==
    puller.pc \in {"services", "record", "forget", "store"}
        => puller.id # LocalID

OwnIDInv == PullerFields /\ RemoteIsMap /\ CarriesForeignID /\ NeverOwnID

(* The head of PullAll's loop carries no ID yet.                           *)
LEMMA PullFresh ==
    ASSUME NEW todo, puller' = Pull(todo)
    PROVE  PullerFields' /\ CarriesForeignID'
BY DEF Pull, IdlePuller, PullerFields, CarriesForeignID

(* Forgetting a node's directory touches no other, and cannot fill one.    *)
LEMMA ForgetKeeps ==
    ASSUME RemoteIsMap, NeverOwnID, NEW id,
           remote' = [remote EXCEPT ![id] = EmptyTier]
    PROVE  RemoteIsMap' /\ NeverOwnID'
BY PeersAssumption DEF RemoteIsMap, NeverOwnID

(* No step of the puller, of a reload or of the other nodes breaks it.     *)
LEMMA OwnIDNext == OwnIDInv /\ [Next]_vars => OwnIDInv'
<1> SUFFICES ASSUME OwnIDInv, [Next]_vars PROVE OwnIDInv'
  OBVIOUS
<1> USE DEF OwnIDInv
<1>1. CASE PullAll
  <2>1. UNCHANGED remote /\ puller' = Pull(order)
    BY <1>1 DEF PullAll
  <2> QED
    BY <2>1, PullFresh DEF RemoteIsMap, NeverOwnID
<1>2. CASE FetchInfo
  <2>1. /\ UNCHANGED remote
        /\ \/ puller' = [puller EXCEPT !.pc = "offline"]
           \/ \E id : /\ id # LocalID
                      /\ puller' = [puller EXCEPT !.pc = "services", !.id = id]
    BY <1>2 DEF FetchInfo, Identified, BadID
  <2> QED
    BY <2>1 DEF PullerFields, RemoteIsMap, CarriesForeignID, NeverOwnID
<1>3. CASE FetchServices
  <2>1. /\ UNCHANGED remote /\ puller.pc = "services"
        /\ \/ puller' = [puller EXCEPT !.pc = "offline"]
           \/ \E services : puller' = [puller EXCEPT !.pc = "record",
                                                     !.services = services]
    BY <1>3 DEF FetchServices
  <2> QED
    BY <2>1 DEF PullerFields, RemoteIsMap, CarriesForeignID, NeverOwnID
<1>4. CASE Abandon
  <2>1. UNCHANGED remote /\ puller' = Pull(puller.todo)
    BY <1>4 DEF Abandon
  <2> QED
    BY <2>1, PullFresh DEF RemoteIsMap, NeverOwnID
<1>5. CASE RecordOnline
  <2>1. /\ UNCHANGED remote /\ puller.pc = "record"
        /\ \E previous, pc :
              puller' = [puller EXCEPT !.previous = previous, !.pc = pc]
    BY <1>5 DEF RecordOnline
  <2> QED
    BY <2>1 DEF PullerFields, RemoteIsMap, CarriesForeignID, NeverOwnID
<1>6. CASE ForgetPrevious
  <2>1. /\ puller.pc = "forget" /\ puller' = [puller EXCEPT !.pc = "store"]
        /\ remote' = [remote EXCEPT ![puller.previous] = EmptyTier]
    BY <1>6 DEF ForgetPrevious
  <2>2. PullerFields' /\ CarriesForeignID'
    BY <2>1 DEF PullerFields, CarriesForeignID
  <2> QED
    BY <2>1, <2>2, ForgetKeeps
<1>7. CASE StoreDirectory
  <2>1. /\ puller.pc = "store" /\ puller' = Pull(puller.todo)
        /\ remote' = [remote EXCEPT ![puller.id] =
                         RemoteTier(puller.services, puller.id)]
    BY <1>7 DEF StoreDirectory
  <2>2. puller.id # LocalID
    BY <2>1 DEF CarriesForeignID
  <2>3. RemoteIsMap' /\ NeverOwnID'
    BY <2>1, <2>2, PeersAssumption DEF RemoteIsMap, NeverOwnID
  <2> QED
    BY <2>1, <2>3, PullFresh
<1>8. CASE markOffline
  <2>1. UNCHANGED remote
    BY <1>8 DEF markOffline
  <2>2. CASE puller' = Pull(puller.todo)
    BY <2>1, <2>2, PullFresh DEF RemoteIsMap, NeverOwnID
  <2>3. CASE \E nodeID : puller' = [puller EXCEPT !.pc = "withdraw",
                                                  !.previous = nodeID]
    BY <2>1, <2>3 DEF PullerFields, RemoteIsMap, CarriesForeignID, NeverOwnID
  <2> QED
    BY <1>8, <2>2, <2>3 DEF markOffline, AfterOffline
<1>9. CASE Withdraw
  <2>1. /\ puller' = Pull(puller.todo)
        /\ remote' = [remote EXCEPT ![puller.previous] = EmptyTier]
    BY <1>9 DEF Withdraw
  <2> QED
    BY <2>1, PullFresh, ForgetKeeps
<1>10. CASE \E e \in Endpoints : ForgetDropped(e)
  <2>1. PICK e \in Endpoints : ForgetDropped(e)
    BY <1>10
  <2>2. /\ UNCHANGED puller
        /\ remote' = [remote EXCEPT ![states[e].nodeID] = EmptyTier]
    BY <2>1 DEF ForgetDropped
  <2>3. PullerFields' /\ CarriesForeignID'
    BY <2>2 DEF PullerFields, CarriesForeignID
  <2> QED
    BY <2>2, <2>3, ForgetKeeps
<1>11. CASE UNCHANGED <<remote, puller>>
  BY <1>11 DEF PullerFields, RemoteIsMap, CarriesForeignID, NeverOwnID
<1> QED
  BY <1>1, <1>2, <1>3, <1>4, <1>5, <1>6, <1>7, <1>8, <1>9, <1>10, <1>11
     DEF Next, PullerStep, ReloadStep, SetEndpoints, PublishEndpoints,
         WorldChanges, vars

(* Whoever answers with this node's own ID, at whatever moment and however *)
(* reloads interleave with the pull, nothing is ever filed under it        *)
(* (peers.go:131-133, 157).                                                *)
THEOREM NeverFilesOwnID == Spec => []NeverOwnID
<1>1. Init => OwnIDInv
  BY PeersAssumption DEF Init, IdlePuller, OwnIDInv, PullerFields, RemoteIsMap,
     CarriesForeignID, NeverOwnID
<1>2. OwnIDInv => NeverOwnID
  BY DEF OwnIDInv
<1> QED
  BY <1>1, <1>2, OwnIDNext, PTL DEF Spec

-----------------------------------------------------------------------------
(* Type correctness.                                                       *)

(* The list without repetitions has the list's endpoints, each once.       *)
LEMMA RepeatsGone ==
    ASSUME NEW list \in Seq(Endpoints)
    PROVE  /\ WithoutRepeats(list) \in Seq(Endpoints)
           /\ ToSet(WithoutRepeats(list)) = ToSet(list)
           /\ \A i, j \in DOMAIN WithoutRepeats(list) :
                 WithoutRepeats(list)[i] = WithoutRepeats(list)[j] => i = j
<1> DEFINE S == ToSet(list)
           k == Cardinality(S)
           rank == [e \in S |-> FirstPlace(list, e)]
           once == WithoutRepeats(list)
<1>1. IsFiniteSet(S) /\ S \subseteq Endpoints
  <2>1. Len(list) \in Nat /\ DOMAIN list = 1..Len(list)
    OBVIOUS
  <2>2. IsFiniteSet(DOMAIN list)
    BY <2>1, FS_Interval
  <2>3. IsFiniteSet({list[i] : i \in DOMAIN list})
    BY <2>2, FiniteImage
  <2> QED
    BY <2>3 DEF ToSet
<1>2. ASSUME NEW e \in S
      PROVE  FirstPlace(list, e) \in DOMAIN list /\ list[FirstPlace(list, e)] = e
  <2> DEFINE places == {i \in DOMAIN list : list[i] = e}
  <2>1. places # {} /\ places \subseteq Nat
    BY DEF ToSet
  <2>2. Min(places) \in places
    BY <2>1, LeastIndex
  <2> QED
    BY <2>2 DEF FirstPlace
<1>3. Ranked(S, rank)
  BY <1>2 DEF Ranked
<1>4. k \in Nat
  BY <1>1, FS_CardinalityType
<1>5. \E s \in [1..k -> S] : Ascending(s, S, rank)
  BY <1>1, <1>3, EnumerationExists
<1>6. \A s \in [1..k -> S] :
         Ascending(s, S, rank) <=>
            \A i, j \in DOMAIN s :
                i < j => FirstPlace(list, s[i]) < FirstPlace(list, s[j])
  BY DEF Ascending
<1>7. once = CHOOSE s \in [1..k -> S] :
                \A i, j \in DOMAIN s :
                    i < j => FirstPlace(list, s[i]) < FirstPlace(list, s[j])
  BY DEF WithoutRepeats
<1> HIDE DEF S, k, rank, once
<1>8. once \in [1..k -> S] /\ Ascending(once, S, rank)
  <2>1. \E s \in [1..k -> S] :
           \A i, j \in DOMAIN s :
               i < j => FirstPlace(list, s[i]) < FirstPlace(list, s[j])
    BY <1>5, <1>6
  <2>2. /\ once \in [1..k -> S]
        /\ \A i, j \in DOMAIN once :
               i < j => FirstPlace(list, once[i]) < FirstPlace(list, once[j])
    BY <1>7, <2>1
  <2> QED
    BY <1>6, <2>2
<1>9. /\ \A e \in S : \E i \in 1..k : once[i] = e
      /\ \A i, j \in 1..k : once[i] = once[j] => i = j
  <2>1. Ascending(once, S, rank)
    BY <1>8
  <2>2. /\ \A e \in S : \E i \in 1..Cardinality(S) : once[i] = e
        /\ \A i, j \in 1..Cardinality(S) : once[i] = once[j] => i = j
    BY <1>1, <1>3, <2>1, EnumerationComplete, Zenon
  <2> QED
    BY <2>2 DEF k
<1>10. once \in Seq(Endpoints) /\ DOMAIN once = 1..k
  BY <1>1, <1>4, <1>8
<1>11. ToSet(once) = S
  BY <1>8, <1>9, <1>10 DEF ToSet
<1> QED
  BY <1>9, <1>10, <1>11 DEF once, S

(* Beyond its type, a puller that is at work has an endpoint, and the IDs  *)
(* it is about to file under are IDs of nodes; a peer about to be forgotten*)
(* is one with an ID, not on the new list.                                 *)
Aimed ==
    /\ puller.pc # "idle" => puller.endpoint \in Endpoints
    /\ puller.pc \in {"services", "record", "forget", "store"} =>
          puller.id \in NodeIDs
    /\ puller.pc \in {"forget", "withdraw"} => puller.previous \in NodeIDs
    /\ \A e \in reload.dropped : /\ e \in Configured /\ e \notin ToSet(reload.list)
                                 /\ states[e].nodeID \in NodeIDs
    /\ Unlocked => reload.dropped = {}

Typed == TypeOK /\ Aimed

(* What only the puller's own variable is concerned with.                  *)
PullerTyped ==
    /\ puller \in Puller
    /\ puller.pc # "idle" => puller.endpoint \in Endpoints
    /\ puller.pc \in {"services", "record", "forget", "store"} =>
          puller.id \in NodeIDs
    /\ puller.pc \in {"forget", "withdraw"} => puller.previous \in NodeIDs

(* The head of the loop.                                                   *)
LEMMA PullTyped ==
    ASSUME NEW todo \in Seq(Endpoints), puller' = Pull(todo)
    PROVE  PullerTyped'
<1>1. CASE todo = <<>>
  BY <1>1 DEF Pull, IdlePuller, PullerTyped, Puller, PullerLabels
<1>2. CASE todo # <<>>
  <2>1. Head(todo) \in Endpoints /\ Tail(todo) \in Seq(Endpoints)
    BY <1>2
  <2>2. puller' = [pc |-> "info", todo |-> Tail(todo), endpoint |-> Head(todo),
                   id |-> NoNodeID, services |-> <<>>, previous |-> NoNodeID]
    BY <1>2 DEF Pull, IdlePuller
  <2> QED
    BY <2>1, <2>2 DEF PullerTyped, Puller, PullerLabels
<1> QED
  BY <1>1, <1>2

(* The part of the type invariant a step of the puller leaves alone.       *)
OthersTyped ==
    /\ order \in Seq(Endpoints) /\ started \in BOOLEAN
    /\ reload \in [pc : {"idle", "forget"}, list : Seq(Endpoints),
                   dropped : SUBSET Endpoints]
    /\ world \in [Endpoints -> Announcement \cup {Down}]
    /\ \A i, j \in DOMAIN order : order[i] = order[j] => i = j
    /\ Unlocked => reload.dropped = {}

(* What the puller and the reload share.                                   *)
SharedTyped ==
    /\ remote \in [NodeIDs -> Tier]
    /\ states \in [Endpoints -> PeerState \cup {Absent}]
    /\ learned \in [Endpoints -> Tier]
    /\ orphans \in SUBSET NodeIDs
    /\ ToSet(order) = Configured
    /\ \A e \in reload.dropped : /\ e \in Configured /\ e \notin ToSet(reload.list)
                                 /\ states[e].nodeID \in NodeIDs

LEMMA TypedParts == Typed <=> PullerTyped /\ OthersTyped /\ SharedTyped
BY DEF Typed, TypeOK, Aimed, PullerTyped, OthersTyped, SharedTyped

LEMMA TypedPartsNext == Typed' <=> PullerTyped' /\ OthersTyped' /\ SharedTyped'
BY DEF Typed, TypeOK, Aimed, PullerTyped, OthersTyped, SharedTyped

(* Emptying a node's directory keeps the shared types.                     *)
LEMMA EmptiedTyped ==
    ASSUME SharedTyped, NEW id,
           remote' = [remote EXCEPT ![id] = EmptyTier],
           orphans' = orphans \ {id}, UNCHANGED <<states, order, learned>>,
           reload'.list = reload.list, reload'.dropped \subseteq reload.dropped
    PROVE  SharedTyped'
<1>1. remote' \in [NodeIDs -> Tier]
  BY EmptyTierFacts DEF SharedTyped
<1>2. Configured' = Configured
  BY DEF Configured
<1> QED
  BY <1>1, <1>2 DEF SharedTyped

(* Changing what is recorded of a peer keeps the list of peers.            *)
LEMMA RecordedTyped ==
    ASSUME SharedTyped, OthersTyped, Unlocked,
           NEW e \in Configured, NEW state \in PeerState,
           states' = [states EXCEPT ![e] = state],
           learned' \in [Endpoints -> Tier],
           UNCHANGED <<remote, order, reload, orphans>>
    PROVE  SharedTyped'
<1>1. e \in Endpoints
  BY DEF Configured
<1>2. states' \in [Endpoints -> PeerState \cup {Absent}]
  BY <1>1 DEF SharedTyped
<1>3. states'[e] # Absent /\ \A f \in Endpoints \ {e} : states'[f] = states[f]
  BY <1>1, StateAssumption DEF SharedTyped
<1>4. Configured' = Configured
  BY <1>1, <1>3 DEF Configured
<1> QED
  BY <1>2, <1>4 DEF SharedTyped, OthersTyped

(* A step of the puller keeps the types.                                   *)
LEMMA PullerStepTyped ==
    ASSUME Typed, PullerStep
    PROVE  Typed'
<1>1. PullerTyped /\ OthersTyped /\ SharedTyped
  BY TypedParts
<1>2. UNCHANGED <<order, started, reload, world>>
  BY DEF PullerStep, PullAll, FetchInfo, FetchServices, Abandon, RecordOnline,
     ForgetPrevious, StoreDirectory, markOffline, Withdraw
<1>3. OthersTyped'
  BY <1>1, <1>2 DEF OthersTyped, Unlocked
<1>4. UNCHANGED <<remote, states, learned, orphans>> => SharedTyped'
  BY <1>1, <1>2 DEF SharedTyped, Configured
<1>5. order \in Seq(Endpoints) /\ puller.todo \in Seq(Endpoints) /\ puller \in Puller
  BY <1>1 DEF OthersTyped, PullerTyped, Puller
<1>6. CASE PullAll
  <2>1. PullerTyped' /\ UNCHANGED <<remote, states, learned, orphans>>
    BY <1>5, <1>6, PullTyped DEF PullAll
  <2> QED
    BY <1>3, <1>4, <2>1, TypedPartsNext
<1>7. CASE FetchInfo
  <2> DEFINE answer == get(puller.endpoint)
  <2>1. puller.endpoint \in Endpoints
    BY <1>1, <1>7 DEF FetchInfo, PullerTyped
  <2>2. Identified(answer) => answer.id \in NodeIDs
    BY <1>1, <2>1 DEF get, Identified, BadID, OthersTyped, Announcement
  <2>3. \/ puller' = [puller EXCEPT !.pc = "offline"]
        \/ /\ Identified(answer)
           /\ puller' = [puller EXCEPT !.pc = "services", !.id = answer.id]
    BY <1>7 DEF FetchInfo
  <2> HIDE DEF answer
  <2>4. PullerTyped'
    BY <1>5, <2>1, <2>2, <2>3 DEF PullerTyped, Puller, PullerLabels
  <2>5. UNCHANGED <<remote, states, learned, orphans>>
    BY <1>7 DEF FetchInfo
  <2> QED
    BY <1>3, <1>4, <2>4, <2>5, TypedPartsNext
<1>8. CASE FetchServices
  <2> DEFINE answer == get(puller.endpoint)
  <2>1. puller.endpoint \in Endpoints /\ puller.id \in NodeIDs
    BY <1>1, <1>8 DEF FetchServices, PullerTyped
  <2>2. answer # Down => answer.services \in Seq(RawService)
    BY <1>1, <2>1 DEF get, OthersTyped, Announcement
  <2>3. \/ puller' = [puller EXCEPT !.pc = "offline"]
        \/ /\ answer # Down
           /\ puller' = [puller EXCEPT !.pc = "record", !.services = answer.services]
    BY <1>8 DEF FetchServices
  <2> HIDE DEF answer
  <2>4. PullerTyped'
    BY <1>5, <2>1, <2>2, <2>3 DEF PullerTyped, Puller, PullerLabels
  <2>5. UNCHANGED <<remote, states, learned, orphans>>
    BY <1>8 DEF FetchServices
  <2> QED
    BY <1>3, <1>4, <2>4, <2>5, TypedPartsNext
<1>9. CASE Abandon
  <2>1. PullerTyped' /\ UNCHANGED <<remote, states, learned, orphans>>
    BY <1>5, <1>9, PullTyped DEF Abandon
  <2> QED
    BY <1>3, <1>4, <2>1, TypedPartsNext
<1>10. CASE RecordOnline
  <2> DEFINE e == puller.endpoint
             previous == states[e].nodeID
             tier == RemoteTier(puller.services, puller.id)
             state == [nodeID |-> puller.id, status |-> "online"]
  <2>1. e \in Endpoints /\ puller.id \in NodeIDs /\ states[e] # Absent
    BY <1>1, <1>10 DEF RecordOnline, PullerTyped
  <2>2. e \in Configured
    BY <2>1 DEF Configured
  <2>3. previous \in NodeIDs \cup {NoNodeID}
    BY <1>1, <2>1 DEF SharedTyped, PeerState
  <2>4. tier \in Tier
    BY <1>5, <2>1, RemoteTierFacts DEF Puller
  <2>5. state \in PeerState
    BY <2>1 DEF PeerState
  <2>6. /\ states' = [states EXCEPT ![e] = state]
        /\ puller' = [puller EXCEPT !.previous = previous, !.pc = AfterRecord(previous)]
        /\ learned' = [learned EXCEPT ![e] = tier]
        /\ Unlocked /\ UNCHANGED <<remote, orphans>>
    BY <1>10 DEF RecordOnline
  <2>7. AfterRecord(previous) \in {"forget", "store"}
        /\ (AfterRecord(previous) = "forget" => previous \in NodeIDs)
    BY <2>3 DEF AfterRecord
  <2> HIDE DEF e, previous, tier, state
  <2>8. learned' \in [Endpoints -> Tier]
    BY <1>1, <2>4, <2>6 DEF SharedTyped
  <2>9. SharedTyped'
    BY <1>1, <1>2, <2>2, <2>5, <2>6, <2>8, RecordedTyped
  <2>10. PullerTyped'
    BY <1>5, <2>1, <2>3, <2>6, <2>7 DEF PullerTyped, Puller, PullerLabels, e
  <2> QED
    BY <1>3, <2>9, <2>10, TypedPartsNext
<1>11. CASE ForgetPrevious
  <2>1. /\ remote' = [remote EXCEPT ![puller.previous] = EmptyTier]
        /\ orphans' = orphans \ {puller.previous}
        /\ puller' = [puller EXCEPT !.pc = "store"]
        /\ UNCHANGED <<states, order, reload, learned>>
        /\ puller.endpoint \in Endpoints /\ puller.id \in NodeIDs
    BY <1>1, <1>11 DEF ForgetPrevious, PullerTyped
  <2>2. SharedTyped'
    BY <1>1, <2>1, EmptiedTyped
  <2>3. PullerTyped'
    BY <1>5, <2>1 DEF PullerTyped, Puller, PullerLabels
  <2> QED
    BY <1>3, <2>2, <2>3, TypedPartsNext
<1>12. CASE StoreDirectory
  <2> DEFINE tier == RemoteTier(puller.services, puller.id)
  <2>1. puller.id \in NodeIDs
    BY <1>1, <1>12 DEF StoreDirectory, PullerTyped
  <2>2. tier \in Tier
    BY <1>5, <2>1, RemoteTierFacts DEF Puller
  <2>3. /\ remote' = [remote EXCEPT ![puller.id] = tier]
        /\ orphans' \subseteq orphans \cup {puller.id}
        /\ puller' = Pull(puller.todo) /\ UNCHANGED <<states, learned>>
    BY <1>12 DEF StoreDirectory
  <2> HIDE DEF tier
  <2>4. SharedTyped'
    BY <1>1, <1>2, <2>1, <2>2, <2>3 DEF SharedTyped, Configured
  <2> QED
    BY <1>3, <1>5, <2>3, <2>4, PullTyped, TypedPartsNext
<1>13. CASE markOffline
  <2> DEFINE e == puller.endpoint
             nodeID == states[e].nodeID
             state == [states[e] EXCEPT !.status = "offline"]
  <2>1. e \in Endpoints /\ states[e] # Absent
    BY <1>1, <1>13 DEF markOffline, PullerTyped
  <2>2. e \in Configured /\ states[e] \in PeerState
    BY <1>1, <2>1 DEF Configured, SharedTyped
  <2>3. state \in PeerState /\ nodeID \in NodeIDs \cup {NoNodeID}
    BY <2>2 DEF PeerState
  <2>4. /\ states' = [states EXCEPT ![e] = state]
        /\ puller' = AfterOffline(nodeID)
        /\ Unlocked /\ UNCHANGED <<remote, learned, orphans>>
    BY <1>13 DEF markOffline
  <2> HIDE DEF nodeID, state
  <2>5. SharedTyped'
    <3>1. learned' \in [Endpoints -> Tier]
      BY <1>1, <2>4 DEF SharedTyped
    <3> HIDE DEF e
    <3> QED
      BY <1>1, <1>2, <2>2, <2>3, <2>4, <3>1, RecordedTyped
  <2>6. PullerTyped'
    <3>1. CASE nodeID = NoNodeID
      BY <1>5, <2>4, <3>1, PullTyped DEF AfterOffline
    <3>2. CASE nodeID # NoNodeID
      <4>1. puller' = [puller EXCEPT !.pc = "withdraw", !.previous = nodeID]
        BY <2>4, <3>2 DEF AfterOffline
      <4>2. nodeID \in NodeIDs
        BY <2>3, <3>2
      <4> QED
        BY <1>5, <2>1, <4>1, <4>2 DEF PullerTyped, Puller, PullerLabels
    <3> QED
      BY <3>1, <3>2
  <2> QED
    BY <1>3, <2>5, <2>6, TypedPartsNext
<1>14. CASE Withdraw
  <2>1. /\ remote' = [remote EXCEPT ![puller.previous] = EmptyTier]
        /\ orphans' = orphans \ {puller.previous}
        /\ puller' = Pull(puller.todo) /\ UNCHANGED <<states, order, reload, learned>>
    BY <1>14 DEF Withdraw
  <2>2. SharedTyped'
    BY <1>1, <2>1, EmptiedTyped
  <2> QED
    BY <1>3, <1>5, <2>1, <2>2, PullTyped, TypedPartsNext
<1> QED
  BY <1>6, <1>7, <1>8, <1>9, <1>10, <1>11, <1>12, <1>13, <1>14 DEF PullerStep

(* The states of the peers on a list.                                      *)
LEMMA NextStatesTyped ==
    ASSUME NEW list \in Seq(Endpoints),
           NEW current \in [Endpoints -> PeerState \cup {Absent}]
    PROVE  /\ NextStates(current, list) \in [Endpoints -> PeerState \cup {Absent}]
           /\ {e \in Endpoints : NextStates(current, list)[e] # Absent} = ToSet(list)
<1>1. NewState \in PeerState
  BY DEF NewState, PeerState
<1>2. ToSet(list) \subseteq Endpoints
  BY DEF ToSet
<1> QED
  BY <1>1, <1>2, StateAssumption DEF NextStates

(* Steps of a reload, and of the world, keep the types.                    *)
LEMMA OtherStepTyped ==
    ASSUME Typed, \/ \E list \in ReloadLists : SetEndpoints(list)
                  \/ ReloadStep
                  \/ \E e \in Endpoints : WorldChanges(e)
    PROVE  Typed'
<1>1. PullerTyped /\ OthersTyped /\ SharedTyped
  BY TypedParts
<1>2. UNCHANGED puller
  BY DEF SetEndpoints, ReloadStep, PublishEndpoints, ForgetDropped, WorldChanges
<1>3. PullerTyped'
  BY <1>1, <1>2 DEF PullerTyped
<1>4. CASE \E list \in ReloadLists : SetEndpoints(list)
  <2>1. PICK list \in ReloadLists : SetEndpoints(list)
    BY <1>4
  <2>2. list \in Seq(Endpoints)
    BY PeersAssumption
  <2>3. /\ reload' = [pc |-> "forget", list |-> list, dropped |-> Dropped(list)]
        /\ UNCHANGED <<remote, states, order, started, world, learned, orphans>>
    BY <2>1 DEF SetEndpoints
  <2>4. Dropped(list) \subseteq Configured /\ Configured \subseteq Endpoints
    BY DEF Dropped, Configured
  <2>5. OthersTyped'
    BY <1>1, <2>2, <2>3, <2>4 DEF OthersTyped, Unlocked
  <2>6. \A e \in Dropped(list) : e \notin ToSet(list) /\ states[e].nodeID \in NodeIDs
    BY <1>1 DEF Dropped, Configured, SharedTyped, PeerState
  <2>7. Configured' = Configured
    BY <2>3 DEF Configured
  <2>8. SharedTyped'
    BY <1>1, <2>3, <2>4, <2>6, <2>7 DEF SharedTyped
  <2> QED
    BY <1>3, <2>5, <2>8, TypedPartsNext
<1>5. CASE \E e \in Endpoints : ForgetDropped(e)
  <2>1. PICK e \in Endpoints : ForgetDropped(e)
    BY <1>5
  <2>2. /\ remote' = [remote EXCEPT ![states[e].nodeID] = EmptyTier]
        /\ orphans' = orphans \ {states[e].nodeID} /\ reload.pc = "forget"
        /\ reload' = [reload EXCEPT !.dropped = reload.dropped \ {e}]
        /\ UNCHANGED <<states, order, started, world, learned>>
    BY <2>1 DEF ForgetDropped
  <2>3. /\ reload' \in [pc : {"idle", "forget"}, list : Seq(Endpoints),
                        dropped : SUBSET Endpoints]
        /\ reload'.list = reload.list /\ reload'.pc = "forget"
        /\ reload'.dropped = reload.dropped \ {e}
    BY <1>1, <2>2 DEF OthersTyped
  <2>4. OthersTyped'
    BY <1>1, <2>2, <2>3 DEF OthersTyped, Unlocked
  <2>5. SharedTyped'
    BY <1>1, <2>2, <2>3, EmptiedTyped
  <2> QED
    BY <1>3, <2>4, <2>5, TypedPartsNext
<1>6. CASE PublishEndpoints
  <2> DEFINE list == reload.list
  <2>1. /\ states' = NextStates(states, list) /\ order' = WithoutRepeats(list)
        /\ reload' = IdleReload
        /\ UNCHANGED <<remote, started, world, learned, orphans>>
    BY <1>6 DEF PublishEndpoints
  <2>2. list \in Seq(Endpoints)
    BY <1>1 DEF OthersTyped
  <2> HIDE DEF list
  <2>3. states' \in [Endpoints -> PeerState \cup {Absent}] /\ Configured' = ToSet(list)
    BY <1>1, <2>1, <2>2, NextStatesTyped DEF SharedTyped, Configured
  <2>4. /\ order' \in Seq(Endpoints) /\ ToSet(order') = ToSet(list)
        /\ \A i, j \in DOMAIN order' : order'[i] = order'[j] => i = j
    BY <2>1, <2>2, RepeatsGone
  <2>5. OthersTyped'
    BY <1>1, <2>1, <2>4 DEF OthersTyped, IdleReload
  <2>6. SharedTyped'
    BY <1>1, <2>1, <2>3, <2>4 DEF SharedTyped, IdleReload
  <2> QED
    BY <1>3, <2>5, <2>6, TypedPartsNext
<1>7. CASE \E e \in Endpoints : WorldChanges(e)
  <2>1. PICK e \in Endpoints : WorldChanges(e)
    BY <1>7
  <2>2. PICK a \in Announcements[e] \cup {Down} : world' = [world EXCEPT ![e] = a]
    BY <2>1 DEF WorldChanges
  <2>3. a \in Announcement \cup {Down}
    BY PeersAssumption
  <2>4. UNCHANGED <<remote, states, order, started, reload, learned, orphans>>
    BY <2>1 DEF WorldChanges
  <2>5. OthersTyped' /\ SharedTyped'
    BY <1>1, <2>2, <2>3, <2>4 DEF OthersTyped, SharedTyped, Configured, Unlocked
  <2> QED
    BY <1>3, <2>5, TypedPartsNext
<1> QED
  BY <1>4, <1>5, <1>6, <1>7 DEF ReloadStep

(* The types, and the puller's aim, hold in every reachable state.         *)
THEOREM TypedInvariance == Spec => []Typed
<1>1. Init => Typed
  <2> SUFFICES ASSUME Init PROVE Typed
    OBVIOUS
  <2> DEFINE none == [e \in Endpoints |-> Absent]
  <2>1. PICK list \in InitialLists : /\ states = NextStates(none, list)
                                     /\ order = WithoutRepeats(list)
                                     /\ started = StartsPuller(list)
    BY DEF Init
  <2>2. list \in Seq(Endpoints) /\ none \in [Endpoints -> PeerState \cup {Absent}]
    BY PeersAssumption
  <2> HIDE DEF none
  <2>3. states \in [Endpoints -> PeerState \cup {Absent}] /\ Configured = ToSet(list)
    BY <2>1, <2>2, NextStatesTyped DEF Configured
  <2>4. /\ order \in Seq(Endpoints) /\ ToSet(order) = ToSet(list)
        /\ \A i, j \in DOMAIN order : order[i] = order[j] => i = j
    BY <2>1, <2>2, RepeatsGone
  <2>5. started \in BOOLEAN
    BY <2>1 DEF StartsPuller
  <2>6. PullerTyped
    BY DEF Init, IdlePuller, PullerTyped, Puller, PullerLabels
  <2>7. OthersTyped
    BY <2>4, <2>5 DEF Init, OthersTyped, IdleReload
  <2>8. SharedTyped
    BY <2>3, <2>4, EmptyTierFacts DEF Init, SharedTyped, IdleReload
  <2> QED
    BY <2>6, <2>7, <2>8, TypedParts
<1>2. Typed /\ [Next]_vars => Typed'
  <2> SUFFICES ASSUME Typed, [Next]_vars PROVE Typed'
    OBVIOUS
  <2>1. CASE UNCHANGED vars
    BY <2>1 DEF vars, Typed, TypeOK, Aimed, Configured, Unlocked
  <2> QED
    BY <2>1, PullerStepTyped, OtherStepTyped DEF Next
<1> QED
  BY <1>1, <1>2, PTL DEF Spec

(* The puller, the reload and what they share keep their types; p.order and*)
(* p.states name the same peers, each once (peers.go:39-42, 115-123,       *)
(* 211-218).                                                               *)
THEOREM TypeCorrect == Spec => []TypeOK
<1>1. Typed => TypeOK
  BY DEF Typed
<1> QED
  BY <1>1, TypedInvariance, PTL

-----------------------------------------------------------------------------
(* The remote tiers mirror the peers, when no two peers share an ID.       *)

Own(e, id) == states[e] # Absent /\ states[e].nodeID = id

(* A reload in progress has forgotten e already, or never knew it.         *)
Gone(e) ==
    reload.pc = "forget" /\ e \notin ToSet(reload.list) /\ e \notin reload.dropped

(* The puller is between the critical section and its SetRemote for id.    *)
Pending(e, id) ==
    /\ puller.endpoint = e
    /\ \/ puller.pc \in {"forget", "store"} /\ puller.id = id
       \/ puller.pc \in {"forget", "withdraw"} /\ puller.previous = id

Expected(e, id) ==
    IF Own(e, id) /\ states[e].status = "online" /\ ~Gone(e)
        THEN learned[e] ELSE EmptyTier

(* The directory of id is what e accounts for, or is about to be, or was   *)
(* stored too late and belongs to nobody.                                  *)
Entry(e, id) ==
    \/ Pending(e, id)
    \/ id \in orphans /\ (Own(e, id) => Gone(e))
    \/ id \notin orphans /\ remote[id] = Expected(e, id)

Entries == \A e \in Endpoints : \A id \in IDsAt(e) : Entry(e, id)

Unheard ==
    \A id \in NodeIDs : (\A e \in Endpoints : id \notin IDsAt(e)) =>
        remote[id] = EmptyTier /\ id \notin orphans

StatesMatch ==
    \A e \in Endpoints : states[e] # Absent =>
        /\ states[e].nodeID \in IDsAt(e) \cup {NoNodeID}
        /\ states[e].status = "online" => states[e].nodeID # NoNodeID

WorldMatches == \A e \in Endpoints : world[e] \in Announcements[e] \cup {Down}

(* What the puller remembers is of the peer it is at; between the critical *)
(* section and the SetRemote, only a reload may have changed that peer.    *)
PullerMatches ==
    LET e == puller.endpoint
        state == states[e]
    IN  /\ puller.pc \in {"services", "record", "forget", "store"} =>
              puller.id \in IDsAt(e)
        /\ puller.pc \in {"forget", "withdraw"} => puller.previous \in IDsAt(e)
        /\ puller.pc = "forget" => puller.previous # puller.id
        /\ puller.pc \in {"forget", "store"} =>
              /\ learned[e] = RemoteTier(puller.services, puller.id)
              /\ state # Absent => \/ state.nodeID = NoNodeID
                                   \/ state.nodeID = puller.id /\ state.status = "online"
        /\ puller.pc = "withdraw" => state = Absent \/ state.status # "online"

Mirror == Entries /\ Unheard /\ StatesMatch /\ WorldMatches /\ PullerMatches

LEMMA IDsAtFacts ==
    ASSUME NEW e \in Endpoints, NEW id \in IDsAt(e)
    PROVE  id \in NodeIDs /\ id # NoNodeID
BY PeersAssumption DEF IDsAt, BadID, Announcement

(* The steps before the critical section change nothing but the puller.    *)
LEMMA FetchMirrors ==
    ASSUME Typed, Mirror, PullAll \/ FetchInfo \/ FetchServices \/ Abandon
    PROVE  Mirror'
<1>1. UNCHANGED <<remote, states, reload, world, learned, orphans>>
  BY DEF PullAll, FetchInfo, FetchServices, Abandon
<1>2. puller.pc \in {"idle", "info", "services", "record", "offline"}
  BY DEF PullAll, FetchInfo, FetchServices, Abandon
<1>3. Entries' /\ Unheard' /\ StatesMatch' /\ WorldMatches'
  <2>1. ASSUME NEW e \in Endpoints, NEW id \in IDsAt(e) PROVE Entry(e, id)'
    <3>1. Entry(e, id) /\ ~Pending(e, id)
      BY <1>2 DEF Mirror, Entries, Pending
    <3> QED
      BY <1>1, <3>1 DEF Entry, Own, Gone, Expected
  <2> QED
    BY <1>1, <2>1 DEF Entries, Mirror, Unheard, StatesMatch, WorldMatches
<1>4. PullerMatches'
  <2>1. CASE PullAll \/ Abandon
    <3>1. \E todo : puller' = Pull(todo)
      BY <2>1 DEF PullAll, Abandon
    <3>2. puller'.pc \in {"idle", "info"}
      BY <3>1 DEF Pull, IdlePuller
    <3> QED
      BY <3>2 DEF PullerMatches
  <2>2. CASE FetchInfo
    <3> DEFINE e == puller.endpoint
               answer == get(e)
    <3>1. e \in Endpoints /\ puller \in Puller
      BY <2>2 DEF Typed, TypeOK, Aimed, FetchInfo
    <3>2. Identified(answer) => answer.id \in IDsAt(e)
      BY <3>1 DEF get, Identified, IDsAt, Mirror, WorldMatches
    <3>3. \/ puller' = [puller EXCEPT !.pc = "offline"]
          \/ /\ Identified(answer)
             /\ puller' = [puller EXCEPT !.pc = "services", !.id = answer.id]
      BY <2>2 DEF FetchInfo
    <3>4. \/ puller'.pc = "offline"
          \/ puller'.pc = "services" /\ puller'.endpoint = e /\ puller'.id \in IDsAt(e)
      <4> HIDE DEF answer, e
      <4> QED
        BY <3>1, <3>2, <3>3 DEF Puller, e
    <3> QED
      BY <3>4 DEF PullerMatches
  <2>3. CASE FetchServices
    <3>1. puller \in Puller /\ puller.id \in IDsAt(puller.endpoint)
      BY <2>3 DEF Typed, TypeOK, FetchServices, Mirror, PullerMatches
    <3>2. \/ puller' = [puller EXCEPT !.pc = "offline"]
          \/ \E services : puller' = [puller EXCEPT !.pc = "record", !.services = services]
      BY <2>3 DEF FetchServices
    <3>3. /\ puller'.pc \in {"offline", "record"} /\ puller'.id = puller.id
          /\ puller'.endpoint = puller.endpoint
      BY <3>1, <3>2 DEF Puller
    <3> QED
      BY <3>1, <3>3 DEF PullerMatches
  <2> QED
    BY <2>1, <2>2, <2>3
<1> QED
  BY <1>3, <1>4 DEF Mirror

(* The critical section of pull.                                           *)
LEMMA RecordMirrors ==
    ASSUME DistinctIDs, Typed, Mirror, RecordOnline
    PROVE  Mirror'
<1> DEFINE e == puller.endpoint
           previous == states[e].nodeID
           tier == RemoteTier(puller.services, puller.id)
<1>1. /\ e \in Endpoints /\ states[e] # Absent /\ puller \in Puller
      /\ puller.pc = "record" /\ puller.id \in IDsAt(e)
      /\ states \in [Endpoints -> PeerState \cup {Absent}]
      /\ learned \in [Endpoints -> Tier]
  BY DEF Typed, TypeOK, Aimed, RecordOnline, Mirror, PullerMatches
<1>2. previous \in IDsAt(e) \cup {NoNodeID}
  BY <1>1 DEF Mirror, StatesMatch
<1>3. /\ states' = [states EXCEPT ![e] = [nodeID |-> puller.id, status |-> "online"]]
      /\ puller' = [puller EXCEPT !.previous = previous, !.pc = AfterRecord(previous)]
      /\ learned' = [learned EXCEPT ![e] = tier]
      /\ reload.pc = "idle"
      /\ UNCHANGED <<remote, orphans, reload, world>>
  BY DEF RecordOnline, Unlocked
<1>4. puller.id # NoNodeID
  BY <1>1, IDsAtFacts
<1>5. /\ AfterRecord(previous) \in {"forget", "store"}
      /\ AfterRecord(previous) = "forget" <=> previous # NoNodeID /\ previous # puller.id
  BY DEF AfterRecord
<1> HIDE DEF e, previous, tier
<1>6. /\ states'[e] = [nodeID |-> puller.id, status |-> "online"] /\ states'[e] # Absent
      /\ learned'[e] = tier
      /\ \A f \in Endpoints \ {e} : states'[f] = states[f] /\ learned'[f] = learned[f]
  BY <1>1, <1>3, StateAssumption, IDsAtFacts DEF PeerState
<1>7. /\ puller'.pc = AfterRecord(previous) /\ puller'.previous = previous
      /\ puller'.endpoint = e /\ puller'.id = puller.id
      /\ puller'.services = puller.services
  BY <1>1, <1>3 DEF Puller, e
<1>8. ASSUME NEW f \in Endpoints, NEW id \in IDsAt(f) PROVE Entry(f, id)'
  <2>1. Entry(f, id) /\ ~Pending(f, id)
    BY <1>1 DEF Mirror, Entries, Pending
  <2>2. CASE f # e
    BY <1>3, <1>6, <2>1, <2>2 DEF Entry, Own, Gone, Expected
  <2>3. CASE f = e /\ id \in {puller.id, previous}
    <3>1. id # NoNodeID
      BY IDsAtFacts
    <3>2. Pending(f, id)'
      BY <1>5, <1>7, <2>3, <3>1 DEF Pending
    <3> QED
      BY <3>2 DEF Entry
  <2>4. CASE f = e /\ id \notin {puller.id, previous}
    <3>1. ~Own(f, id) /\ ~Own(f, id)'
      BY <1>6, <2>4 DEF Own, previous
    <3> QED
      BY <1>3, <2>1, <3>1 DEF Entry, Expected
  <2> QED
    BY <2>2, <2>3, <2>4
<1>9. Unheard' /\ WorldMatches'
  BY <1>3 DEF Mirror, Unheard, WorldMatches
<1>10. StatesMatch'
  <2> SUFFICES ASSUME NEW f \in Endpoints, states'[f] # Absent
               PROVE  /\ states'[f].nodeID \in IDsAt(f) \cup {NoNodeID}
                      /\ states'[f].status = "online" => states'[f].nodeID # NoNodeID
    BY DEF StatesMatch
  <2>1. CASE f = e
    BY <1>1, <1>4, <1>6, <2>1
  <2>2. CASE f # e
    BY <1>6, <2>2 DEF Mirror, StatesMatch
  <2> QED
    BY <2>1, <2>2
<1>11. PullerMatches'
  BY <1>1, <1>2, <1>5, <1>6, <1>7 DEF PullerMatches, tier
<1> QED
  BY <1>8, <1>9, <1>10, <1>11 DEF Mirror, Entries

(* Emptying the directory of an ID of e settles the entry of e, if e does  *)
(* not account for it any more, and touches no other.                      *)
LEMMA EmptyingMirrors ==
    ASSUME DistinctIDs, Typed, Mirror, NEW e \in Endpoints, NEW gone \in IDsAt(e),
           remote' = [remote EXCEPT ![gone] = EmptyTier],
           orphans' = orphans \ {gone}, UNCHANGED <<states, learned>>,
           Expected(e, gone)' = EmptyTier,
           \A f \in Endpoints : \A id \in IDsAt(f) \ {gone} :
              /\ Gone(f)' = Gone(f) \/ ~Own(f, id)
              /\ Pending(f, id) => Pending(f, id)'
    PROVE  Entries' /\ Unheard'
<1>1. remote \in [NodeIDs -> Tier] /\ gone \in NodeIDs
  BY IDsAtFacts DEF Typed, TypeOK
<1>2. remote'[gone] = EmptyTier /\ \A id \in NodeIDs \ {gone} : remote'[id] = remote[id]
  BY <1>1
<1>3. ASSUME NEW f \in Endpoints, NEW id \in IDsAt(f) PROVE Entry(f, id)'
  <2>1. CASE id = gone
    <3>1. f = e
      BY <2>1 DEF DistinctIDs
    <3> QED
      BY <1>2, <2>1, <3>1 DEF Entry
  <2>2. CASE id # gone
    <3>1. remote'[id] = remote[id] /\ (id \in orphans' <=> id \in orphans)
      BY <1>2, <2>2, IDsAtFacts
    <3>2. Own(f, id)' <=> Own(f, id)
      BY DEF Own
    <3>3. Entry(f, id)
      BY DEF Mirror, Entries
    <3>4. Gone(f)' = Gone(f) \/ ~Own(f, id)
      BY <2>2
    <3>5. Own(f, id) => (Gone(f)' <=> Gone(f))
      BY <3>4
    <3>6. Expected(f, id)' = Expected(f, id)
      BY <3>2, <3>5 DEF Expected
    <3>7. Pending(f, id) => Pending(f, id)'
      BY <2>2
    <3> QED
      BY <3>1, <3>2, <3>3, <3>5, <3>6, <3>7 DEF Entry
  <2> QED
    BY <2>1, <2>2
<1>4. Unheard'
  BY <1>2 DEF Mirror, Unheard
<1> QED
  BY <1>3, <1>4 DEF Entries

(* The first SetRemote of a peer that changed its ID.                      *)
LEMMA ForgetMirrors ==
    ASSUME DistinctIDs, Typed, Mirror, ForgetPrevious
    PROVE  Mirror'
<1>1. /\ puller.endpoint \in Endpoints /\ puller \in Puller
      /\ puller.previous \in IDsAt(puller.endpoint)
  BY DEF Typed, TypeOK, Aimed, ForgetPrevious, Mirror, PullerMatches
<1>2. PICK e \in Endpoints, id \in NodeIDs, gone \in NodeIDs :
         /\ e = puller.endpoint /\ gone = puller.previous /\ id = puller.id
         /\ id \in IDsAt(e) /\ gone \in IDsAt(e)
  BY <1>1, IDsAtFacts DEF ForgetPrevious, Mirror, PullerMatches
<1>3. /\ puller.pc = "forget" /\ gone # id /\ gone # NoNodeID
      /\ learned[e] = RemoteTier(puller.services, id)
      /\ states[e] # Absent => \/ states[e].nodeID = NoNodeID
                               \/ states[e].nodeID = id /\ states[e].status = "online"
  BY <1>2, IDsAtFacts DEF ForgetPrevious, Mirror, PullerMatches
<1>4. /\ remote' = [remote EXCEPT ![gone] = EmptyTier]
      /\ orphans' = orphans \ {gone}
      /\ puller' = [puller EXCEPT !.pc = "store"]
      /\ UNCHANGED <<states, reload, world, learned>>
  BY <1>2 DEF ForgetPrevious
<1>5. /\ puller'.pc = "store" /\ puller'.endpoint = e /\ puller'.id = id
      /\ puller'.services = puller.services
  BY <1>1, <1>2, <1>4 DEF Puller
<1>6. Expected(e, gone)' = EmptyTier
  BY <1>3, <1>4 DEF Expected, Own
<1>7. \A f \in Endpoints : \A m \in IDsAt(f) \ {gone} :
         /\ Gone(f)' = Gone(f) \/ ~Own(f, m)
         /\ Pending(f, m) => Pending(f, m)'
  BY <1>2, <1>3, <1>4, <1>5 DEF Gone, Pending
<1>8. Entries' /\ Unheard'
  BY <1>2, <1>4, <1>6, <1>7, EmptyingMirrors
<1>9. StatesMatch' /\ WorldMatches'
  BY <1>4 DEF Mirror, StatesMatch, WorldMatches
<1>10. PullerMatches'
  BY <1>2, <1>3, <1>4, <1>5 DEF PullerMatches
<1> QED
  BY <1>8, <1>9, <1>10 DEF Mirror

(* Back at the head of the loop nothing is pending.                        *)
LEMMA PullMatches ==
    ASSUME NEW todo, puller' = Pull(todo)
    PROVE  PullerMatches' /\ puller'.pc \in {"idle", "info"}
<1>1. puller'.pc \in {"idle", "info"}
  BY DEF Pull, IdlePuller
<1> QED
  BY <1>1 DEF PullerMatches

(* The SetRemote of a peer that answered: filed for the peer, or, when a   *)
(* reload has dropped it in between, an orphan.                            *)
LEMMA StoreMirrors ==
    ASSUME DistinctIDs, Typed, Mirror, StoreDirectory
    PROVE  Mirror'
<1>1. PICK e \in Endpoints, id \in NodeIDs :
         e = puller.endpoint /\ id = puller.id /\ id \in IDsAt(e)
  BY DEF Typed, TypeOK, Aimed, StoreDirectory, Mirror, PullerMatches
<1> DEFINE tier == RemoteTier(puller.services, id)
<1>2. /\ puller.pc = "store" /\ id \in NodeIDs /\ id # NoNodeID /\ learned[e] = tier
      /\ states[e] # Absent => \/ states[e].nodeID = NoNodeID
                               \/ states[e].nodeID = id /\ states[e].status = "online"
  BY <1>1, IDsAtFacts DEF StoreDirectory, Mirror, PullerMatches
<1>3. /\ remote \in [NodeIDs -> Tier] /\ reload.pc \in {"idle", "forget"}
  BY DEF Typed, TypeOK
<1>4. /\ remote' = [remote EXCEPT ![id] = tier]
      /\ orphans' = IF StillOwned(e, id) THEN orphans \ {id} ELSE orphans \cup {id}
      /\ puller' = Pull(puller.todo)
      /\ UNCHANGED <<states, reload, world, learned>>
  BY <1>1 DEF StoreDirectory
<1>5. StillOwned(e, id) <=> Own(e, id) /\ ~Gone(e)
  BY <1>3 DEF StillOwned, Own, Gone, Unlocked
<1> HIDE DEF tier
<1>6. remote'[id] = tier /\ \A m \in NodeIDs \ {id} : remote'[m] = remote[m]
  BY <1>2, <1>3, <1>4
<1>7. /\ \A f \in Endpoints : \A m : (Own(f, m)' <=> Own(f, m)) /\ (Gone(f)' <=> Gone(f))
      /\ \A f \in Endpoints : \A m : Expected(f, m)' = Expected(f, m)
  BY <1>4 DEF Own, Gone, Expected
<1>8. ASSUME NEW f \in Endpoints, NEW m \in IDsAt(f) PROVE Entry(f, m)'
  <2>1. CASE m = id
    <3>1. f = e
      BY <1>1, <2>1 DEF DistinctIDs
    <3>2. CASE StillOwned(e, id)
      <4>1. Expected(e, id) = tier
        BY <1>2, <1>5, <3>2 DEF Expected, Own
      <4>2. id \notin orphans'
        BY <1>4, <3>2
      <4> QED
        BY <1>6, <1>7, <2>1, <3>1, <4>1, <4>2 DEF Entry
    <3>3. CASE ~StillOwned(e, id)
      <4>1. id \in orphans' /\ (Own(e, id) => Gone(e))
        BY <1>4, <1>5, <3>3
      <4> QED
        BY <1>7, <2>1, <3>1, <4>1 DEF Entry
    <3> QED
      BY <3>2, <3>3
  <2>2. CASE m # id
    <3>1. remote'[m] = remote[m] /\ (m \in orphans' <=> m \in orphans)
      BY <1>4, <1>6, <2>2, IDsAtFacts
    <3>2. Entry(f, m) /\ ~Pending(f, m)
      BY <1>1, <1>2, <2>2 DEF Mirror, Entries, Pending
    <3> QED
      BY <1>7, <3>1, <3>2 DEF Entry
  <2> QED
    BY <2>1, <2>2
<1>9. Unheard'
  <2> SUFFICES ASSUME NEW m \in NodeIDs, \A f \in Endpoints : m \notin IDsAt(f)
               PROVE  remote'[m] = EmptyTier /\ m \notin orphans'
    BY DEF Unheard
  <2>1. m # id
    BY <1>1
  <2> QED
    BY <1>4, <1>6, <2>1 DEF Mirror, Unheard
<1>10. StatesMatch' /\ WorldMatches'
  BY <1>4 DEF Mirror, StatesMatch, WorldMatches
<1> QED
  BY <1>4, <1>8, <1>9, <1>10, PullMatches DEF Mirror, Entries

(* The critical section of markOffline.                                    *)
LEMMA OfflineMirrors ==
    ASSUME DistinctIDs, Typed, Mirror, markOffline
    PROVE  Mirror'
<1>1. PICK e \in Endpoints, old \in NodeIDs \cup {NoNodeID} :
         /\ e = puller.endpoint /\ old = states[e].nodeID
         /\ old \in IDsAt(e) \cup {NoNodeID}
  <2>1. puller.endpoint \in Endpoints /\ states[puller.endpoint] # Absent
    BY DEF Typed, Aimed, markOffline
  <2>2. states[puller.endpoint].nodeID \in IDsAt(puller.endpoint) \cup {NoNodeID}
    BY <2>1 DEF Mirror, StatesMatch
  <2> QED
    BY <2>1, <2>2, IDsAtFacts
<1>2. /\ states[e] # Absent /\ puller \in Puller /\ puller.pc = "offline"
      /\ states \in [Endpoints -> PeerState \cup {Absent}]
  BY <1>1 DEF markOffline, Typed, TypeOK
<1>3. /\ states' = [states EXCEPT ![e].status = "offline"]
      /\ puller' = IF old = NoNodeID THEN Pull(puller.todo)
                   ELSE [puller EXCEPT !.pc = "withdraw", !.previous = old]
      /\ reload.pc = "idle"
      /\ UNCHANGED <<remote, reload, world, learned, orphans>>
  BY <1>1 DEF markOffline, Unlocked, AfterOffline
<1>4. /\ states'[e] # Absent /\ states'[e].nodeID = old /\ states'[e].status = "offline"
      /\ \A f \in Endpoints \ {e} : states'[f] = states[f]
  <2>1. states[e] \in PeerState
    BY <1>2
  <2>2. [states[e] EXCEPT !.status = "offline"] = [nodeID |-> old, status |-> "offline"]
    BY <1>1, <2>1 DEF PeerState
  <2>3. [nodeID |-> old, status |-> "offline"] \in PeerState
    BY <1>1, <2>1 DEF PeerState
  <2> QED
    BY <1>2, <1>3, <2>2, <2>3, StateAssumption
<1>5. old # NoNodeID => /\ puller'.pc = "withdraw" /\ puller'.previous = old
                        /\ puller'.endpoint = e
  BY <1>1, <1>2, <1>3 DEF Puller
<1>6. ASSUME NEW f \in Endpoints, NEW m \in IDsAt(f) PROVE Entry(f, m)'
  <2>1. Entry(f, m) /\ ~Pending(f, m)
    BY <1>2 DEF Mirror, Entries, Pending
  <2>2. CASE f = e /\ m = old
    <3>1. Pending(f, m)'
      BY <1>5, <2>2, IDsAtFacts DEF Pending
    <3> QED
      BY <3>1 DEF Entry
  <2>3. CASE f = e /\ m # old
    <3>1. ~Own(f, m) /\ ~Own(f, m)'
      BY <1>1, <1>4, <2>3 DEF Own
    <3> QED
      BY <1>3, <2>1, <3>1 DEF Entry, Expected
  <2>4. CASE f # e
    BY <1>3, <1>4, <2>1, <2>4 DEF Entry, Own, Gone, Expected
  <2> QED
    BY <2>2, <2>3, <2>4
<1>7. Unheard' /\ WorldMatches'
  BY <1>3 DEF Mirror, Unheard, WorldMatches
<1>8. StatesMatch'
  <2> SUFFICES ASSUME NEW f \in Endpoints, states'[f] # Absent
               PROVE  /\ states'[f].nodeID \in IDsAt(f) \cup {NoNodeID}
                      /\ states'[f].status = "online" => states'[f].nodeID # NoNodeID
    BY DEF StatesMatch
  <2>1. CASE f = e
    BY <1>1, <1>4, <2>1
  <2>2. CASE f # e
    BY <1>4, <2>2 DEF Mirror, StatesMatch
  <2> QED
    BY <2>1, <2>2
<1>9. PullerMatches'
  <2>1. CASE old = NoNodeID
    BY <1>3, <2>1, PullMatches
  <2>2. CASE old # NoNodeID
    BY <1>1, <1>4, <1>5, <2>2 DEF PullerMatches
  <2> QED
    BY <2>1, <2>2
<1> QED
  BY <1>6, <1>7, <1>8, <1>9 DEF Mirror, Entries

(* The SetRemote of a peer that did not answer.                            *)
LEMMA WithdrawMirrors ==
    ASSUME DistinctIDs, Typed, Mirror, Withdraw
    PROVE  Mirror'
<1>1. PICK e \in Endpoints, gone \in NodeIDs :
         e = puller.endpoint /\ gone = puller.previous /\ gone \in IDsAt(e)
  BY DEF Typed, TypeOK, Aimed, Withdraw, Mirror, PullerMatches
<1>2. /\ puller.pc = "withdraw"
      /\ states[e] = Absent \/ states[e].status # "online"
  BY <1>1 DEF Withdraw, Mirror, PullerMatches
<1>3. /\ remote' = [remote EXCEPT ![gone] = EmptyTier]
      /\ orphans' = orphans \ {gone}
      /\ puller' = Pull(puller.todo)
      /\ UNCHANGED <<states, reload, world, learned>>
  BY <1>1 DEF Withdraw
<1>4. Expected(e, gone)' = EmptyTier
  BY <1>2, <1>3 DEF Expected, Own
<1>5. \A f \in Endpoints : \A m \in IDsAt(f) \ {gone} :
         /\ Gone(f)' = Gone(f) \/ ~Own(f, m)
         /\ Pending(f, m) => Pending(f, m)'
  BY <1>1, <1>2, <1>3 DEF Gone, Pending
<1>6. Entries' /\ Unheard'
  BY <1>1, <1>3, <1>4, <1>5, EmptyingMirrors
<1>7. StatesMatch' /\ WorldMatches'
  BY <1>3 DEF Mirror, StatesMatch, WorldMatches
<1> QED
  BY <1>3, <1>6, <1>7, PullMatches DEF Mirror

(* A reload begins: whoever it will not forget has no directory, or stays. *)
LEMMA SetEndpointsMirrors ==
    ASSUME Typed, Mirror, NEW list \in ReloadLists, SetEndpoints(list)
    PROVE  Mirror'
<1>1. /\ reload.pc = "idle"
      /\ reload' = [pc |-> "forget", list |-> list, dropped |-> Dropped(list)]
      /\ UNCHANGED <<remote, states, puller, world, learned, orphans>>
  BY DEF SetEndpoints, Unlocked
<1>2. ASSUME NEW e \in Endpoints, NEW id \in IDsAt(e) PROVE Entry(e, id)'
  <2>1. Entry(e, id) /\ ~Gone(e) /\ id # NoNodeID
    BY <1>1, IDsAtFacts DEF Mirror, Entries, Gone
  <2>2. Own(e, id) => e \in Configured /\ states[e].nodeID # NoNodeID
    BY <2>1 DEF Own, Configured
  <2>3. Own(e, id) => e \in ToSet(list) \/ e \in Dropped(list)
    BY <2>2 DEF Dropped
  <2>4. Own(e, id) => ~Gone(e)'
    BY <1>1, <2>3 DEF Gone
  <2>5. (Own(e, id)' <=> Own(e, id)) /\ (Pending(e, id)' <=> Pending(e, id))
    BY <1>1 DEF Own, Pending
  <2>6. Expected(e, id)' = Expected(e, id)
    BY <1>1, <2>1, <2>4, <2>5 DEF Expected
  <2> QED
    BY <1>1, <2>1, <2>4, <2>5, <2>6 DEF Entry
<1>3. Unheard' /\ StatesMatch' /\ WorldMatches' /\ PullerMatches'
  BY <1>1 DEF Mirror, Unheard, StatesMatch, WorldMatches, PullerMatches
<1> QED
  BY <1>2, <1>3 DEF Mirror, Entries

(* A peer that is no longer configured is forgotten.                       *)
LEMMA DropMirrors ==
    ASSUME DistinctIDs, Typed, Mirror, NEW e \in Endpoints, ForgetDropped(e)
    PROVE  Mirror'
<1>1. /\ reload.pc = "forget" /\ e \in reload.dropped /\ e \in Configured
      /\ e \notin ToSet(reload.list) /\ states[e].nodeID \in NodeIDs
      /\ reload \in [pc : {"idle", "forget"}, list : Seq(Endpoints),
                     dropped : SUBSET Endpoints]
  BY DEF ForgetDropped, Typed, TypeOK, Aimed
<1>2. PICK gone \in NodeIDs : gone = states[e].nodeID /\ gone \in IDsAt(e)
  BY <1>1, PeersAssumption DEF Mirror, StatesMatch, Configured
<1>3. /\ remote' = [remote EXCEPT ![gone] = EmptyTier]
      /\ orphans' = orphans \ {gone}
      /\ reload' = [reload EXCEPT !.dropped = reload.dropped \ {e}]
      /\ UNCHANGED <<states, puller, world, learned>>
  BY <1>2 DEF ForgetDropped
<1>4. /\ reload'.pc = "forget" /\ reload'.list = reload.list
      /\ reload'.dropped = reload.dropped \ {e}
  BY <1>1, <1>3
<1>5. Expected(e, gone)' = EmptyTier
  <2>1. Gone(e)'
    BY <1>1, <1>4 DEF Gone
  <2> QED
    BY <2>1 DEF Expected
<1>6. \A f \in Endpoints : \A m \in IDsAt(f) \ {gone} :
         /\ Gone(f)' = Gone(f) \/ ~Own(f, m)
         /\ Pending(f, m) => Pending(f, m)'
  <2> SUFFICES ASSUME NEW f \in Endpoints, NEW m \in IDsAt(f) \ {gone}
               PROVE  /\ Gone(f)' = Gone(f) \/ ~Own(f, m)
                      /\ Pending(f, m) => Pending(f, m)'
    OBVIOUS
  <2>1. Pending(f, m) => Pending(f, m)'
    BY <1>3 DEF Pending
  <2>2. f = e => ~Own(f, m)
    BY <1>2 DEF Own
  <2>3. f # e => Gone(f)' = Gone(f)
    BY <1>1, <1>4 DEF Gone
  <2> QED
    BY <2>1, <2>2, <2>3
<1>7. Entries' /\ Unheard'
  BY <1>2, <1>3, <1>5, <1>6, EmptyingMirrors
<1>8. StatesMatch' /\ WorldMatches' /\ PullerMatches'
  BY <1>3 DEF Mirror, StatesMatch, WorldMatches, PullerMatches
<1> QED
  BY <1>7, <1>8 DEF Mirror

(* A reload ends: the new peers start without a directory.                 *)
LEMMA PublishMirrors ==
    ASSUME Typed, Mirror, PublishEndpoints
    PROVE  Mirror'
<1> DEFINE listed == ToSet(reload.list)
<1>1. /\ reload.pc = "forget" /\ reload.dropped = {}
      /\ states' = NextStates(states, reload.list) /\ reload' = IdleReload
      /\ UNCHANGED <<remote, puller, world, learned, orphans>>
  BY DEF PublishEndpoints
<1>2. \A e \in Endpoints : states'[e] = IF e \notin listed THEN Absent
                                        ELSE IF states[e] # Absent THEN states[e]
                                        ELSE NewState
  BY <1>1 DEF NextStates
<1>3. \A e : Gone(e) <=> e \notin listed
  BY <1>1 DEF Gone
<1>4. \A e : ~Gone(e)'
  BY <1>1 DEF Gone, IdleReload
<1>5. NewState.nodeID = NoNodeID /\ NewState.status = "new"
  BY DEF NewState
<1> HIDE DEF listed
<1>6. ASSUME NEW e \in Endpoints, NEW id \in IDsAt(e) PROVE Entry(e, id)'
  <2>1. Entry(e, id) /\ id # NoNodeID
    BY IDsAtFacts DEF Mirror, Entries
  <2>2. Own(e, id)' <=> Own(e, id) /\ ~Gone(e)
    BY <1>2, <1>3, <1>5, <2>1 DEF Own
  <2>3. Own(e, id)' => states'[e] = states[e]
    BY <1>2, <1>5, <2>1 DEF Own
  <2>4. Expected(e, id)' = Expected(e, id)
    BY <1>1, <1>4, <2>2, <2>3 DEF Expected
  <2>5. Pending(e, id)' <=> Pending(e, id)
    BY <1>1 DEF Pending
  <2> QED
    BY <1>1, <2>1, <2>2, <2>4, <2>5 DEF Entry
<1>7. Unheard' /\ WorldMatches'
  BY <1>1 DEF Mirror, Unheard, WorldMatches
<1>8. StatesMatch'
  BY <1>2, <1>5 DEF Mirror, StatesMatch
<1>9. PullerMatches'
  <2>1. puller.pc \in {"forget", "store", "withdraw"} => puller.endpoint \in Endpoints
    BY DEF Typed, Aimed
  <2> QED
    BY <1>1, <1>2, <1>5, <2>1 DEF Mirror, PullerMatches
<1> QED
  BY <1>6, <1>7, <1>8, <1>9 DEF Mirror, Entries

(* What other nodes do is seen by the next request only.                   *)
LEMMA WorldMirrors ==
    ASSUME Typed, Mirror, (\E e \in Endpoints : WorldChanges(e)) \/ UNCHANGED vars
    PROVE  Mirror'
<1>1. UNCHANGED <<remote, states, puller, reload, learned, orphans>>
  BY DEF WorldChanges, vars
<1>2. WorldMatches'
  <2>1. CASE UNCHANGED vars
    BY <2>1 DEF vars, Mirror, WorldMatches
  <2>2. CASE \E e \in Endpoints : WorldChanges(e)
    <3>1. PICK e \in Endpoints : WorldChanges(e)
      BY <2>2
    <3>2. PICK a \in Announcements[e] \cup {Down} : world' = [world EXCEPT ![e] = a]
      BY <3>1 DEF WorldChanges
    <3>3. world \in [Endpoints -> Announcement \cup {Down}]
      BY DEF Typed, TypeOK
    <3> QED
      BY <3>2, <3>3 DEF Mirror, WorldMatches
  <2> QED
    BY <2>1, <2>2
<1>3. ASSUME NEW e \in Endpoints, NEW id \in IDsAt(e) PROVE Entry(e, id)'
  <2>1. Entry(e, id)
    BY DEF Mirror, Entries
  <2> QED
    BY <1>1, <2>1 DEF Entry, Pending, Own, Gone, Expected
<1>4. Unheard' /\ StatesMatch' /\ PullerMatches'
  BY <1>1 DEF Mirror, Unheard, StatesMatch, PullerMatches
<1> QED
  BY <1>2, <1>3, <1>4 DEF Mirror, Entries

(* The remote tiers mirror the peers in every reachable state, up to what  *)
(* the puller and a reload are in the middle of.                           *)
THEOREM MirrorInvariance == ASSUME DistinctIDs PROVE Spec => []Mirror
<1>1. Init => Mirror
  <2> SUFFICES ASSUME Init PROVE Mirror
    OBVIOUS
  <2>1. PICK list \in InitialLists :
           states = NextStates([e \in Endpoints |-> Absent], list)
    BY DEF Init
  <2>2. /\ NewState.nodeID = NoNodeID /\ NewState.status = "new"
        /\ \A e \in Endpoints : states[e] # Absent => states[e] = NewState
    BY <2>1 DEF NextStates, NewState
  <2>3. puller.pc = "idle" /\ reload.pc = "idle" /\ orphans = {}
    BY DEF Init, IdlePuller, IdleReload
  <2>4. ASSUME NEW e \in Endpoints, NEW id \in IDsAt(e) PROVE Entry(e, id)
    <3>1. remote[id] = EmptyTier /\ id # NoNodeID
      BY IDsAtFacts DEF Init
    <3>2. ~Own(e, id)
      BY <2>2, <3>1 DEF Own
    <3> QED
      BY <2>3, <3>1, <3>2 DEF Entry, Expected
  <2>5. Unheard /\ WorldMatches
    BY <2>3 DEF Init, Unheard, WorldMatches
  <2>6. StatesMatch
    BY <2>2 DEF StatesMatch
  <2>7. PullerMatches
    BY <2>3 DEF PullerMatches
  <2> QED
    BY <2>4, <2>5, <2>6, <2>7 DEF Mirror, Entries
<1>2. Typed /\ Mirror /\ [Next]_vars => Mirror'
  <2> SUFFICES ASSUME Typed, Mirror, [Next]_vars PROVE Mirror'
    OBVIOUS
  <2>1. CASE PullerStep
    BY <2>1, FetchMirrors, RecordMirrors, ForgetMirrors, StoreMirrors, OfflineMirrors,
       WithdrawMirrors DEF PullerStep
  <2>2. CASE \E list \in ReloadLists : SetEndpoints(list)
    BY <2>2, SetEndpointsMirrors
  <2>3. CASE ReloadStep
    BY <2>3, DropMirrors, PublishMirrors DEF ReloadStep
  <2>4. CASE (\E e \in Endpoints : WorldChanges(e)) \/ UNCHANGED vars
    BY <2>4, WorldMirrors
  <2> QED
    BY <2>1, <2>2, <2>3, <2>4 DEF Next
<1> QED
  BY <1>1, <1>2, TypedInvariance, PTL DEF Spec

(* Between rounds the remote tiers are exactly what the peers shown as     *)
(* online last answered, for any number of peers with distinct IDs, answers*)
(* and reloads (peers.go:28-32).                                           *)
THEOREM MirrorsOnlinePeers == ASSUME DistinctIDs PROVE Spec => []MirrorsPeers
<1>1. Typed /\ Mirror => MirrorsPeers
  <2> SUFFICES ASSUME Typed, Mirror, Quiet, NEW id \in NodeIDs \ orphans
               PROVE  IF Owner(id) = {} THEN remote[id] = EmptyTier
                      ELSE \A e \in Owner(id) : remote[id] = learned[e]
    BY DEF MirrorsPeers
  <2>1. \A e \in Endpoints : ~Gone(e) /\ \A m : ~Pending(e, m)
    BY DEF Quiet, Unlocked, Gone, Pending
  <2>2. \A e \in Endpoints : id \in IDsAt(e) => remote[id] = Expected(e, id)
    BY <2>1 DEF Mirror, Entries, Entry
  <2>3. ASSUME NEW e \in Owner(id) PROVE remote[id] = learned[e]
    <3>1. e \in Endpoints /\ Own(e, id) /\ states[e].status = "online"
      BY DEF Owner, Configured, Own
    <3>2. id \in IDsAt(e)
      BY <3>1 DEF Mirror, StatesMatch, Own
    <3> QED
      BY <2>1, <2>2, <3>1, <3>2 DEF Expected
  <2>4. ASSUME Owner(id) = {} PROVE remote[id] = EmptyTier
    <3>1. CASE \E e \in Endpoints : id \in IDsAt(e)
      <4>1. PICK e \in Endpoints : id \in IDsAt(e)
        BY <3>1
      <4>2. ~(Own(e, id) /\ states[e].status = "online")
        BY <2>4 DEF Owner, Configured, Own
      <4> QED
        BY <2>2, <4>1, <4>2 DEF Expected
    <3>2. CASE \A e \in Endpoints : id \notin IDsAt(e)
      BY <3>2 DEF Mirror, Unheard
    <3> QED
      BY <3>1, <3>2
  <2> QED
    BY <2>3, <2>4
<1> QED
  BY <1>1, MirrorInvariance, TypedInvariance, PTL

(* "corenet nodes" never shows services of a node it shows as unreachable, *)
(* between rounds (peers.go:163-183, 205-229).                             *)
THEOREM ShowsNothingOffline == ASSUME DistinctIDs PROVE Spec => []OfflineShowsNothing
<1>1. Typed /\ Mirror => OfflineShowsNothing
  <2> SUFFICES ASSUME Typed, Mirror, Quiet, NEW i \in DOMAIN order
               PROVE  Nodes[i].online \/ Nodes[i].services = 0
    BY DEF OfflineShowsNothing
  <2> DEFINE e == order[i]
             id == states[e].nodeID
  <2>1. e \in Endpoints /\ states[e] # Absent
    BY DEF Typed, TypeOK, ToSet, Configured
  <2>2. /\ Nodes[i].online = (states[e].status = "online")
        /\ Nodes[i].services = IF id = NoNodeID THEN 0
                               ELSE Cardinality(NamesIn(remote[id]))
    BY DEF Nodes
  <2>3. ASSUME states[e].status # "online", id # NoNodeID
        PROVE  remote[id] = EmptyTier
    <3>1. id \in IDsAt(e) /\ Own(e, id)
      BY <2>1, <2>3 DEF Mirror, StatesMatch, Own
    <3>2. ~Gone(e) /\ ~Pending(e, id)
      BY DEF Quiet, Unlocked, Gone, Pending
    <3>3. Entry(e, id)
      BY <2>1, <3>1 DEF Mirror, Entries
    <3> HIDE DEF e, id
    <3>4. remote[id] = Expected(e, id)
      BY <3>1, <3>2, <3>3 DEF Entry
    <3> QED
      BY <2>3, <3>4 DEF Expected
  <2>4. Cardinality(NamesIn(EmptyTier)) = 0
    BY EmptyTierFacts, FS_EmptySet
  <2> HIDE DEF e, id
  <2>5. CASE states[e].status = "online"
    BY <2>2, <2>5
  <2>6. CASE states[e].status # "online"
    BY <2>2, <2>3, <2>4, <2>6
  <2> QED
    BY <2>5, <2>6
<1> QED
  BY <1>1, MirrorInvariance, TypedInvariance, PTL
=============================================================================
