-------------------------- MODULE LifecycleProofs ---------------------------
(***************************************************************************)
(* Proofs about Lifecycle, for any number of daemons and any addresses.    *)
(***************************************************************************)
EXTENDS Lifecycle, TLAPS

(* Steps at which every enabled listener is bound.                         *)
Open == Starting \cup {"listen", "chmod", "serving", "stop_http"}

(* A listener is bound exactly between the step that binds it and the one  *)
(* that closes it, if it is enabled.                                       *)
HeldAt(l, steps) ==
    \A d \in Daemons : l \in held[d] <=> addr[d][l] # "" /\ pc[d] \in steps

UDPSteps  == Open \cup {"tcp", "http", "peer", "stop_peer", "stop_control", "stop_udp"}
TCPSteps  == Open \cup {"http", "peer", "stop_peer", "stop_control", "stop_udp", "stop_tcp"}
HTTPSteps == Open \cup {"peer"}
PeerSteps == Open \cup {"stop_peer"}

Holds ==
    /\ HeldAt("udp", UDPSteps) /\ HeldAt("tcp", TCPSteps)
    /\ HeldAt("http", HTTPSteps) /\ HeldAt("peer", PeerSteps)

(* A socket in the file system belongs to a process that has not closed it.*)
Owned == \A d \in Daemons : file = d => pc[d] \in Attached

(* No address is bound twice.                                              *)
Exclusive ==
    \A d, e \in Daemons, l \in Listeners :
        d # e /\ l \in held[d] /\ l \in held[e] => addr[d][l] # addr[e][l]

(* What a daemon that nobody runs beside finds at the path.                *)
Undisturbed ==
    \A d \in alone :
        /\ \A e \in Daemons \ {d} : Idle(e)
        /\ pc[d] \in {"dial", "remove"} => file = Stale
        /\ pc[d] = "bind" => file = NoFile
        /\ pc[d] \in {"listen", "chmod"} => file = d
        /\ pc[d] = "refused" => file = Other

IInv == TypeOK /\ Holds /\ Owned /\ Exclusive /\ Undisturbed

LEMMA InvariantInit == Init => IInv
<1> SUFFICES ASSUME Init PROVE IInv
  OBVIOUS
<1> USE FileAssumption DEF Init
<1>1. TypeOK
  BY DEF TypeOK, Idle, Steps
<1>2. Holds
  BY DEF Holds, HeldAt, UDPSteps, TCPSteps, HTTPSteps, PeerSteps, Open, Starting
<1>3. Owned /\ Exclusive /\ Undisturbed
  BY DEF Owned, Exclusive, Undisturbed
<1> QED BY <1>1, <1>2, <1>3 DEF IInv

(* One daemon moving leaves the others' listeners as they are.             *)
LEMMA HoldsStep ==
    ASSUME Holds, NEW d \in Daemons, addr' = addr,
           \A e \in Daemons \ {d} : held'[e] = held[e] /\ pc'[e] = pc[e],
           "udp" \in held'[d] <=> addr[d]["udp"] # "" /\ pc'[d] \in UDPSteps,
           "tcp" \in held'[d] <=> addr[d]["tcp"] # "" /\ pc'[d] \in TCPSteps,
           "http" \in held'[d] <=> addr[d]["http"] # "" /\ pc'[d] \in HTTPSteps,
           "peer" \in held'[d] <=> addr[d]["peer"] # "" /\ pc'[d] \in PeerSteps
    PROVE  Holds'
<1>1. HeldAt("udp", UDPSteps)' /\ HeldAt("tcp", TCPSteps)'
  BY DEF Holds, HeldAt
<1>2. HeldAt("http", HTTPSteps)' /\ HeldAt("peer", PeerSteps)'
  BY DEF Holds, HeldAt
<1> QED BY <1>1, <1>2 DEF Holds

LEMMA ExclusiveStep ==
    ASSUME Exclusive, NEW d \in Daemons, addr' = addr, NEW added,
           \A e \in Daemons \ {d} : held'[e] = held[e],
           \A k \in held'[d] : k \in held[d] \/ k \in added,
           \A k \in added : \A e \in Daemons \ {d} :
               k \in held[e] => addr[e][k] # addr[d][k]
    PROVE  Exclusive'
<1> SUFFICES ASSUME NEW a \in Daemons, NEW b \in Daemons, NEW k \in Listeners,
                    a # b, k \in held'[a], k \in held'[b]
             PROVE  addr[a][k] # addr[b][k]
  BY DEF Exclusive
<1>1. CASE a = d
  BY <1>1 DEF Exclusive
<1>2. CASE b = d
  BY <1>2 DEF Exclusive
<1>3. CASE a # d /\ b # d
  BY <1>3 DEF Exclusive
<1> QED BY <1>1, <1>2, <1>3

(* The end of a process disturbs nothing, whenever it comes.               *)
LEMMA GoneKeeps ==
    ASSUME IInv, NEW d \in Daemons, NEW how \in {"off", "refused"}, Gone(d, how),
           how = "refused" /\ d \in alone => file = Other
    PROVE  IInv'
<1> USE FileAssumption DEF IInv, Gone, Goto
<1>1. TypeOK'
  BY DEF TypeOK, Idle, Steps
<1>2. Holds'
  BY DEF Holds, HeldAt, TypeOK, UDPSteps, TCPSteps, HTTPSteps, PeerSteps, Open,
           Starting
<1>3. Owned'
  BY DEF Owned, TypeOK
<1>4. Exclusive'
  BY DEF Exclusive, TypeOK
<1>5. Undisturbed'
  BY DEF Undisturbed, TypeOK, Owned, Idle, Attached
<1> QED BY <1>1, <1>2, <1>3, <1>4, <1>5

LEMMA InvariantNext == IInv /\ [Next]_vars => IInv'
<1> SUFFICES ASSUME IInv, [Next]_vars
             PROVE  IInv'
  OBVIOUS
<1> USE FileAssumption
<1>1. ASSUME NEW d \in Daemons, Start(d)
      PROVE  IInv'
  <2> USE <1>1 DEF IInv, Start, Goto, Idle
  <2>1. TypeOK'
    BY DEF TypeOK, Steps, Listeners
  <2>2. Holds'
    BY DEF Holds, HeldAt, TypeOK, UDPSteps, TCPSteps, HTTPSteps, PeerSteps, Open,
           Starting
  <2>3. Owned' /\ Exclusive'
    BY DEF Owned, Exclusive, TypeOK, Attached
  <2>4. Undisturbed'
    BY DEF Undisturbed, TypeOK
  <2> QED BY <2>1, <2>2, <2>3, <2>4
<1>2. ASSUME NEW d \in Daemons, Crash(d)
      PROVE  IInv'
  BY <1>2, GoneKeeps DEF Crash
<1>3. ASSUME NEW d \in Daemons, Listen(d)
      PROVE  IInv'
  <2>1. CASE addr[d][pc[d]] # "" /\ Taken(d, pc[d])
    BY <1>3, <2>1, GoneKeeps DEF Listen
  <2>2. CASE addr[d][pc[d]] = "" \/ ~Taken(d, pc[d])
    <3> DEFINE l == pc[d]
    <3>1. /\ l \in Listeners
          /\ held' = [held EXCEPT ![d] = @ \cup (IF addr[d][l] = "" THEN {} ELSE {l})]
          /\ pc' = [pc EXCEPT ![d] = AfterListener[l]]
          /\ UNCHANGED <<addr, file, alone>>
      BY <1>3, <2>2 DEF Listen, Goto
    <3>a. /\ AfterListener["udp"] = "tcp" /\ AfterListener["tcp"] = "http"
          /\ AfterListener["http"] = "peer" /\ AfterListener["peer"] = "stat"
      BY DEF AfterListener
    <3>2. \/ l = "udp" /\ AfterListener[l] = "tcp"
          \/ l = "tcp" /\ AfterListener[l] = "http"
          \/ l = "http" /\ AfterListener[l] = "peer"
          \/ l = "peer" /\ AfterListener[l] = "stat"
      BY <3>1, <3>a DEF Listeners
    <3> USE <3>1, <3>2 DEF IInv
    <3>3. TypeOK'
      BY DEF TypeOK, Steps, Idle, Listeners, Starting
    <3>4. Holds'
      <4>1. \A e \in Daemons \ {d} : held'[e] = held[e] /\ pc'[e] = pc[e]
        BY DEF TypeOK
      <4>2. pc'[d] = AfterListener[l]
        BY DEF TypeOK
      <4>3. held'[d] = held[d] \cup (IF addr[d][l] = "" THEN {} ELSE {l})
        BY DEF TypeOK
      <4>4. /\ "udp" \in held'[d] <=> addr[d]["udp"] # "" /\ pc'[d] \in UDPSteps
            /\ "tcp" \in held'[d] <=> addr[d]["tcp"] # "" /\ pc'[d] \in TCPSteps
            /\ "http" \in held'[d] <=> addr[d]["http"] # "" /\ pc'[d] \in HTTPSteps
            /\ "peer" \in held'[d] <=> addr[d]["peer"] # "" /\ pc'[d] \in PeerSteps
        BY <4>2, <4>3 DEF Holds, HeldAt, UDPSteps, TCPSteps, HTTPSteps, PeerSteps,
           Open, Starting
      <4> QED BY <4>1, <4>4, HoldsStep
    <3>5. Owned'
      BY DEF Owned, TypeOK, Attached
    <3>6. Exclusive'
      <4>0. PICK added : added = IF addr[d][l] = "" THEN {} ELSE {l}
        OBVIOUS
      <4>1. /\ \A k \in held'[d] : k \in held[d] \/ k \in added
            /\ \A e \in Daemons \ {d} : held'[e] = held[e]
        BY <4>0 DEF TypeOK
      <4>2. \A k \in added : \A e \in Daemons \ {d} :
               k \in held[e] => addr[e][k] # addr[d][k]
        BY <4>0, <2>2 DEF Taken
      <4>3. Exclusive /\ addr' = addr
        OBVIOUS
      <4> HIDE <3>1, <3>2 DEF IInv
      <4> QED BY <4>1, <4>2, <4>3, ExclusiveStep
    <3>7. Undisturbed'
      BY DEF Undisturbed, TypeOK, Idle
    <3> QED BY <3>3, <3>4, <3>5, <3>6, <3>7
  <2> QED BY <2>1, <2>2
<1>4. ASSUME NEW d \in Daemons, Stat(d) \/ Dial(d) \/ ListenControl(d) \/ Chmod(d) \/ Stop(d)
      PROVE  IInv'
  <2>1. CASE Gone(d, "refused")
    <3>1. d \in alone => file = Other
      <4>1. pc'[d] = "refused"
        BY <2>1 DEF Gone, Goto, IInv, TypeOK
      <4>2. CASE Stat(d)
        BY <4>1, <4>2 DEF Stat, Goto, AfterStat, IInv, TypeOK
      <4>3. CASE Dial(d)
        BY <4>1, <4>3 DEF Dial, Goto, Accepting, IInv, TypeOK, Undisturbed
      <4>4. CASE ListenControl(d) \/ Stop(d)
        BY <4>1, <4>4 DEF ListenControl, Stop, Goto, IInv, TypeOK
      <4>5. CASE Chmod(d)
        BY <4>1, <4>5 DEF Chmod, Goto, IInv, TypeOK, Undisturbed
      <4> QED BY <1>4, <4>2, <4>3, <4>4, <4>5
    <3> QED BY <2>1, <3>1, GoneKeeps
  <2>2. CASE ~Gone(d, "refused")
    <3>1. PICK step \in {"bind", "dial", "remove", "chmod", "serving", "stop_http"} :
             /\ pc' = [pc EXCEPT ![d] = step]
             /\ \/ pc[d] = "stat" /\ step = "bind" /\ file = NoFile
                \/ pc[d] = "stat" /\ step = "dial" /\ file \notin {NoFile, Other}
                \/ pc[d] = "dial" /\ step = "remove"
                \/ pc[d] = "listen" /\ step = "chmod"
                \/ pc[d] = "chmod" /\ step = "serving"
                \/ pc[d] = "serving" /\ step = "stop_http"
             /\ UNCHANGED <<addr, held, file, alone>>
      BY <1>4, <2>2 DEF Stat, AfterStat, Dial, ListenControl, Chmod, Stop, Goto
    <3> USE <3>1 DEF IInv
    <3>2. TypeOK'
      BY DEF TypeOK, Steps, Idle, Starting, Attached
    <3>3. Holds'
      BY ZenonT(60) DEF Holds, HeldAt, TypeOK, UDPSteps, TCPSteps, HTTPSteps, PeerSteps, Open,
           Starting
    <3>4. Owned' /\ Exclusive'
      BY DEF Owned, Exclusive, TypeOK, Attached
    <3>5. Undisturbed'
      BY DEF Undisturbed, TypeOK, Idle, Owned, Attached
    <3> QED BY <3>2, <3>3, <3>4, <3>5
  <2> QED BY <2>1, <2>2
<1>5. ASSUME NEW d \in Daemons, RemoveStale(d) \/ Bind(d)
      PROVE  IInv'
  <2>1. CASE Gone(d, "refused")
    <3>1. d \in alone => file = Other
      BY <1>5, <2>1 DEF RemoveStale, Bind, Gone, Goto, IInv, Undisturbed, TypeOK
    <3> QED BY <2>1, <3>1, GoneKeeps
  <2>2. CASE ~Gone(d, "refused")
    <3>1. /\ \/ pc[d] = "remove" /\ file' = NoFile /\ pc' = [pc EXCEPT ![d] = "bind"]
             \/ pc[d] = "bind" /\ file' = d /\ pc' = [pc EXCEPT ![d] = "listen"]
          /\ UNCHANGED <<addr, held, alone>>
      BY <1>5, <2>2 DEF RemoveStale, Bind, Goto
    <3> USE <3>1 DEF IInv
    <3>2. TypeOK'
      BY DEF TypeOK, Steps, Idle, Starting, Attached
    <3>3. Holds'
      BY ZenonT(60) DEF Holds, HeldAt, TypeOK, UDPSteps, TCPSteps, HTTPSteps, PeerSteps, Open,
           Starting
    <3>4. Owned' /\ Exclusive'
      BY DEF Owned, Exclusive, TypeOK, Attached
    <3>5. Undisturbed'
      BY DEF Undisturbed, TypeOK, Idle
    <3> QED BY <3>2, <3>3, <3>4, <3>5
  <2> QED BY <2>1, <2>2
<1>6. ASSUME NEW d \in Daemons, StopListener(d)
      PROVE  IInv'
  <2> DEFINE step == pc[d]
  <2>1. \/ step = "stop_http" /\ AfterStop[step] = "stop_peer" /\ Released[step] = {"http"}
        \/ step = "stop_peer" /\ AfterStop[step] = "stop_control" /\ Released[step] = {"peer"}
        \/ step = "stop_control" /\ AfterStop[step] = "stop_udp" /\ Released[step] = {}
        \/ step = "stop_udp" /\ AfterStop[step] = "stop_tcp" /\ Released[step] = {"udp"}
        \/ step = "stop_tcp" /\ AfterStop[step] = "unlink" /\ Released[step] = {"tcp"}
    BY <1>6 DEF StopListener, AfterStop, Released
  <2> USE <1>6, <2>1 DEF IInv, StopListener, Goto
  <2>2. TypeOK'
    BY DEF TypeOK, Steps, Idle, Attached, Detached
  <2>3. Holds'
    <3>1. \A e \in Daemons \ {d} : held'[e] = held[e] /\ pc'[e] = pc[e]
      BY DEF TypeOK
    <3>2. pc'[d] = AfterStop[step] /\ held'[d] = held[d] \ Released[step]
      BY DEF TypeOK
    <3>3. /\ "udp" \in held'[d] <=> addr[d]["udp"] # "" /\ pc'[d] \in UDPSteps
          /\ "tcp" \in held'[d] <=> addr[d]["tcp"] # "" /\ pc'[d] \in TCPSteps
          /\ "http" \in held'[d] <=> addr[d]["http"] # "" /\ pc'[d] \in HTTPSteps
          /\ "peer" \in held'[d] <=> addr[d]["peer"] # "" /\ pc'[d] \in PeerSteps
      BY <3>2 DEF Holds, HeldAt, UDPSteps, TCPSteps, HTTPSteps, PeerSteps,
         Open, Starting
    <3> QED BY <3>1, <3>3, HoldsStep
  <2>4. Owned'
    BY DEF Owned, TypeOK, Attached
  <2>5. Exclusive'
    BY DEF Exclusive, TypeOK
  <2>6. Undisturbed'
    BY DEF Undisturbed, TypeOK, Idle
  <2> QED BY <2>2, <2>3, <2>4, <2>5, <2>6
<1>7. ASSUME NEW d \in Daemons, Unlink(d)
      PROVE  IInv'
  <2> USE <1>7 DEF IInv, Unlink, Goto
  <2>1. held[d] = {}
    BY ZenonT(60) DEF Holds, HeldAt, TypeOK, UDPSteps, TCPSteps, HTTPSteps, PeerSteps, Open,
           Starting, Listeners
  <2>2. TypeOK'
    BY <2>1 DEF TypeOK, Steps, Idle
  <2>3. Holds'
    BY DEF Holds, HeldAt, TypeOK, UDPSteps, TCPSteps, HTTPSteps, PeerSteps, Open,
           Starting
  <2>4. Owned' /\ Exclusive'
    BY DEF Owned, Exclusive, TypeOK
  <2>5. Undisturbed'
    BY DEF Undisturbed, TypeOK, Idle
  <2> QED BY <2>2, <2>3, <2>4, <2>5
<1>8. CASE Outsider
  <2> USE <1>8 DEF IInv, Outsider
  <2>1. TypeOK'
    BY DEF TypeOK, Idle
  <2>2. Holds'
    BY DEF Holds, HeldAt
  <2>3. Owned' /\ Exclusive' /\ Undisturbed'
    BY DEF Owned, Exclusive, Undisturbed
  <2> QED BY <2>1, <2>2, <2>3
<1>9. CASE UNCHANGED vars
  <2> USE <1>9 DEF vars, IInv
  <2>1. TypeOK' /\ Undisturbed'
    BY DEF TypeOK, Idle, Undisturbed
  <2>2. Holds' /\ Owned' /\ Exclusive'
    BY DEF Holds, HeldAt, Owned, Exclusive
  <2> QED BY <2>1, <2>2
<1> QED
  BY <1>1, <1>2, <1>3, <1>4, <1>5, <1>6, <1>7, <1>8, <1>9 DEF Next

LEMMA Invariant == Spec => []IInv
  BY InvariantInit, InvariantNext, PTL DEF Spec

(* For any daemons and addresses the control state is sound, and a process *)
(* that ended holds nothing.                                               *)
THEOREM TypeCorrect == Spec => []TypeOK
  BY Invariant, PTL DEF IInv

(* Behind a control socket that can be found there is a daemon whose DNS   *)
(* sockets are bound (daemon.go:75-86, 199-211).                           *)
THEOREM DNSIsBehindSocket == Spec => []DNSBehindSocket
<1>1. IInv => DNSBehindSocket
  <2> SUFFICES ASSUME IInv, NEW d \in Daemons, file = d, addr[d]["udp"] # ""
               PROVE  "udp" \in held[d] /\ "tcp" \in held[d]
    BY DEF DNSBehindSocket
  <2>1. pc[d] \in Attached
    BY DEF IInv, Owned
  <2>2. addr[d]["tcp"] # ""
    BY ConfigAssumption DEF IInv, TypeOK
  <2> QED
    BY <2>1, <2>2 DEF IInv, Holds, HeldAt, Attached, UDPSteps, TCPSteps, Open
<1> QED BY <1>1, Invariant, PTL

(* However many crashes and shutdowns came before, a daemon that nobody    *)
(* runs beside takes over what they left (daemon.go:306-322).              *)
THEOREM AloneTakesOver == Spec => []AloneNeverRefused
<1>1. IInv => AloneNeverRefused
  BY DEF IInv, Undisturbed, AloneNeverRefused
<1> QED BY <1>1, Invariant, PTL

(* Contending daemons do not take the control socket of one another while  *)
(* they start: the listener they share keeps them from removeStaleSocket   *)
(* (daemon.go:75-86, 306-322).                                             *)
THEOREM OnlyShutdownTakesSockets == Spec => SocketLostOnlyToShutdown
<1> DEFINE Kept ==
      Contended =>
        \A d \in Daemons :
            pc[d] = "serving" /\ file = d /\ file' # d =>
                \/ pc'[d] # "serving"
                \/ \E e \in Daemons \ {d} : pc[e] \in {"stop_control", "unlink"}
<1>1. IInv /\ [Next]_vars => [Kept]_vars
  <2> SUFFICES ASSUME IInv, Next, Contended, NEW d \in Daemons,
                      pc[d] = "serving", file = d, file' # d, pc'[d] = "serving",
                      ~\E e \in Daemons \ {d} : pc[e] \in {"stop_control", "unlink"}
               PROVE  FALSE
    OBVIOUS
  <2> USE FileAssumption DEF IInv
  <2>1. ASSUME NEW e \in Daemons, e # d, pc[e] \in Starting
        PROVE  FALSE
    <3>1. PICK l \in Listeners : addr[d][l] # "" /\ addr[d][l] = addr[e][l]
      BY DEF Contended
    <3>2. l \in held[d] /\ l \in held[e]
      BY <2>1, <3>1 DEF Holds, HeldAt, Listeners, UDPSteps, TCPSteps, HTTPSteps,
         PeerSteps, Open
    <3> QED BY <2>1, <3>1, <3>2 DEF Exclusive
  <2>2. PICK e \in Daemons : file' # file /\
          \/ Start(e) \/ Crash(e) \/ Listen(e)
          \/ Stat(e) \/ Dial(e) \/ RemoveStale(e) \/ Bind(e)
          \/ ListenControl(e) \/ Chmod(e)
          \/ Stop(e) \/ StopListener(e) \/ Unlink(e)
    <3>1. ~Outsider
      BY DEF Outsider, Idle
    <3> QED BY <3>1 DEF Next
  <2>3. CASE e = d
    <3>1. ~Gone(e, "off") /\ ~Gone(e, "refused")
      BY <2>3 DEF Gone, Goto, TypeOK
    <3> QED
      BY <2>2, <2>3, <3>1 DEF Start, Crash, Listen, Stat, Dial, RemoveStale, Bind,
         ListenControl, Chmod, Stop, StopListener, Unlink, Idle, Listeners, AfterStop
  <2>4. CASE e # d
    <3>1. ~Gone(e, "off") /\ ~Gone(e, "refused")
      BY <2>2, <2>4 DEF Gone
    <3>2. pc[e] \notin {"stop_control", "unlink"}
      BY <2>4
    <3> QED
      BY <2>1, <2>2, <2>4, <3>1, <3>2 DEF Start, Crash, Listen, Stat, Dial, RemoveStale,
         Bind, ListenControl, Chmod, Stop, StopListener, Unlink, Starting
  <2> QED BY <2>3, <2>4
<1> QED BY <1>1, Invariant, PTL DEF Spec, SocketLostOnlyToShutdown

=============================================================================
