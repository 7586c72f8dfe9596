------------------------------ MODULE Requests ------------------------------
(***************************************************************************)
(* The readers of the directory: GET /v1/resolve and GET /v1/services of   *)
(* api.go, the HTTP proxy and the DNS handler.  Each read of the registry  *)
(* takes its lock on its own, so the tiers may change between the Lookup   *)
(* and the Conflict of one request, and between List and Conflicts.        *)
(*                                                                         *)
(* One request is in flight at a time: readers do not affect one another.  *)
(***************************************************************************)
EXTENDS Registry

CONSTANTS
    CoreSuffixed,   \* the spellings isCoreName accepts
    Asked           \* the spellings clients ask for

ASSUME SuffixAssumption ==
    /\ CoreNames \subseteq CoreSuffixed
    /\ Asked \subseteq Spellings

VARIABLE
    request   \* kind, the handler's name, the label it is at, its answer (in a
              \* listing: what it shows of that name); auxiliary: seen, the
              \* standings of the name while the request was in flight

allVars == <<vars, request>>

(* The DNS response codes next to the HTTP status codes.                   *)
NOERROR  == 0
FORMERR  == 1
NXDOMAIN == 3
REFUSED  == 5

Kinds == {"resolve", "proxy", "dns", "list", "advertise"}

NoRequest ==
    [kind |-> "none", name |-> Absent, pc |-> "done", code |-> NOERROR,
     service |-> Absent, conflicts |-> {}, seen |-> {}]

(* What the directory holds of a name at one instant.                      *)
Standing(n) ==
    {fact \in {"routed", "conflict"} :
        IF fact = "routed" THEN Lookup(n) # Absent ELSE Conflict(n)}

Started(kind, n) ==
    [NoRequest EXCEPT !.kind = kind, !.name = n, !.seen = {Standing(n)}]

Answered(kind, n, code, service) ==
    [Started(kind, n) EXCEPT !.code = code, !.service = service]

(* The proxy and /v1/resolve look the name up first, and ask why only when *)
(* that fails.                                                             *)
LookupFirst(kind, n) ==
    IF Lookup(n) # Absent THEN Answered(kind, n, 200, Lookup(n))
                          ELSE [Started(kind, n) EXCEPT !.pc = "conflict"]

(* Mutant: a conflicted name is refused before it is looked up.            *)
handleResolveConflictFirst(s) ==
    LET n == NormalizeName(s)
    IN  request' = IF ~ValidateName(n) THEN Answered("resolve", n, 400, Absent)
                   ELSE IF Conflict(n) THEN Answered("resolve", n, 409, Absent)
                   ELSE LookupFirst("resolve", n)

handleResolve(s) ==
    LET n == NormalizeName(s)
    IN  request' = IF ValidateName(n) THEN LookupFirst("resolve", n)
                                      ELSE Answered("resolve", n, 400, Absent)

(* The proxy does not validate the host; Lookup normalizes it once more.   *)
ProxyHandler(s) == request' = LookupFirst("proxy", NormalizeName(s))

(* A message that is not one plain query, a question in another class or   *)
(* for another domain, and a .core name, whose answer says that the name   *)
(* exists (the service itself is kept for the properties only).            *)
ServeDNS(s) ==
    LET n == NormalizeName(s)
    IN  \/ request' = Answered("dns", n, FORMERR, Absent)
        \/ request' = Answered("dns", n, REFUSED, Absent)
        \/ /\ n \in CoreSuffixed
           /\ request' = Answered("dns", n, IF Lookup(n) = Absent THEN NXDOMAIN
                                            ELSE NOERROR, Lookup(n))

(* A listing, of which the client looks at one valid name.                 *)
handleServices(list, withConflicts, n) ==
    /\ n \in CoreNames
    /\ request' = IF withConflicts
                      THEN [Started("list", n) EXCEPT !.service = list[n],
                                                      !.pc = "conflicts"]
                      ELSE Answered("advertise", n, 200, list[n])

(* What the control socket and the peer listener serve of it; the proxy and*)
(* the DNS handler have listeners of their own.                            *)
ControlMux(s) == handleServices(List, TRUE, NormalizeName(s)) \/ handleResolve(s)

PeerMux(s) == handleServices(ListLocal, FALSE, NormalizeName(s)) \/ handleResolve(s)

Begin ==
    /\ request.pc = "done"
    /\ \E s \in Asked : ControlMux(s) \/ PeerMux(s) \/ ProxyHandler(s) \/ ServeDNS(s)
    /\ UNCHANGED vars

CheckConflict ==
    /\ request.pc = "conflict"
    /\ request' = [request EXCEPT !.pc = "done",
                      !.code = IF Conflict(request.name) THEN 409 ELSE 404]
    /\ UNCHANGED vars

ListConflicts ==
    /\ request.pc = "conflicts"
    /\ request' = [request EXCEPT !.pc = "done", !.code = 200,
                                  !.conflicts = Conflicts \cap {request.name}]
    /\ UNCHANGED vars

(* A writer's step, seen by the request that is in flight; an answer that  *)
(* was given before it is forgotten.                                       *)
Write ==
    /\ Next
    /\ request' =
          IF request.pc = "done" THEN NoRequest
          ELSE [request EXCEPT !.seen = @ \cup {Standing(n)' : n \in {request.name}}]

RequestsInit == Init /\ request = NoRequest

RequestsNext == Begin \/ CheckConflict \/ ListConflicts \/ Write

RequestsSpec == RequestsInit /\ [][RequestsNext]_allVars

-----------------------------------------------------------------------------
(* What an answer says of its name: that it is routed and, where it says   *)
(* so, whether it is in conflict.                                          *)
SaysRouted ==
    IF request.kind = "list" THEN request.service # Absent
                             ELSE request.code \in {200, NOERROR}

SaysWhy == request.kind = "list" \/ request.code \in {404, 409}

SaysConflict ==
    IF request.kind = "list" THEN request.name \in request.conflicts
                             ELSE request.code = 409

(* The answer to a request is the standing its name had at one instant of  *)
(* the request, although it is put together from two reads with writers in *)
(* between: unless a conflict over the very name began or ended meanwhile. *)
(* Then, and only then, it may join what was true at one instant with what *)
(* was true at another, as a 404 for a name that was in conflict and then  *)
(* routed (api.go:69-71, 114-122; proxy.go:48-62; dns.go:53).              *)
AnswersOneInstant ==
    request.pc = "done" /\ request.kind \in {"resolve", "proxy", "dns", "list"}
    /\ request.code \notin {400, FORMERR, REFUSED} =>
        \E standing \in request.seen :
            /\ "routed" \in standing <=> SaysRouted
            /\ \/ SaysWhy => ("conflict" \in standing <=> SaysConflict)
               \/ \E before, after \in request.seen :
                     "conflict" \in before /\ "conflict" \notin after

(* "A conflicted name is not routed": for a name that is in conflict as    *)
(* long as the request takes, no listener routes, resolves, lists or       *)
(* advertises a service, except one of the configuration or a registration *)
(* (docs/specs/specs-0.2.md:410-418, 426-428).  The code searches the other*)
(* nodes for such a name (registry.go:197).                                *)
ConflictedNotRouted ==
    request.pc = "done" /\ request.service # Absent
    /\ (\A standing \in request.seen : "conflict" \in standing) =>
        request.service.source \in {SourceConfig, SourceRuntime}

(* A backend a request is sent to serves that name: it was filed under it, *)
(* by a source that could be trusted with it (proxy.go:48-62).             *)
RoutedToOwnName ==
    request.service # Absent =>
        /\ request.service.name = NormalizeName(request.name)
        /\ request.service.name \in CoreNames
        /\ request.service.address # NoAddress
=============================================================================
