----------------------------- MODULE SmartRouter -----------------------------
(***************************************************************************)
(* resolve_route (core/smart_router.py) over the affinity store: the       *)
(* lookup, local or after an await in the mirror, the candidates' probes,  *)
(* the choice, and the record of the choice.  What a probe finds is any    *)
(* verdict; verdicts of one request are combined as they come.             *)
(***************************************************************************)
EXTENDS KvAffinity

CONSTANTS
    Requests,
    MaxRoutes,     \* bound: calls of resolve_route
    FallbackPrio   \* per candidate

ASSUME SmartRouterAssumption == MaxRoutes \in Nat /\ FallbackPrio \in [Candidates -> Nat]

VARIABLES
    affinityOn,    \* routing.kv_affinity.enabled
    overImmediate, \* prefer_affinity_over_immediate
    cacheGroup,  \* configured cache group of each candidate
    routing,     \* per request: where it is and what it has looked up
    routes,      \* calls so far
    choice       \* history: the choice just made

configVars == <<affinityOn, overImmediate, cacheGroup>>
routerVars == <<kvVars, configVars, routing, routes, choice>>

\* "ready": admitted and nobody ahead; "queued": admitted behind others;
\* "memory": session_memory, base_memory or waiting_unload.
Verdicts == [is : {"down", "ready", "queued", "concurrency", "memory"}, deep : BOOLEAN]
AtRest   == [at |-> "idle", size |-> 0, excluded |-> {}, record |-> NoRecord]
NoChoice == [to |-> 0, reason |-> "none"]

RouterTypeOK ==
    /\ KvTypeOK
    /\ affinityOn \in BOOLEAN /\ overImmediate \in BOOLEAN
    /\ cacheGroup \in [Candidates -> {1, 2}]
    /\ routing \in [Requests -> [at : {"idle", "remote", "probing"}, size : Sizes \cup {0},
                                 excluded : SUBSET Candidates, record : Record \cup {NoRecord}]]
    /\ routes \in 0 .. MaxRoutes

RouterInit ==
    /\ KvInit
    /\ affinityOn \in BOOLEAN /\ overImmediate \in BOOLEAN
    /\ cacheGroup = [c \in Candidates |-> 1]
    /\ routing = [r \in Requests |-> AtRest]
    /\ routes = 0 /\ choice = NoChoice

-----------------------------------------------------------------------------
\* The choice among the verdicts v of the candidates that were probed.

Eligible(v) == {c \in DOMAIN v : v[c].is # "down"}
CanRun(v)   == {c \in DOMAIN v : v[c].is = "ready"}

\* Deeper than the shallowest other queue, past both thresholds.
QueueOverloaded(v, p) ==
    v[p].deep /\ \E c \in Eligible(v) \ {p} : ~v[c].deep

\* First those that can start, then the shorter queue, the priority, the order.
Cost(v, c) == <<IF v[c].is = "ready" THEN 0 ELSE 1, IF v[c].deep THEN 1 ELSE 0, FallbackPrio[c], c>>

Before(x, y) ==
    \E i \in 1 .. Len(x) : x[i] < y[i] /\ \A j \in 1 .. i - 1 : x[j] = y[j]

BestAlternative(v, among) ==
    IF among = {} THEN 0
    ELSE CHOOSE c \in among : \A d \in among \ {c} : Before(Cost(v, c), Cost(v, d))

Chosen(c, reason) == [to |-> c, reason |-> reason]

\* Keep the preferred candidate p, or divert to the best other one.
OrAlternative(v, p, diverted, kept) ==
    LET other == BestAlternative(v, Eligible(v) \ {p})
    IN IF other # 0 THEN Chosen(other, diverted) ELSE Chosen(p, kept)

\* _select_with_affinity: NoChoice leaves the choice to the order of the items.
SelectWithAffinity(v, p, expired) ==
    CASE v[p].is \in {"ready", "queued"} ->
            IF ~QueueOverloaded(v, p) THEN Chosen(p, "affinity")
            ELSE IF overImmediate THEN OrAlternative(v, p, "affinity_queue_diverted", "affinity")
            ELSE NoChoice
      [] v[p].is = "concurrency" ->
            IF ~overImmediate THEN NoChoice
            ELSE IF ~QueueOverloaded(v, p) THEN Chosen(p, "affinity_wait_queue")
            ELSE OrAlternative(v, p, "affinity_queue_diverted", "affinity_wait_queue")
      [] OTHER ->
            IF CanRun(v) # {} THEN Chosen(BestAlternative(v, CanRun(v)), "affinity_resource_diverted")
            ELSE IF ~overImmediate THEN NoChoice
            ELSE IF ~expired THEN Chosen(p, "affinity_wait_resource")
            ELSE OrAlternative(v, p, "affinity_resource_timeout", "affinity_wait_no_alternative")

\* The first that can start, else the busy one with the smallest priority.
SelectInOrder(v) ==
    IF CanRun(v) # {} THEN Chosen(Min(CanRun(v)), "immediate")
    ELSE IF Eligible(v) = {} THEN NoChoice
    ELSE Chosen(CHOOSE c \in Eligible(v) : \A d \in Eligible(v) \ {c} :
                    Before(<<FallbackPrio[c], c>>, <<FallbackPrio[d], d>>), "busy_fallback")

\* Mutant of Usable: the recorded candidate may be down.
UsableWhenDown(v, record) ==
    /\ record # NoRecord
    /\ record.to \in DOMAIN v
    /\ record.group = cacheGroup[record.to]

\* The record still describes a candidate that is there and keeps its cache.
Usable(v, record) ==
    /\ record # NoRecord
    /\ record.to \in Eligible(v)
    /\ record.group = cacheGroup[record.to]

Decide(v, record, expired) ==
    LET kept == IF Usable(v, record) THEN SelectWithAffinity(v, record.to, expired) ELSE NoChoice
    IN IF kept # NoChoice THEN kept ELSE SelectInOrder(v)

-----------------------------------------------------------------------------
\* One request.

\* Before the first await: the local lookup.  The caller excludes a candidate
\* that has refused, or one that has failed and that it has forgotten first.
Resolve(r, size, excluded, failed) ==
    /\ routing[r].at = "idle" /\ routes < MaxRoutes
    /\ routes' = routes + 1
    /\ Cardinality(excluded) <= 1 /\ (failed => excluded # {})
    /\ LET kept == IF failed THEN Without(records, CHOOSE c \in excluded : TRUE) ELSE records
           hit  == IF affinityOn THEN Lookup(kept, AnchorBytes(size)) ELSE NoRecord
       IN /\ records' = IF affinityOn THEN Touched(kept, hit) ELSE kept
          /\ routing' = [routing EXCEPT ![r] =
                [at |-> IF affinityOn /\ hit = NoRecord THEN "remote" ELSE "probing",
                 size |-> size, excluded |-> excluded, record |-> hit]]
    /\ IF failed THEN Forget(CHOOSE c \in excluded : TRUE) ELSE UNCHANGED <<forgets, writers>>
    /\ choice' = NoChoice
    /\ UNCHANGED <<kvNow, mirror, configVars>>

\* MGET returns, or fails.
LookupRemote(r) ==
    /\ routing[r].at = "remote"
    /\ \E hit \in {LookupMirror(AnchorBytes(routing[r].size)), NoRecord} :
          /\ records' = IF hit = NoRecord THEN records ELSE Upsert(records, hit)
          /\ routing' = [routing EXCEPT ![r].at = "probing", ![r].record = hit]
    /\ choice' = NoChoice
    /\ UNCHANGED <<kvNow, mirror, writers, forgets, configVars, routes>>

\* Each candidate that is not excluded has been probed, one after the other.
ProbesIn(r, v) == DOMAIN v = Candidates \ routing[r].excluded

\* All probes are in.  An unusable record makes the router forget its candidate,
\* an excluded one included; the choice, if any, is remembered and mirrored.
Select(r, v, expired) ==
    /\ routing[r].at = "probing"
    /\ ProbesIn(r, v)
    /\ LET record == routing[r].record
           lost   == affinityOn /\ record # NoRecord /\ ~Usable(v, record)
           kept   == IF lost THEN Without(records, record.to) ELSE records
           decided == Decide(v, record, expired)
           fresh  == NewRecord(routing[r].size, decided.to, cacheGroup[decided.to])
           store  == affinityOn /\ decided # NoChoice
           late   == IF lost THEN {[op |-> "forget", to |-> record.to, anchors |-> {}]} ELSE {}
       IN /\ lost => forgets < MaxForgets
          /\ forgets' = IF lost THEN forgets + 1 ELSE forgets
          /\ records' = IF store THEN Upsert(Live(kept), fresh) ELSE kept
          /\ writers' = writers \cup late \cup IF store THEN {[op |-> "write", record |-> fresh]} ELSE {}
          /\ choice' = [to |-> decided.to, reason |-> decided.reason,
                        probed |-> [c \in DOMAIN v |-> v[c].is],
                        group |-> IF store THEN fresh.group ELSE 0, size |-> routing[r].size]
          /\ routing' = [routing EXCEPT ![r] = AtRest]
    /\ UNCHANGED <<kvNow, mirror, configVars, routes>>

\* A reload changes a candidate's cache group.
ReloadGroup(c) ==
    /\ cacheGroup' = [cacheGroup EXCEPT ![c] = 2]
    /\ choice' = NoChoice
    /\ UNCHANGED <<kvVars, affinityOn, overImmediate, routing, routes>>

RouterNext ==
    \/ \E r \in Requests :
          \/ \E size \in Sizes, excluded \in SUBSET Candidates, failed \in BOOLEAN :
                Resolve(r, size, excluded, failed)
          \/ LookupRemote(r)
          \/ \E v \in [Candidates \ routing[r].excluded -> Verdicts], expired \in BOOLEAN :
                Select(r, v, expired)
    \/ \E c \in Candidates : ReloadGroup(c)
    \/ KvStep /\ choice' = NoChoice /\ UNCHANGED <<configVars, routing, routes>>

RouterSpec == RouterInit /\ [][RouterNext]_routerVars

-----------------------------------------------------------------------------
\* Properties.

\* "Never unload a warm model while another candidate can start now": a request
\* waits for memory only when no candidate could start, and it always gets one
\* that was probed and is up, whatever stale record it followed.  The diversion
\* from a long queue is not covered: it may leave a candidate that could start.
WaitsOnlyWhenNothingStarts ==
    choice.reason # "none" =>
        /\ choice.to \in DOMAIN choice.probed /\ choice.probed[choice.to] # "down"
        /\ choice.probed[choice.to] = "memory" /\ choice.reason # "affinity_queue_diverted"
              => \A c \in DOMAIN choice.probed : choice.probed[c] # "ready"

\* The record follows the choice, on a diversion too and with a full store: the
\* same context is led to the candidate that is building its cache.
RecordFollowsChoice ==
    affinityOn /\ choice.reason # "none" =>
        LET found == Lookup(records, AnchorBytes(choice.size))
        IN found # NoRecord /\ found.to = choice.to /\ found.group = choice.group

\* A conversation that has only grown finds the record of an earlier turn.
\* (It does not hold: see the README.)
GrownContextFindsRecord ==
    \A i \in DOMAIN Live(records), s \in Sizes :
        Live(records)[i].size <= s => Lookup(records, AnchorBytes(s)) # NoRecord
=============================================================================
