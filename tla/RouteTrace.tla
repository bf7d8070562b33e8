------------------------------ MODULE RouteTrace ----------------------------
(***************************************************************************)
(* A request that several aidir instances hand on to each other: the list  *)
(* of visited instances in its header, what an instance refuses, and what  *)
(* its worker adds on the way out.  Instances may bear the same name, the  *)
(* client may send any list, and each has its own limit of hops.           *)
(***************************************************************************)
EXTENDS Naturals, SequencesExt, Subsequences

CONSTANTS
    Instances, Names,
    NameOf,    \* [Instances -> Names]: the configured name of an instance
    MaxHops    \* [Instances -> Nat]: its routing.max_hops, at least 1

ASSUME HopsAssumption == MaxHops \in [Instances -> Nat \ {0}] /\ NameOf \in [Instances -> Names]

VARIABLES
    at,        \* the instance that has the request, with the list it came with
    visited,
    path,      \* the instances that made a task of it so far
    trail      \* open, refused, served

traceVars == <<at, visited, path, trail>>

Distinct(list) ==
    Subsequence(list, {i \in DOMAIN list : \A j \in DOMAIN list : list[j] = list[i] => i <= j})

\* The header of the first request is the client's.
TraceInit ==
    /\ at \in Instances
    /\ \E length \in 0..2 : \E list \in [1..length -> Names] : visited = Distinct(list)
    /\ path = <<>> /\ trail = "open"

Loops  == Contains(visited, NameOf[at])
TooFar == Len(visited) >= MaxHops[at]

RefuseTrace ==
    /\ trail = "open" /\ (Loops \/ TooFar) /\ trail' = "refused"
    /\ UNCHANGED <<at, visited, path>>

\* The list goes on as it came.
OutgoingUnsigned == visited

\* The instance makes a task of it and its worker sends it on to another one,
\* which reads the list without repetitions.
Outgoing == IF Contains(visited, NameOf[at]) THEN visited ELSE Append(visited, NameOf[at])

Forward(next) ==
    /\ trail = "open" /\ ~Loops /\ ~TooFar
    /\ path' = Append(path, at) /\ at' = next /\ visited' = Distinct(Outgoing)
    /\ UNCHANGED trail

ServeHere ==
    /\ trail = "open" /\ ~Loops /\ ~TooFar /\ trail' = "served"
    /\ path' = Append(path, at)
    /\ UNCHANGED <<at, visited>>

TraceNext == RefuseTrace \/ ServeHere \/ \E next \in Instances : Forward(next)

TraceSpec == TraceInit /\ [][TraceNext]_traceVars

---------------------------------------------------------------------------
\* However instances hand a request to each other and whatever list it came
\* with, no instance makes a second task of it, and none makes one that has
\* gone through as many instances as it allows.
VisitsAreBounded ==
    \A i \in DOMAIN path : i <= MaxHops[path[i]] /\ \A j \in DOMAIN path : path[j] = path[i] => i = j
=============================================================================
