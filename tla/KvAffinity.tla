----------------------------- MODULE KvAffinity -----------------------------
(***************************************************************************)
(* Which executor holds the prompt prefix of a conversation                *)
(* (core/kv_affinity.py): the records of the process, bounded, with an     *)
(* expiry, least recently used first, and their mirror in Redis, which     *)
(* detached coroutines write and delete from.  One conversation that only  *)
(* grows; a prefix of it is named by its length, as the hash would.        *)
(***************************************************************************)
EXTENDS Naturals, Sequences, FiniteSets, SequencesExt, FiniteSetsExt, Subsequences

CONSTANTS
    Candidates,  \* 1 .. n: the concrete models of one alias, in order
    Policy,      \* AnchorPolicy: bounds and ladder in bytes, ratios in permille
    Sizes,       \* context sizes of the requests, in bytes
    MaxEntries,
    Ttl,
    Horizon,     \* bound: time
    MaxForgets,  \* bound: calls of forget_candidate
    NoRecord

ASSUME KvAffinityAssumption ==
    /\ Candidates \subseteq Nat \ {0} /\ Sizes \subseteq Nat \ {0}
    /\ MaxEntries \in Nat \ {0} /\ Ttl \in Nat \ {0} /\ Horizon \in Nat /\ MaxForgets \in Nat

ASSUME PolicyAssumption ==
    /\ Policy \in [min : Nat, max : Nat, short : Nat, medium : Nat, long : Nat, shortRatio : Nat,
                   mediumRatio : Nat, longRatio : Nat, ladder : SUBSET Nat]
    /\ IsFiniteSet(Policy.ladder)

VARIABLES
    kvNow,
    records,   \* local store, least recently used first
    mirror,    \* Redis, per anchor length
    writers,   \* detached mirror coroutines under way
    forgets    \* calls of forget_candidate so far

kvVars == <<kvNow, records, mirror, writers, forgets>>

-----------------------------------------------------------------------------
\* AnchorPolicy.

Quantize(value) ==
    LET steps == {step \in Policy.ladder : step <= value}
    IN IF steps = {} THEN value ELSE Max(steps)

\* The share of a context that is hashed shrinks with its size.
Ratio(total) ==
    CASE total <= Policy.short  -> Policy.shortRatio
      [] total > Policy.short /\ total <= Policy.medium -> Policy.mediumRatio
      [] total > Policy.medium /\ total <= Policy.long ->
            Policy.mediumRatio - ((Policy.mediumRatio - Policy.longRatio) * (total - Policy.medium))
                                    \div Max({1, Policy.long - Policy.medium})
      [] OTHER -> Policy.longRatio

AnchorBytes(total) ==
    LET raw == (total * Ratio(total)) \div 1000
    IN Quantize(Min({total, Max({Policy.min, Min({Policy.max, raw})})}))

Anchors == {AnchorBytes(s) : s \in Sizes}

-----------------------------------------------------------------------------
\* The records.  size is history: the context that was remembered.

Record  == [anchor : Anchors, size : Sizes, to : Candidates, group : {1, 2},
            expires : 0 .. Horizon + Ttl]

ASSUME NoRecordAssumption == NoRecord \notin Record

Writers == [op : {"write"}, record : Record]
              \cup [op : {"forget", "delete"}, to : Candidates, anchors : SUBSET Anchors]

KvTypeOK ==
    /\ kvNow \in 0 .. Horizon
    /\ records \in Seq(Record) /\ Len(records) <= MaxEntries
    /\ \A i, j \in DOMAIN records : records[i].anchor = records[j].anchor => i = j
    /\ mirror \in [Anchors -> Record \cup {NoRecord}]
    /\ writers \subseteq Writers
    /\ forgets \in 0 .. MaxForgets

KvInit ==
    /\ kvNow = 0
    /\ records = <<>>
    /\ mirror = [a \in Anchors |-> NoRecord]
    /\ writers = {}
    /\ forgets = 0

Live(recs) == Subsequence(recs, {i \in DOMAIN recs : recs[i].expires > kvNow})

OtherAnchors(recs, anchor) == Subsequence(recs, {i \in DOMAIN recs : recs[i].anchor # anchor})

\* Mutant of Upsert: cut at the recent end.
UpsertDropsRecent(recs, r) ==
    LET all == Append(OtherAnchors(recs, r.anchor), r)
    IN IF Len(all) > MaxEntries THEN SubSeq(all, 1, MaxEntries) ELSE all

\* Inserted or refreshed at the recent end, then cut to the bound at the other.
Upsert(recs, r) ==
    LET all == Append(OtherAnchors(recs, r.anchor), r)
    IN IF Len(all) > MaxEntries THEN Tail(all) ELSE all

\* lookup: the longest live record no longer than the request's own anchor.
BestOf(found, anchor) ==
    LET usable == {r \in found : r.anchor <= anchor}
    IN IF usable = {} THEN NoRecord
       ELSE CHOOSE r \in usable : \A q \in usable : q.anchor <= r.anchor

Lookup(recs, anchor) == BestOf(Range(Live(recs)), anchor)

\* A hit becomes the most recently used record.
Touched(recs, hit) == IF hit = NoRecord THEN Live(recs) ELSE Upsert(Live(recs), hit)

\* lookup_remote: a mirrored record that has not expired, whatever has happened
\* to it in this process meanwhile, is inserted into the local store.
LookupMirror(anchor) ==
    BestOf({mirror[a] : a \in Anchors} \ {NoRecord}, anchor)

NewRecord(size, c, g) ==
    [anchor |-> AnchorBytes(size), size |-> size, to |-> c, group |-> g, expires |-> kvNow + Ttl]

\* forget_candidate: the local records go at once, the mirror's later.
Without(recs, c) == Subsequence(recs, {i \in DOMAIN recs : recs[i].to # c})

Forget(c) ==
    /\ forgets < MaxForgets
    /\ forgets' = forgets + 1
    /\ writers' = writers \cup {[op |-> "forget", to |-> c, anchors |-> {}]}

-----------------------------------------------------------------------------
\* The detached coroutines and the invalidation by an unload.

InvalidateCandidate(c) ==
    /\ Forget(c)
    /\ records' = Without(records, c)
    /\ UNCHANGED <<kvNow, mirror>>

\* SET and SADD in one pipeline.
WriteMirror(w) ==
    /\ w.op = "write"
    /\ mirror' = [mirror EXCEPT ![w.record.anchor] = w.record]
    /\ writers' = writers \ {w}
    /\ UNCHANGED <<kvNow, records, forgets>>

\* SMEMBERS and MGET, then DEL of the hashes that named the candidate then.
ForgetMirrorRead(w) ==
    /\ w.op = "forget"
    /\ LET stale == {a \in Anchors : mirror[a] # NoRecord /\ mirror[a].to = w.to}
       IN writers' = (writers \ {w})
                        \cup IF stale = {} THEN {} ELSE {[op |-> "delete", to |-> w.to, anchors |-> stale]}
    /\ UNCHANGED <<kvNow, records, mirror, forgets>>

ForgetMirrorDelete(w) ==
    /\ w.op = "delete"
    /\ mirror' = [a \in Anchors |-> IF a \in w.anchors THEN NoRecord ELSE mirror[a]]
    /\ writers' = writers \ {w}
    /\ UNCHANGED <<kvNow, records, forgets>>

\* A Redis error is swallowed.
MirrorFails(w) ==
    /\ writers' = writers \ {w}
    /\ UNCHANGED <<kvNow, records, mirror, forgets>>

\* Redis expires a key with its record.
KvTick ==
    /\ kvNow < Horizon
    /\ kvNow' = kvNow + 1
    /\ mirror' = [a \in Anchors |-> IF mirror[a] # NoRecord /\ mirror[a].expires <= kvNow + 1
                                    THEN NoRecord ELSE mirror[a]]
    /\ UNCHANGED <<records, writers, forgets>>

KvStep ==
    \/ \E c \in Candidates : InvalidateCandidate(c)
    \/ \E w \in writers : WriteMirror(w) \/ ForgetMirrorRead(w) \/ ForgetMirrorDelete(w) \/ MirrorFails(w)
    \/ KvTick
=============================================================================
