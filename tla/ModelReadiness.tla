--------------------------- MODULE ModelReadiness ---------------------------
(***************************************************************************)
(* The readiness history of one candidate (ModelReadinessTracker in        *)
(* core/kv_affinity.py): a sample per routing decision, of which only the  *)
(* changes are kept and only those the window needs, and the time blocked  *)
(* that the router reads off them.  There is no background prober, so      *)
(* samples may be any time apart.                                          *)
(***************************************************************************)
EXTENDS Naturals, Integers, Sequences, FiniteSets, SequencesExt, FiniteSetsExt

CONSTANTS
    Window,       \* history_window_seconds
    WarmLimit,    \* resource_wait_timeout_seconds
    RatioPercent, \* resource_blocked_ratio, of the observed span
    LastMoment    \* bound: time

ASSUME ModelReadinessAssumption ==
    Window \in Nat \ {0} /\ WarmLimit \in Nat /\ LastMoment \in Nat /\ RatioPercent \in 1 .. 100

VARIABLES
    moment,
    entry,    \* the candidate's entry, or none
    past,     \* history: the last sample's state through each unit of time
    streak    \* history: since when samples have come within the window

readinessVars == <<moment, entry, past, streak>>

Reasons == {"ready", "concurrency", "base_memory", "session_memory"}
StateOf(reason) == CASE reason \in {"base_memory", "session_memory"} -> "blocked"
                     [] reason = "ready" -> "ready"
                     [] OTHER -> "other"
NotBlocked == -1
NoEntry == [transitions |-> <<>>, since |-> NotBlocked, sampled |-> 0, reason |-> "none"]

ReadinessTypeOK ==
    /\ moment \in 0 .. LastMoment
    /\ entry.transitions \in Seq([ts : 0 .. LastMoment, reason : Reasons])
    /\ entry.since \in {NotBlocked} \cup 0 .. LastMoment
    /\ entry.sampled \in 0 .. LastMoment /\ entry.reason \in Reasons \cup {"none"}
    /\ past \in Seq({"blocked", "ready", "other", "none"}) /\ Len(past) = moment
    /\ streak \in 0 .. LastMoment

ReadinessInit ==
    /\ moment = 0 /\ entry = NoEntry /\ past = <<>> /\ streak = 0

-----------------------------------------------------------------------------
\* Mutant of Prune: nothing from before the window is kept.
PruneToWindow(transitions) ==
    LET inside == {i \in DOMAIN transitions : transitions[i].ts >= moment - Window}
    IN SubSeq(transitions, IF inside = {} THEN Len(transitions) ELSE Min(inside), Len(transitions))

\* The last transition before the window still says how the window begins.
Prune(transitions) ==
    LET inside == {i \in DOMAIN transitions : transitions[i].ts >= moment - Window}
        from == IF inside = {} THEN Len(transitions) ELSE Max({1, Min(inside) - 1})
    IN SubSeq(transitions, from, Len(transitions))

\* A gap longer than the window starts a new history.  The clock is finer than
\* the decisions: no two samples in one moment.
Sample(reason) ==
    /\ entry.reason = "none" \/ entry.sampled < moment
    /\ LET expired == entry.reason # "none" /\ moment - entry.sampled > Window
           old == IF expired THEN NoEntry ELSE entry
       IN /\ entry' =
               [transitions |-> Prune(IF old.reason = reason THEN old.transitions
                                      ELSE Append(old.transitions, [ts |-> moment, reason |-> reason])),
                since |-> IF StateOf(reason) # "blocked" THEN NotBlocked
                          ELSE IF old.since = NotBlocked THEN moment ELSE old.since,
                sampled |-> moment,
                reason |-> reason]
          /\ streak' = IF old.reason = "none" THEN moment ELSE streak
    /\ UNCHANGED <<moment, past>>

\* The model was unloaded or the candidate failed.
ClearCandidate ==
    /\ entry' = NoEntry
    /\ UNCHANGED <<moment, past, streak>>

ReadinessTick ==
    /\ moment < LastMoment
    /\ moment' = moment + 1
    /\ past' = Append(past, IF entry.reason = "none" THEN "none" ELSE StateOf(entry.reason))
    /\ UNCHANGED <<entry, streak>>

-----------------------------------------------------------------------------
\* What the router asks.

ObservedSpan ==
    IF entry.reason = "none" THEN 0 ELSE Min({Window, moment - entry.transitions[1].ts})

BlockedTime ==
    LET t == entry.transitions
        End(i) == IF i < Len(t) THEN t[i + 1].ts ELSE moment
        blocked == {i \in DOMAIN t : StateOf(t[i].reason) = "blocked"}
        inside == [i \in blocked |-> Max({0, End(i) - Max({t[i].ts, moment - Window})})]
    IN SumFunctionOnSet(inside, blocked)

\* A cold model is not worth a wait at all.
WaitLimit == IF entry.reason = "base_memory" THEN 0 ELSE WarmLimit

ShouldDivert ==
    /\ entry.since # NotBlocked
    /\ \/ moment - entry.since >= WaitLimit
       \/ /\ ObservedSpan >= Max({1, WaitLimit})
          /\ BlockedTime * 100 >= RatioPercent * ObservedSpan

ReadinessNext ==
    \/ \E reason \in Reasons : Sample(reason)
    \/ ClearCandidate
    \/ ReadinessTick

ReadinessSpec == ReadinessInit /\ [][ReadinessNext]_readinessVars

-----------------------------------------------------------------------------
\* Properties.

\* The router gives up on a warm, memory-blocked model exactly when the whole
\* history of samples says so: it has been blocked without a break for the
\* limit, or for the given part of what was observed.  Nothing that pruning
\* and the merging of equal samples dropped makes a difference.
DivertsOnTrueHistory ==
    entry.reason = "session_memory" =>
        LET seen == {u \in 1 .. moment : u > streak /\ u > moment - Window}
            blocked == {u \in seen : past[u] = "blocked"}
            unbroken == \A u \in 1 .. moment : u > moment - WarmLimit => u > streak /\ past[u] = "blocked"
        IN ShouldDivert <=>
             \/ unbroken /\ moment >= WarmLimit
             \/ Cardinality(seen) >= Max({1, WarmLimit})
                   /\ Cardinality(blocked) * 100 >= RatioPercent * Cardinality(seen)
=============================================================================
