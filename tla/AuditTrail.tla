----------------------------- MODULE AuditTrail ----------------------------
(***************************************************************************)
(* What the audit log promises of one task, without its writer: events and *)
(* closing (terminal) records are submitted, stored at most once each and  *)
(* never altered, and what became of each is told.  To be told stored is   *)
(* final for a submitter that went on.  A closing record cites only what   *)
(* is stored, and a task gets a second one only when the first was told    *)
(* lost.                                                                   *)
(***************************************************************************)
EXTENDS FiniteSets

CONSTANTS
    Records,
    Closing    \* those of Records that close the task

VARIABLES
    told,      \* what is known of a record: new, open, stored or lost
    awaited,   \* the records whose submitter still waits for an answer
    trail,     \* the records that reached the journal
    cites      \* the events a closing record refers to

trailVars == <<told, awaited, trail, cites>>

TrailInit ==
    /\ told = [r \in Records |-> "new"] /\ awaited = {} /\ trail = {}
    /\ cites = [c \in Closing |-> {}]

\* The submitter waits for what becomes of the record, or goes on.
Accept(r) ==
    /\ told[r] = "new"
    /\ \E fate \in {"open", "lost"} : told' = [told EXCEPT ![r] = fate]
    /\ awaited' \in {awaited, awaited \cup {r}}

Submit(r) == r \notin Closing /\ Accept(r) /\ UNCHANGED <<trail, cites>>

Close(r) ==
    /\ r \in Closing /\ Accept(r)
    /\ \A c \in Closing : told[c] \notin {"open", "stored"}
    /\ \E refs \in SUBSET trail : cites' = [cites EXCEPT ![r] = refs]
    /\ UNCHANGED trail

Store(r) ==
    /\ told[r] \in {"open", "lost"} /\ r \notin trail
    /\ trail' = trail \cup {r}
    /\ UNCHANGED <<told, awaited, cites>>

Released(r) == awaited' \in {awaited, awaited \ {r}}

TellStored(r) ==
    /\ r \in trail /\ told[r] = "open" /\ told' = [told EXCEPT ![r] = "stored"]
    /\ Released(r) /\ UNCHANGED <<trail, cites>>

\* Nobody takes back what a submitter that went on was told.
TellLost(r) ==
    /\ told[r] = "open" \/ (told[r] = "stored" /\ r \in awaited)
    /\ told' = [told EXCEPT ![r] = "lost"]
    /\ Released(r) /\ UNCHANGED <<trail, cites>>

GoOn(r) == r \in awaited /\ awaited' = awaited \ {r} /\ UNCHANGED <<told, trail, cites>>

TrailNext ==
    \E r \in Records :
        Submit(r) \/ Close(r) \/ Store(r) \/ TellStored(r) \/ TellLost(r) \/ GoOn(r)

TrailSpec == TrailInit /\ [][TrailNext]_trailVars
=============================================================================
