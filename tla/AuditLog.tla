------------------------------ MODULE AuditLog -----------------------------
(***************************************************************************)
(* The audit log of one task (core/audit_log.py): the event loop submits   *)
(* records, a writer thread appends them to today's journal and indexes    *)
(* them, retention removes whole partitions (in the cron process, and in   *)
(* the thread that writes when the disk is full), and the writer is        *)
(* stopped, dies of an exception, or dies with the process.                *)
(***************************************************************************)
EXTENDS Naturals, Sequences, SequencesExt, FiniteSets, TLC

CONSTANTS
    Events,       \* the raw events of the task
    Terminals,    \* attempts to record its end (a task may be marked twice)
    Policies,     \* overflow policies: best_effort, durable
    QueueSize,
    MaxFaults,    \* bound: appends and commits that fail or raise, deaths of cron
    MaxSweeps     \* bound: retention passes that select today's partition

Records == Events \cup Terminals
Sweepers == {"cron", "core"}
StopItem == "stop"
Nothing == "nothing"

ASSUME AuditLogAssumption ==
    /\ QueueSize \in Nat \ {0} /\ MaxFaults \in Nat /\ MaxSweeps \in Nat
    /\ Events \cap Terminals = {} /\ {StopItem, Nothing} \cap Records = {}

VARIABLES
    policy,
    loop,       \* the event loop's thread: free, blocked (and why), stopping, or down
    subject,    \* the record it is blocked with
    wqueue,     \* the writer's queue
    writer,     \* idle, append, index, sweeping, signal, exited, or died
    inHand,     \* the writer's item, until its completion event is set
    attached,   \* _writer_queue is set
    receipts,   \* a record's receipt: new, pending, persisted, failed or dropped
    reserved,   \* _terminal_records of the task
    journal,    \* today's journal files
    index,      \* the SQLite index
    partition,  \* the state of today's partition
    sweep,      \* where a retention pass is
    written,    \* history: the records that were ever in the journal
    refs,       \* raw_event_refs of the terminal records
    toldLost,   \* history: the records whose submitter was told they are lost
    faults, sweeps

auditVars == <<policy, loop, subject, wqueue, writer, inHand, attached, receipts, reserved,
               journal, index, partition, sweep, written, refs, toldLost, faults, sweeps>>
loopVars == <<loop, subject>>
writerVars == <<writer, inHand>>
diskVars == <<journal, index, partition, sweep, written, sweeps>>

AuditTypeOK ==
    /\ policy \in Policies
    /\ loop \in {"free", "confirm", "full", "receipt", "expired", "writing", "committing", "sweeping",
                 "stopping", "down"}
    /\ subject \in Records \cup {Nothing}
    /\ wqueue \in Seq(Records \cup {StopItem}) /\ Len(wqueue) <= QueueSize
    /\ writer \in {"idle", "append", "index", "sweeping", "signal", "exited", "died"}
    /\ inHand \in Records \cup {Nothing} /\ attached \in BOOLEAN
    /\ receipts \in [Records -> {"new", "pending", "persisted", "failed", "dropped"}]
    /\ reserved \in Terminals \cup {Nothing}
    /\ journal \subseteq Records /\ index \subseteq Records /\ written \subseteq Records
    /\ partition \in {"open", "deleting", "deleted"}
    /\ sweep \in [Sweepers -> {"idle", "marked", "unlinked"}]
    /\ refs \in [Terminals -> SUBSET Events] /\ toldLost \subseteq Records
    /\ faults \in 0 .. MaxFaults /\ sweeps \in 0 .. MaxSweeps

AuditInit ==
    /\ policy \in Policies
    /\ loop = "free" /\ subject = Nothing /\ wqueue = <<>> /\ writer = "idle" /\ inHand = Nothing
    /\ attached = TRUE
    /\ receipts = [r \in Records |-> "new"] /\ reserved = Nothing
    /\ journal = {} /\ index = {} /\ partition = "open" /\ sweep = [s \in Sweepers |-> "idle"]
    /\ written = {} /\ refs = [t \in Terminals |-> {}] /\ toldLost = {} /\ faults = 0 /\ sweeps = 0

-----------------------------------------------------------------------------
\* Submitting a record, in the event loop's thread.

\* The writer holds the lock while it appends and commits.
LockFree == writer # "index"

\* _complete_receipt: a terminal record that is not persisted frees its place.
Complete(r, status) ==
    /\ receipts' = [receipts EXCEPT ![r] = status]
    /\ toldLost' = IF status = "persisted" THEN toldLost ELSE toldLost \cup {r}
    /\ reserved' = IF status # "persisted" /\ reserved = r THEN Nothing ELSE reserved

\* _record_failure of a full disk: today's partition is marked, and swept by the
\* thread that failed.
FullDisk ==
    /\ sweeps < MaxSweeps /\ sweeps' = sweeps + 1
    /\ partition' = "deleting" /\ sweep' = [sweep EXCEPT !["core"] = "marked"]

\* best_effort drops when the queue is full; durable blocks for capacity, then
\* for the receipt.
Enqueue(r) ==
    IF Len(wqueue) < QueueSize
    THEN /\ wqueue' = Append(wqueue, r)
         /\ receipts' = [receipts EXCEPT ![r] = "pending"]
         /\ UNCHANGED toldLost
         /\ IF policy = "durable" THEN loop' = "receipt" /\ subject' = r
            ELSE loop' = "free" /\ subject' = Nothing
    ELSE /\ UNCHANGED wqueue
         /\ IF policy = "durable"
            THEN /\ loop' = "full" /\ subject' = r
                 /\ receipts' = [receipts EXCEPT ![r] = "pending"] /\ UNCHANGED toldLost
            ELSE /\ loop' = "free" /\ subject' = Nothing
                 /\ receipts' = [receipts EXCEPT ![r] = "dropped"] /\ toldLost' = toldLost \cup {r}

RecordEvent(r) ==
    /\ loop = "free" /\ attached /\ LockFree /\ receipts[r] = "new"
    /\ Enqueue(r)
    /\ UNCHANGED <<policy, writerVars, attached, reserved, diskVars, refs, faults>>

\* Without a writer thread a record is written in the caller's.
RecordSync(r) ==
    /\ loop = "free" /\ ~attached /\ receipts[r] = "new"
    /\ receipts' = [receipts EXCEPT ![r] = "pending"] /\ loop' = "writing" /\ subject' = r
    /\ UNCHANGED <<policy, wqueue, writerVars, attached, reserved, diskVars, refs, toldLost, faults>>

AppendSync ==
    /\ loop = "writing" /\ loop' = "committing"
    /\ journal' = journal \cup {subject} /\ written' = written \cup {subject}
    /\ UNCHANGED <<policy, subject, wqueue, writerVars, attached, receipts, reserved, index, partition, sweep, sweeps, refs, toldLost, faults>>

CommitSync ==
    /\ loop = "committing" /\ loop' = "free" /\ subject' = Nothing
    /\ index' = index \cup {subject} /\ Complete(subject, "persisted")
    /\ UNCHANGED <<policy, wqueue, writerVars, attached, journal, written, partition, sweep, sweeps, refs, faults>>

\* Every exception is caught here; of a full disk the caller first sweeps.
SyncFails ==
    /\ loop \in {"writing", "committing"} /\ faults < MaxFaults /\ faults' = faults + 1
    /\ \/ loop' = "free" /\ subject' = Nothing /\ Complete(subject, "failed") /\ UNCHANGED <<partition, sweep, sweeps>>
       \/ loop = "writing" /\ FullDisk /\ loop' = "sweeping" /\ UNCHANGED <<subject, receipts, reserved, toldLost>>
    /\ UNCHANGED <<policy, wqueue, writerVars, attached, journal, index, written, refs>>

SweptByCaller ==
    /\ loop = "sweeping" /\ sweep["core"] = "idle"
    /\ loop' = "free" /\ subject' = Nothing /\ Complete(subject, "failed")
    /\ UNCHANGED <<policy, wqueue, writerVars, attached, diskVars, refs, faults>>

PutWhenRoom ==
    /\ loop = "full" /\ Len(wqueue) < QueueSize
    /\ wqueue' = Append(wqueue, subject) /\ loop' = "receipt"
    /\ UNCHANGED <<policy, subject, writerVars, attached, receipts, reserved, diskVars, refs, toldLost, faults>>

PutTimesOut ==
    /\ loop = "full" /\ Len(wqueue) >= QueueSize /\ Complete(subject, "dropped")
    /\ loop' = "free" /\ subject' = Nothing
    /\ UNCHANGED <<policy, wqueue, writerVars, attached, diskVars, refs, faults>>

\* The writer sets the completion event when it is done with the item, whatever
\* became of it.
Signaled(r) == r \notin Range(wqueue) /\ inHand # r

ReceiptArrives ==
    /\ loop = "receipt" /\ Signaled(subject)
    /\ loop' = "free" /\ subject' = Nothing
    /\ UNCHANGED <<policy, wqueue, writerVars, attached, receipts, reserved, diskVars, refs, toldLost, faults>>

\* The wait for the event expires; the item stays where it is.
ReceiptExpires ==
    /\ loop = "receipt" /\ ~Signaled(subject) /\ loop' = "expired"
    /\ UNCHANGED <<policy, subject, wqueue, writerVars, attached, receipts, reserved, diskVars, refs, toldLost, faults>>

\* Meanwhile the lock may have been waited for: the receipt is overwritten,
\* whatever the writer has made of it.
ReceiptTimesOut ==
    /\ loop = "expired" /\ LockFree /\ Complete(subject, "failed")
    /\ loop' = "free" /\ subject' = Nothing
    /\ UNCHANGED <<policy, wqueue, writerVars, attached, diskVars, refs, faults>>

-----------------------------------------------------------------------------
\* The terminal record: wait for every receipt of the task, then submit once.

BeginTerminal(t) ==
    /\ loop = "free" /\ LockFree /\ receipts[t] = "new"
    /\ loop' = "confirm" /\ subject' = t
    /\ UNCHANGED <<policy, wqueue, writerVars, attached, receipts, reserved, diskVars, refs, toldLost, faults>>

Settled == \A r \in Records : receipts[r] # "pending"
Visible == IF partition = "deleting" THEN {} ELSE index
\* Mutant of Confirmed: a record that failed or was dropped counts.
ConfirmedAnyway == Visible \cup {r \in Records : receipts[r] # "new"}

Confirmed == Visible \cup {r \in Records : receipts[r] = "persisted"}
Closed == reserved # Nothing \/ Visible \cap Terminals \cap journal # {}

SubmitTerminal ==
    /\ loop = "confirm" /\ LockFree /\ Settled
    /\ IF Closed
       THEN loop' = "free" /\ subject' = Nothing /\ UNCHANGED <<wqueue, receipts, reserved, refs, toldLost>>
       ELSE /\ refs' = [refs EXCEPT ![subject] = Confirmed \cap Events]
            /\ IF attached
               THEN /\ Enqueue(subject)
                    /\ reserved' = IF receipts'[subject] = "dropped" THEN reserved ELSE subject
               ELSE /\ receipts' = [receipts EXCEPT ![subject] = "pending"] /\ reserved' = subject
                    /\ loop' = "writing" /\ UNCHANGED <<subject, wqueue, toldLost>>
    /\ UNCHANGED <<policy, writerVars, attached, diskVars, faults>>

-----------------------------------------------------------------------------
\* The writer thread.

Take ==
    /\ writer = "idle" /\ wqueue # <<>> /\ wqueue' = Tail(wqueue)
    /\ IF Head(wqueue) = StopItem THEN writer' = "exited" /\ UNCHANGED inHand
       ELSE writer' = "append" /\ inHand' = Head(wqueue)
    /\ UNCHANGED <<policy, loopVars, attached, receipts, reserved, diskVars, refs, toldLost, faults>>

AppendRecord ==
    /\ writer = "append" /\ writer' = "index"
    /\ journal' = journal \cup {inHand} /\ written' = written \cup {inHand}
    /\ UNCHANGED <<policy, loopVars, wqueue, inHand, attached, receipts, reserved, index, partition, sweep, sweeps, refs, toldLost, faults>>

IndexRecord ==
    /\ writer = "index" /\ writer' = "signal"
    /\ index' = index \cup {inHand} /\ Complete(inHand, "persisted")
    /\ UNCHANGED <<policy, loopVars, wqueue, inHand, attached, journal, partition, sweep, written, sweeps, refs, faults>>

\* The append or the commit fails with an OSError or an SQLite error; a full
\* disk is swept before the receipt.
WriteFails ==
    /\ writer \in {"append", "index"} /\ faults < MaxFaults /\ faults' = faults + 1
    /\ \/ writer' = "signal" /\ Complete(inHand, "failed") /\ UNCHANGED <<partition, sweep, sweeps>>
       \/ writer = "append" /\ FullDisk /\ writer' = "sweeping" /\ UNCHANGED <<receipts, reserved, toldLost>>
    /\ UNCHANGED <<policy, loopVars, wqueue, inHand, attached, journal, index, written, refs>>

\* Any other exception ends the thread (a lone surrogate that has no encoding):
\* the completion event is set, the receipt stays pending.
WriterRaises ==
    /\ writer = "append" /\ faults < MaxFaults /\ faults' = faults + 1
    /\ writer' = "died" /\ inHand' = Nothing
    /\ UNCHANGED <<policy, loopVars, wqueue, attached, receipts, reserved, diskVars, refs, toldLost>>

\* An SQLite error of the sweep leaves _record_failure, and ends the thread too.
SweepRaises ==
    /\ writer = "sweeping" /\ writer' = "died" /\ inHand' = Nothing
    /\ sweep' = [sweep EXCEPT !["core"] = "idle"]
    /\ UNCHANGED <<policy, loopVars, wqueue, attached, receipts, reserved, journal, index, partition, written, sweeps, refs, toldLost, faults>>

\* An OSError of the sweep (an SQLite error too, in the caller's thread) only
\* ends the sweep.
SweepBreaks ==
    /\ sweep["core"] # "idle" /\ sweep' = [sweep EXCEPT !["core"] = "idle"]
    /\ UNCHANGED <<policy, loopVars, wqueue, writerVars, attached, receipts, reserved, journal, index, partition, written, sweeps, refs, toldLost, faults>>

\* Mutant of SweptByWriter: the receipt is forgotten.
SweptSilently ==
    /\ writer = "sweeping" /\ sweep["core"] = "idle" /\ writer' = "signal"
    /\ UNCHANGED <<policy, loopVars, wqueue, inHand, attached, receipts, reserved, toldLost, diskVars, refs, faults>>

SweptByWriter ==
    /\ writer = "sweeping" /\ sweep["core"] = "idle"
    /\ writer' = "signal" /\ Complete(inHand, "failed")
    /\ UNCHANGED <<policy, loopVars, wqueue, inHand, attached, diskVars, refs, faults>>

SignalDone ==
    /\ writer = "signal" /\ writer' = "idle" /\ inHand' = Nothing
    /\ UNCHANGED <<policy, loopVars, wqueue, attached, receipts, reserved, diskVars, refs, toldLost, faults>>

-----------------------------------------------------------------------------
\* stop_writer blocks the loop: put the stop item, then join, each 3 s at most.
\* Only a writer that has ended is detached.  Core.stop calls it once.

Ended == writer \in {"exited", "died"}

StopWriter ==
    /\ loop = "free" /\ attached /\ StopItem \notin Range(wqueue) /\ writer # "exited"
    /\ Len(wqueue) < QueueSize
    /\ wqueue' = Append(wqueue, StopItem) /\ loop' = "stopping"
    /\ UNCHANGED <<policy, subject, writerVars, attached, receipts, reserved, diskVars, refs, toldLost, faults>>

Joined ==
    /\ loop = "stopping" /\ Ended
    /\ loop' = "free" /\ attached' = FALSE
    /\ UNCHANGED <<policy, subject, wqueue, writerVars, receipts, reserved, diskVars, refs, toldLost, faults>>

JoinTimesOut ==
    /\ loop = "stopping" /\ ~Ended
    /\ loop' = "free"
    /\ UNCHANGED <<policy, subject, wqueue, writerVars, attached, receipts, reserved, diskVars, refs, toldLost, faults>>

\* The process dies; the journal and the index stay.
Crash ==
    /\ loop' = "down" /\ subject' = Nothing /\ wqueue' = <<>> /\ writer' = "exited" /\ inHand' = Nothing
    /\ attached' = FALSE /\ sweep' = [sweep EXCEPT !["core"] = "idle"]
    /\ UNCHANGED <<policy, receipts, reserved, journal, index, partition, written, sweeps, refs, toldLost, faults>>

-----------------------------------------------------------------------------
\* Retention of today's partition (the emergency limit with no other partition
\* left), in the cron process; reconcile_partitions resumes an interrupted one.

\* Mutant of SweepBegins: an interrupted removal is not looked for.
SweepBeginsAnew ==
    /\ sweep["cron"] = "idle"
    /\ sweeps < MaxSweeps /\ sweeps' = sweeps + 1 /\ partition' = "deleting"
    /\ sweep' = [sweep EXCEPT !["cron"] = "marked"]
    /\ UNCHANGED <<policy, loopVars, wqueue, writerVars, attached, receipts, reserved, journal, index, written, refs, toldLost, faults>>

SweepBegins ==
    /\ sweep["cron"] = "idle"
    /\ \/ sweeps < MaxSweeps /\ sweeps' = sweeps + 1 /\ partition' = "deleting"
       \/ partition = "deleting" /\ UNCHANGED <<sweeps, partition>>
    /\ sweep' = [sweep EXCEPT !["cron"] = "marked"]
    /\ UNCHANGED <<policy, loopVars, wqueue, writerVars, attached, receipts, reserved, journal, index, written, refs, toldLost, faults>>

Unlink(s) ==
    /\ sweep[s] = "marked" /\ sweep' = [sweep EXCEPT ![s] = "unlinked"]
    /\ journal' = {}
    /\ UNCHANGED <<policy, loopVars, wqueue, writerVars, attached, receipts, reserved, index, partition, written, sweeps, refs, toldLost, faults>>

DropRows(s) ==
    /\ sweep[s] = "unlinked" /\ sweep' = [sweep EXCEPT ![s] = "idle"]
    /\ index' = {} /\ partition' = "deleted"
    /\ UNCHANGED <<policy, loopVars, wqueue, writerVars, attached, receipts, reserved, journal, written, sweeps, refs, toldLost, faults>>

CronDies ==
    /\ sweep["cron"] # "idle" /\ sweep' = [sweep EXCEPT !["cron"] = "idle"]
    /\ faults < MaxFaults /\ faults' = faults + 1
    /\ UNCHANGED <<policy, loopVars, wqueue, writerVars, attached, receipts, reserved, journal, index, partition, written, sweeps, refs, toldLost>>

-----------------------------------------------------------------------------
LoopActs ==
    \/ PutWhenRoom \/ PutTimesOut \/ ReceiptArrives \/ ReceiptExpires \/ ReceiptTimesOut
    \/ AppendSync \/ CommitSync \/ SyncFails \/ SweptByCaller
    \/ SubmitTerminal \/ Joined \/ JoinTimesOut
WriterActs == Take \/ AppendRecord \/ IndexRecord \/ SweptByWriter \/ SignalDone
WriterFaults == WriteFails \/ WriterRaises \/ SweepRaises
AuditNext ==
    \/ \E e \in Events : RecordEvent(e) \/ RecordSync(e)
    \/ \E t \in Terminals : BeginTerminal(t)
    \/ LoopActs \/ WriterActs \/ WriterFaults
    \/ StopWriter \/ Crash
    \/ SweepBegins \/ SweepBreaks \/ CronDies
    \/ \E s \in Sweepers : Unlink(s) \/ DropRows(s)

AuditSpec == AuditInit /\ [][AuditNext]_auditVars

\* The writer thread, the loop's waits and the hourly retention go on.
AuditFairness ==
    /\ WF_auditVars(WriterActs \/ WriterFaults) /\ WF_auditVars(LoopActs)
    /\ \A s \in Sweepers : WF_auditVars(Unlink(s) \/ DropRows(s))
    /\ WF_auditVars(SweepBegins)

-----------------------------------------------------------------------------
\* Properties.

\* audit_log.py keeps the promises of the trail: nothing is stored that was not
\* submitted, a closing record cites only what reached the journal
\* (spec/operations.md:591-593), what was told stored is lost no more once its
\* submitter goes on (until then a late time-out may overwrite the receipt), and
\* a task is closed a second time only after the first closing record was
\* reported lost.
Told(r) == IF r \in toldLost THEN "lost"
           ELSE IF receipts[r] = "new" THEN "new"
           ELSE IF receipts[r] = "persisted" THEN "stored" ELSE "open"
Awaited == IF loop \in {"full", "receipt", "expired", "writing", "committing", "sweeping"}
           THEN {subject} ELSE {}
Trail == INSTANCE AuditTrail WITH
    Closing <- Terminals, told <- [r \in Records |-> Told(r)], awaited <- Awaited, trail <- written, cites <- refs
KeepsTrail == Trail!TrailSpec

\* An interrupted removal of a partition is resumed by a later retention pass.
RemovalsFinish == partition = "deleting" ~> partition # "deleting"

\* A task's end waits for receipts of its records only as long as the writer
\* needs: through full queues, expired waits, failed writes and full disks.  Two
\* ways to lose the writer are left: a stop of it that timed out, and an
\* exception that the thread does not catch (audit_log.py:171, 268-273).
StopsLate == attached /\ (StopItem \in Range(wqueue) \/ writer = "exited") /\ loop # "stopping"
ConfirmEnds == loop = "confirm" ~> (loop # "confirm" \/ StopsLate \/ writer = "died")

\* audit_log.py stop_writer, "wait only the configured bounded time", and
\* queue_manager.py:563, "without affecting task completion": the loop's
\* thread is never blocked for ever by the receipts of a task.
LoopGoesOn == loop = "confirm" ~> loop # "confirm"

\* proposal_log_refactoring: a terminal task record is stored exactly once.
ClosedOnce == Cardinality(written \cap Terminals) <= 1
=============================================================================
