--------------------------- MODULE AuditLog_proofs ---------------------------
(***************************************************************************)
(* For any events, attempts to close the task, queue size and policies:    *)
(* the audit log implements the trail.                                     *)
(***************************************************************************)
EXTENDS AuditLog, TLAPS

\* Where a record waits to be written: the queue, the writer's hand, or the call
\* that still has to put or write it.
InQueue(r)  == \E i \in 1 .. Len(wqueue) : wqueue[i] = r
InCall(r)   == loop \in {"full", "writing", "committing", "sweeping"} /\ subject = r
Underway(r) == InQueue(r) \/ (inHand = r /\ writer # "signal") \/ InCall(r)

\* A record waits in one place, once.
OnePlace ==
    /\ \A i, j \in 1 .. Len(wqueue) : wqueue[i] = wqueue[j] /\ wqueue[i] # StopItem => i = j
    /\ \A r \in Records : ~(InQueue(r) /\ inHand = r) /\ ~(InCall(r) /\ (InQueue(r) \/ inHand = r))

\* What a receipt says of its record is so.
ReceiptsTrue ==
    \A r \in Records :
        /\ receipts[r] = "new" => r \notin written /\ r \notin toldLost /\ ~Underway(r) /\ inHand # r
        /\ receipts[r] = "persisted" => r \in written /\ ~Underway(r)
        /\ receipts[r] \in {"failed", "dropped"} => r \in toldLost

\* What the control points of the two threads say of the record they have.
Places ==
    /\ index \subseteq written
    /\ writer = "index" => inHand \in written
    /\ writer \in {"append", "index", "sweeping", "signal"} => inHand \in Records
    /\ loop = "confirm" => subject \in Terminals /\ receipts[subject] = "new"
    /\ loop \in {"full", "receipt", "expired", "writing", "committing", "sweeping"}
         => subject \in Records /\ receipts[subject] # "new"
    /\ loop \in {"full", "writing", "sweeping"} => subject \notin written /\ receipts[subject] = "pending"
    /\ loop = "committing" => subject \in written /\ receipts[subject] = "pending"

\* The place of the closing record is kept while its fate is open or good.
ReservedTold == \A c \in Terminals : Told(c) \in {"open", "stored"} => reserved = c

Inv == AuditTypeOK /\ OnePlace /\ ReceiptsTrue /\ Places /\ ReservedTold

-----------------------------------------------------------------------------
\* What Enqueue does with a record: it waits in the queue, or in the call for
\* room, or it is dropped.
Queued(r) ==
    /\ Len(wqueue) < QueueSize /\ wqueue' = Append(wqueue, r)
    /\ receipts' = [receipts EXCEPT ![r] = "pending"] /\ toldLost' = toldLost
    /\ (loop' = "receipt" /\ subject' = r) \/ (loop' = "free" /\ subject' = Nothing)
Blocked(r) ==
    /\ wqueue' = wqueue /\ loop' = "full" /\ subject' = r
    /\ receipts' = [receipts EXCEPT ![r] = "pending"] /\ toldLost' = toldLost
Dropped(r) ==
    /\ wqueue' = wqueue /\ loop' = "free" /\ subject' = Nothing
    /\ receipts' = [receipts EXCEPT ![r] = "dropped"] /\ toldLost' = toldLost \cup {r}

\* Enqueue has these three outcomes.
LEMMA EnqueueOutcome ==
  ASSUME NEW r \in Records, Enqueue(r)
  PROVE  Queued(r) \/ Blocked(r) \/ Dropped(r)
BY Zenon DEF Enqueue, Queued, Blocked, Dropped

\* Each step keeps the types.
LEMMA TypeStep ==
  ASSUME Inv, [AuditNext]_auditVars
  PROVE  AuditTypeOK'
<1> USE AuditLogAssumption DEF Inv, AuditTypeOK, Places, Records, Sweepers, loopVars, writerVars, diskVars
<1>1. ASSUME NEW e \in Events, RecordEvent(e) PROVE AuditTypeOK'
  <2>1. e \in Records
    BY DEF Records
  <2>2. Enqueue(e)
    BY <1>1, Zenon DEF RecordEvent
  <2>3. /\ receipts[e] = "new"
        /\ UNCHANGED <<policy, writerVars, reserved, diskVars, refs, faults>>
    BY <1>1, Zenon DEF RecordEvent
  <2>4. attached' \in BOOLEAN
    BY <1>1, Zenon DEF RecordEvent
  <2>5. CASE Queued(e)
    BY <2>1, <2>3, <2>4, <2>5 DEF Queued
  <2>6. CASE Blocked(e)
    BY <2>1, <2>3, <2>4, <2>6 DEF Blocked
  <2>7. CASE Dropped(e)
    BY <2>1, <2>3, <2>4, <2>7 DEF Dropped
  <2> QED
    BY <2>1, <2>2, <2>5, <2>6, <2>7, EnqueueOutcome
<1>2. ASSUME NEW e \in Events, RecordSync(e) PROVE AuditTypeOK'
  BY <1>2 DEF RecordSync
<1>3. ASSUME AppendSync PROVE AuditTypeOK'
  BY <1>3 DEF AppendSync
<1>4. ASSUME CommitSync PROVE AuditTypeOK'
  BY <1>4 DEF CommitSync, Complete
<1>5. ASSUME SyncFails PROVE AuditTypeOK'
  BY <1>5 DEF SyncFails, Complete, FullDisk
<1>6. ASSUME SweptByCaller PROVE AuditTypeOK'
  BY <1>6 DEF SweptByCaller, Complete
<1>7. ASSUME PutWhenRoom PROVE AuditTypeOK'
  BY <1>7 DEF PutWhenRoom
<1>8. ASSUME PutTimesOut PROVE AuditTypeOK'
  BY <1>8 DEF PutTimesOut, Complete
<1>9. ASSUME ReceiptArrives PROVE AuditTypeOK'
  BY <1>9 DEF ReceiptArrives
<1>10. ASSUME ReceiptExpires PROVE AuditTypeOK'
  BY <1>10 DEF ReceiptExpires, Signaled
<1>11. ASSUME ReceiptTimesOut PROVE AuditTypeOK'
  BY <1>11 DEF ReceiptTimesOut, Complete
<1>12. ASSUME NEW t \in Terminals, BeginTerminal(t) PROVE AuditTypeOK'
  BY <1>12 DEF BeginTerminal
<1>13. ASSUME SubmitTerminal PROVE AuditTypeOK'
  <2>1. /\ loop = "confirm" /\ subject \in Records /\ subject \in Terminals
        /\ UNCHANGED <<policy, writerVars, diskVars, faults>>
    BY <1>13 DEF SubmitTerminal
  <2>2. CASE Closed
    BY <1>13, <2>1, <2>2 DEF SubmitTerminal
  <2>3. CASE ~Closed
    <3>1. refs' = [refs EXCEPT ![subject] = Confirmed \cap Events] /\ reserved = Nothing
      BY <1>13, <2>3 DEF SubmitTerminal, Closed
    <3>2. Confirmed \cap Events \subseteq Events /\ refs' \in [Terminals -> SUBSET Events]
      BY <2>1, <3>1
    <3>3. attached' \in BOOLEAN
      BY <1>13, Zenon DEF SubmitTerminal
    <3>4. CASE attached
      <4>1. Enqueue(subject) /\ reserved' = IF receipts'[subject] = "dropped" THEN reserved ELSE subject
        BY <1>13, <2>3, <3>4, Zenon DEF SubmitTerminal
      <4>2. CASE Queued(subject)
        BY <2>1, <3>1, <3>2, <3>3, <4>1, <4>2 DEF Queued
      <4>3. CASE Blocked(subject)
        BY <2>1, <3>1, <3>2, <3>3, <4>1, <4>3 DEF Blocked
      <4>4. CASE Dropped(subject)
        BY <2>1, <3>1, <3>2, <3>3, <4>1, <4>4 DEF Dropped
      <4> QED
        BY <2>1, <4>1, <4>2, <4>3, <4>4, EnqueueOutcome
    <3>5. CASE ~attached
      <4>1. /\ receipts' = [receipts EXCEPT ![subject] = "pending"] /\ reserved' = subject
            /\ loop' = "writing" /\ UNCHANGED <<subject, wqueue, toldLost>>
        BY <1>13, <2>3, <3>5, Zenon DEF SubmitTerminal
      <4> QED
        BY <2>1, <3>1, <3>2, <3>3, <4>1
    <3> QED
      BY <3>4, <3>5
  <2> QED
    BY <2>2, <2>3
<1>14. ASSUME Take PROVE AuditTypeOK'
  BY <1>14 DEF Take
<1>15. ASSUME AppendRecord PROVE AuditTypeOK'
  BY <1>15 DEF AppendRecord
<1>16. ASSUME IndexRecord PROVE AuditTypeOK'
  BY <1>16 DEF IndexRecord, Complete
<1>17. ASSUME WriteFails PROVE AuditTypeOK'
  BY <1>17 DEF WriteFails, Complete, FullDisk
<1>18. ASSUME WriterRaises PROVE AuditTypeOK'
  BY <1>18 DEF WriterRaises
<1>19. ASSUME SweepRaises PROVE AuditTypeOK'
  BY <1>19 DEF SweepRaises
<1>20. ASSUME SweepBreaks PROVE AuditTypeOK'
  BY <1>20 DEF SweepBreaks
<1>21. ASSUME SweptByWriter PROVE AuditTypeOK'
  BY <1>21 DEF SweptByWriter, Complete
<1>22. ASSUME SignalDone PROVE AuditTypeOK'
  BY <1>22 DEF SignalDone
<1>23. ASSUME StopWriter PROVE AuditTypeOK'
  BY <1>23 DEF StopWriter
<1>24. ASSUME Joined PROVE AuditTypeOK'
  BY <1>24 DEF Joined
<1>25. ASSUME JoinTimesOut PROVE AuditTypeOK'
  BY <1>25 DEF JoinTimesOut
<1>26. ASSUME Crash PROVE AuditTypeOK'
  <2>1. attached' \in BOOLEAN
    BY <1>26, Zenon DEF Crash
  <2> QED
    BY <1>26, <2>1 DEF Crash
<1>27. ASSUME SweepBegins PROVE AuditTypeOK'
  BY <1>27 DEF SweepBegins
<1>28. ASSUME CronDies PROVE AuditTypeOK'
  BY <1>28 DEF CronDies
<1>29. ASSUME NEW s \in Sweepers, Unlink(s) PROVE AuditTypeOK'
  BY <1>29 DEF Unlink
<1>30. ASSUME NEW s \in Sweepers, DropRows(s) PROVE AuditTypeOK'
  BY <1>30 DEF DropRows
<1>31. ASSUME UNCHANGED auditVars PROVE AuditTypeOK'
  BY <1>31 DEF auditVars
<1> QED
  BY <1>1, <1>2, <1>3, <1>4, <1>5, <1>6, <1>7, <1>8, <1>9, <1>10, <1>11, <1>12, <1>13, <1>14, <1>15, <1>16, <1>17, <1>18, <1>19, <1>20, <1>21, <1>22, <1>23, <1>24, <1>25, <1>26, <1>27, <1>28, <1>29, <1>30, <1>31 DEF AuditNext, LoopActs, WriterActs, WriterFaults

\* Each step leaves a record in one place.
LEMMA OnePlaceStep ==
  ASSUME Inv, [AuditNext]_auditVars
  PROVE  OnePlace'
<1> USE AuditLogAssumption DEF Inv, AuditTypeOK, OnePlace, ReceiptsTrue, Underway, InQueue, InCall, Places, Records, loopVars, writerVars, diskVars
<1>1. ASSUME NEW e \in Events, RecordEvent(e) PROVE OnePlace'
  <2>1. e \in Records
    BY DEF Records
  <2>2. Enqueue(e)
    BY <1>1, Zenon DEF RecordEvent
  <2>3. /\ receipts[e] = "new"
        /\ UNCHANGED <<policy, writerVars, reserved, diskVars, refs, faults>>
    BY <1>1, Zenon DEF RecordEvent
  <2>4. CASE Queued(e)
    BY <2>1, <2>3, <2>4 DEF Queued
  <2>5. CASE Blocked(e)
    BY <2>1, <2>3, <2>5 DEF Blocked
  <2>6. CASE Dropped(e)
    BY <2>1, <2>3, <2>6 DEF Dropped
  <2> QED
    BY <2>1, <2>2, <2>4, <2>5, <2>6, EnqueueOutcome
<1>2. ASSUME NEW e \in Events, RecordSync(e) PROVE OnePlace'
  BY <1>2 DEF RecordSync
<1>3. ASSUME AppendSync PROVE OnePlace'
  BY <1>3 DEF AppendSync
<1>4. ASSUME CommitSync PROVE OnePlace'
  BY <1>4 DEF CommitSync, Complete
<1>5. ASSUME SyncFails PROVE OnePlace'
  BY <1>5 DEF SyncFails, Complete, FullDisk
<1>6. ASSUME SweptByCaller PROVE OnePlace'
  BY <1>6 DEF SweptByCaller, Complete
<1>7. ASSUME PutWhenRoom PROVE OnePlace'
  BY <1>7 DEF PutWhenRoom
<1>8. ASSUME PutTimesOut PROVE OnePlace'
  BY <1>8 DEF PutTimesOut, Complete
<1>9. ASSUME ReceiptArrives PROVE OnePlace'
  BY <1>9 DEF ReceiptArrives
<1>10. ASSUME ReceiptExpires PROVE OnePlace'
  BY <1>10 DEF ReceiptExpires, Signaled
<1>11. ASSUME ReceiptTimesOut PROVE OnePlace'
  BY <1>11 DEF ReceiptTimesOut, Complete
<1>12. ASSUME NEW t \in Terminals, BeginTerminal(t) PROVE OnePlace'
  BY <1>12 DEF BeginTerminal
<1>13. ASSUME SubmitTerminal PROVE OnePlace'
  <2>1. /\ loop = "confirm" /\ subject \in Records /\ subject \in Terminals
        /\ UNCHANGED <<policy, writerVars, diskVars, faults>>
    BY <1>13 DEF SubmitTerminal
  <2>2. CASE Closed
    BY <1>13, <2>1, <2>2 DEF SubmitTerminal
  <2>3. CASE ~Closed
    <3>1. refs' = [refs EXCEPT ![subject] = Confirmed \cap Events] /\ reserved = Nothing
      BY <1>13, <2>3 DEF SubmitTerminal, Closed
    <3>2. Confirmed \cap Events \subseteq Events /\ refs' \in [Terminals -> SUBSET Events]
      BY <2>1, <3>1
    <3>3. attached' \in BOOLEAN
      BY <1>13, Zenon DEF SubmitTerminal
    <3>4. CASE attached
      <4>1. Enqueue(subject) /\ reserved' = IF receipts'[subject] = "dropped" THEN reserved ELSE subject
        BY <1>13, <2>3, <3>4, Zenon DEF SubmitTerminal
      <4>2. CASE Queued(subject)
        BY <2>1, <3>1, <3>2, <3>3, <4>1, <4>2 DEF Queued
      <4>3. CASE Blocked(subject)
        BY <2>1, <3>1, <3>2, <3>3, <4>1, <4>3 DEF Blocked
      <4>4. CASE Dropped(subject)
        BY <2>1, <3>1, <3>2, <3>3, <4>1, <4>4 DEF Dropped
      <4> QED
        BY <2>1, <4>1, <4>2, <4>3, <4>4, EnqueueOutcome
    <3>5. CASE ~attached
      <4>1. /\ receipts' = [receipts EXCEPT ![subject] = "pending"] /\ reserved' = subject
            /\ loop' = "writing" /\ UNCHANGED <<subject, wqueue, toldLost>>
        BY <1>13, <2>3, <3>5, Zenon DEF SubmitTerminal
      <4> QED
        BY <2>1, <3>1, <3>2, <3>3, <4>1
    <3> QED
      BY <3>4, <3>5
  <2> QED
    BY <2>2, <2>3
<1>14. ASSUME Take PROVE OnePlace'
  BY <1>14 DEF Take
<1>15. ASSUME AppendRecord PROVE OnePlace'
  BY <1>15 DEF AppendRecord
<1>16. ASSUME IndexRecord PROVE OnePlace'
  BY <1>16 DEF IndexRecord, Complete
<1>17. ASSUME WriteFails PROVE OnePlace'
  BY <1>17 DEF WriteFails, Complete, FullDisk
<1>18. ASSUME WriterRaises PROVE OnePlace'
  BY <1>18 DEF WriterRaises
<1>19. ASSUME SweepRaises PROVE OnePlace'
  BY <1>19 DEF SweepRaises
<1>20. ASSUME SweepBreaks PROVE OnePlace'
  BY <1>20 DEF SweepBreaks
<1>21. ASSUME SweptByWriter PROVE OnePlace'
  BY <1>21 DEF SweptByWriter, Complete
<1>22. ASSUME SignalDone PROVE OnePlace'
  BY <1>22 DEF SignalDone
<1>23. ASSUME StopWriter PROVE OnePlace'
  BY <1>23 DEF StopWriter
<1>24. ASSUME Joined PROVE OnePlace'
  BY <1>24 DEF Joined
<1>25. ASSUME JoinTimesOut PROVE OnePlace'
  BY <1>25 DEF JoinTimesOut
<1>26. ASSUME Crash PROVE OnePlace'
  BY <1>26 DEF Crash
<1>27. ASSUME SweepBegins PROVE OnePlace'
  BY <1>27 DEF SweepBegins
<1>28. ASSUME CronDies PROVE OnePlace'
  BY <1>28 DEF CronDies
<1>29. ASSUME NEW s \in Sweepers, Unlink(s) PROVE OnePlace'
  BY <1>29 DEF Unlink
<1>30. ASSUME NEW s \in Sweepers, DropRows(s) PROVE OnePlace'
  BY <1>30 DEF DropRows
<1>31. ASSUME UNCHANGED auditVars PROVE OnePlace'
  BY <1>31 DEF auditVars
<1> QED
  BY <1>1, <1>2, <1>3, <1>4, <1>5, <1>6, <1>7, <1>8, <1>9, <1>10, <1>11, <1>12, <1>13, <1>14, <1>15, <1>16, <1>17, <1>18, <1>19, <1>20, <1>21, <1>22, <1>23, <1>24, <1>25, <1>26, <1>27, <1>28, <1>29, <1>30, <1>31 DEF AuditNext, LoopActs, WriterActs, WriterFaults

\* Each step keeps the receipts true.
LEMMA ReceiptStep ==
  ASSUME Inv, [AuditNext]_auditVars
  PROVE  ReceiptsTrue'
<1> USE AuditLogAssumption DEF Inv, AuditTypeOK, OnePlace, ReceiptsTrue, Underway, InQueue, InCall, Places, Records, loopVars, writerVars, diskVars
<1>1. ASSUME NEW e \in Events, RecordEvent(e) PROVE ReceiptsTrue'
  BY <1>1 DEF RecordEvent, Enqueue
<1>2. ASSUME NEW e \in Events, RecordSync(e) PROVE ReceiptsTrue'
  BY <1>2 DEF RecordSync
<1>3. ASSUME AppendSync PROVE ReceiptsTrue'
  BY <1>3 DEF AppendSync
<1>4. ASSUME CommitSync PROVE ReceiptsTrue'
  BY <1>4 DEF CommitSync, Complete
<1>5. ASSUME SyncFails PROVE ReceiptsTrue'
  BY <1>5 DEF SyncFails, Complete, FullDisk
<1>6. ASSUME SweptByCaller PROVE ReceiptsTrue'
  BY <1>6 DEF SweptByCaller, Complete
<1>7. ASSUME PutWhenRoom PROVE ReceiptsTrue'
  BY <1>7 DEF PutWhenRoom
<1>8. ASSUME PutTimesOut PROVE ReceiptsTrue'
  BY <1>8 DEF PutTimesOut, Complete
<1>9. ASSUME ReceiptArrives PROVE ReceiptsTrue'
  BY <1>9 DEF ReceiptArrives
<1>10. ASSUME ReceiptExpires PROVE ReceiptsTrue'
  BY <1>10 DEF ReceiptExpires, Signaled
<1>11. ASSUME ReceiptTimesOut PROVE ReceiptsTrue'
  BY <1>11 DEF ReceiptTimesOut, Complete
<1>12. ASSUME NEW t \in Terminals, BeginTerminal(t) PROVE ReceiptsTrue'
  BY <1>12 DEF BeginTerminal
<1>13. ASSUME SubmitTerminal PROVE ReceiptsTrue'
  BY <1>13 DEF SubmitTerminal, Enqueue, Closed, Visible
<1>14. ASSUME Take PROVE ReceiptsTrue'
  BY <1>14 DEF Take
<1>15. ASSUME AppendRecord PROVE ReceiptsTrue'
  BY <1>15 DEF AppendRecord
<1>16. ASSUME IndexRecord PROVE ReceiptsTrue'
  BY <1>16 DEF IndexRecord, Complete
<1>17. ASSUME WriteFails PROVE ReceiptsTrue'
  BY <1>17 DEF WriteFails, Complete, FullDisk
<1>18. ASSUME WriterRaises PROVE ReceiptsTrue'
  BY <1>18 DEF WriterRaises
<1>19. ASSUME SweepRaises PROVE ReceiptsTrue'
  BY <1>19 DEF SweepRaises
<1>20. ASSUME SweepBreaks PROVE ReceiptsTrue'
  BY <1>20 DEF SweepBreaks
<1>21. ASSUME SweptByWriter PROVE ReceiptsTrue'
  BY <1>21 DEF SweptByWriter, Complete
<1>22. ASSUME SignalDone PROVE ReceiptsTrue'
  BY <1>22 DEF SignalDone
<1>23. ASSUME StopWriter PROVE ReceiptsTrue'
  BY <1>23 DEF StopWriter
<1>24. ASSUME Joined PROVE ReceiptsTrue'
  BY <1>24 DEF Joined
<1>25. ASSUME JoinTimesOut PROVE ReceiptsTrue'
  BY <1>25 DEF JoinTimesOut
<1>26. ASSUME Crash PROVE ReceiptsTrue'
  BY <1>26 DEF Crash
<1>27. ASSUME SweepBegins PROVE ReceiptsTrue'
  BY <1>27 DEF SweepBegins
<1>28. ASSUME CronDies PROVE ReceiptsTrue'
  BY <1>28 DEF CronDies
<1>29. ASSUME NEW s \in Sweepers, Unlink(s) PROVE ReceiptsTrue'
  BY <1>29 DEF Unlink
<1>30. ASSUME NEW s \in Sweepers, DropRows(s) PROVE ReceiptsTrue'
  BY <1>30 DEF DropRows
<1>31. ASSUME UNCHANGED auditVars PROVE ReceiptsTrue'
  BY <1>31 DEF auditVars
<1> QED
  BY <1>1, <1>2, <1>3, <1>4, <1>5, <1>6, <1>7, <1>8, <1>9, <1>10, <1>11, <1>12, <1>13, <1>14, <1>15, <1>16, <1>17, <1>18, <1>19, <1>20, <1>21, <1>22, <1>23, <1>24, <1>25, <1>26, <1>27, <1>28, <1>29, <1>30, <1>31 DEF AuditNext, LoopActs, WriterActs, WriterFaults

\* Each step keeps what the control points say.
LEMMA PlacesStep ==
  ASSUME Inv, [AuditNext]_auditVars
  PROVE  Places'
<1> USE AuditLogAssumption DEF Inv, AuditTypeOK, OnePlace, ReceiptsTrue, Underway, InQueue, InCall, Places, Records, loopVars, writerVars, diskVars
<1>1. ASSUME NEW e \in Events, RecordEvent(e) PROVE Places'
  BY <1>1 DEF RecordEvent, Enqueue
<1>2. ASSUME NEW e \in Events, RecordSync(e) PROVE Places'
  BY <1>2 DEF RecordSync
<1>3. ASSUME AppendSync PROVE Places'
  BY <1>3 DEF AppendSync
<1>4. ASSUME CommitSync PROVE Places'
  BY <1>4 DEF CommitSync, Complete
<1>5. ASSUME SyncFails PROVE Places'
  BY <1>5 DEF SyncFails, Complete, FullDisk
<1>6. ASSUME SweptByCaller PROVE Places'
  BY <1>6 DEF SweptByCaller, Complete
<1>7. ASSUME PutWhenRoom PROVE Places'
  BY <1>7 DEF PutWhenRoom
<1>8. ASSUME PutTimesOut PROVE Places'
  BY <1>8 DEF PutTimesOut, Complete
<1>9. ASSUME ReceiptArrives PROVE Places'
  BY <1>9 DEF ReceiptArrives
<1>10. ASSUME ReceiptExpires PROVE Places'
  BY <1>10 DEF ReceiptExpires, Signaled
<1>11. ASSUME ReceiptTimesOut PROVE Places'
  BY <1>11 DEF ReceiptTimesOut, Complete
<1>12. ASSUME NEW t \in Terminals, BeginTerminal(t) PROVE Places'
  BY <1>12 DEF BeginTerminal
<1>13. ASSUME SubmitTerminal PROVE Places'
  BY <1>13 DEF SubmitTerminal, Enqueue, Closed, Visible
<1>14. ASSUME Take PROVE Places'
  BY <1>14 DEF Take
<1>15. ASSUME AppendRecord PROVE Places'
  BY <1>15 DEF AppendRecord
<1>16. ASSUME IndexRecord PROVE Places'
  BY <1>16 DEF IndexRecord, Complete
<1>17. ASSUME WriteFails PROVE Places'
  BY <1>17 DEF WriteFails, Complete, FullDisk
<1>18. ASSUME WriterRaises PROVE Places'
  BY <1>18 DEF WriterRaises
<1>19. ASSUME SweepRaises PROVE Places'
  BY <1>19 DEF SweepRaises
<1>20. ASSUME SweepBreaks PROVE Places'
  BY <1>20 DEF SweepBreaks
<1>21. ASSUME SweptByWriter PROVE Places'
  BY <1>21 DEF SweptByWriter, Complete
<1>22. ASSUME SignalDone PROVE Places'
  BY <1>22 DEF SignalDone
<1>23. ASSUME StopWriter PROVE Places'
  BY <1>23 DEF StopWriter
<1>24. ASSUME Joined PROVE Places'
  BY <1>24 DEF Joined
<1>25. ASSUME JoinTimesOut PROVE Places'
  BY <1>25 DEF JoinTimesOut
<1>26. ASSUME Crash PROVE Places'
  BY <1>26 DEF Crash
<1>27. ASSUME SweepBegins PROVE Places'
  BY <1>27 DEF SweepBegins
<1>28. ASSUME CronDies PROVE Places'
  BY <1>28 DEF CronDies
<1>29. ASSUME NEW s \in Sweepers, Unlink(s) PROVE Places'
  BY <1>29 DEF Unlink
<1>30. ASSUME NEW s \in Sweepers, DropRows(s) PROVE Places'
  BY <1>30 DEF DropRows
<1>31. ASSUME UNCHANGED auditVars PROVE Places'
  BY <1>31 DEF auditVars
<1> QED
  BY <1>1, <1>2, <1>3, <1>4, <1>5, <1>6, <1>7, <1>8, <1>9, <1>10, <1>11, <1>12, <1>13, <1>14, <1>15, <1>16, <1>17, <1>18, <1>19, <1>20, <1>21, <1>22, <1>23, <1>24, <1>25, <1>26, <1>27, <1>28, <1>29, <1>30, <1>31 DEF AuditNext, LoopActs, WriterActs, WriterFaults

-----------------------------------------------------------------------------
\* What the trail sees as told.
Said == [r \in Records |-> Told(r)]

\* A record that waits is one whose fate is open.
LEMMA PendingTold ==
  ASSUME Inv, NEW r \in Records, receipts' = [receipts EXCEPT ![r] = "pending"],
         toldLost' = toldLost, r \notin toldLost
  PROVE  Said' = [Said EXCEPT ![r] = "open"]
<1>1. \A x \in Records : Told(x)' = IF x = r THEN "open" ELSE Told(x)
  BY DEF Inv, AuditTypeOK, Told
<1> QED
  BY <1>1 DEF Said

\* A submitted record waits or is lost at once.
LEMMA EnqueueTold ==
  ASSUME Inv, NEW r \in Records, Enqueue(r), receipts[r] = "new"
  PROVE  \E fate \in {"open", "lost"} : Said' = [Said EXCEPT ![r] = fate]
<1>1. r \notin toldLost
  BY DEF Inv, ReceiptsTrue
<1>2. CASE Queued(r) \/ Blocked(r)
  <2>1. receipts' = [receipts EXCEPT ![r] = "pending"] /\ toldLost' = toldLost
    BY <1>2 DEF Queued, Blocked
  <2>2. Said' = [Said EXCEPT ![r] = "open"]
    BY <1>1, <2>1, PendingTold
  <2> QED
    BY <2>2
<1>3. CASE Dropped(r)
  <2>1. \A x \in Records : Told(x)' = IF x = r THEN "lost" ELSE Told(x)
    BY <1>3 DEF Dropped, Inv, AuditTypeOK, Told
  <2>2. Said' = [Said EXCEPT ![r] = "lost"]
    BY <2>1 DEF Said
  <2> QED
    BY <2>2
<1> QED
  BY <1>2, <1>3, EnqueueOutcome

\* A record that is persisted is told stored, unless it was told lost.
LEMMA PersistedTold ==
  ASSUME Inv, NEW r \in Records, Complete(r, "persisted")
  PROVE  Said' = [Said EXCEPT ![r] = IF r \in toldLost THEN "lost" ELSE "stored"]
<1>1. receipts' = [receipts EXCEPT ![r] = "persisted"] /\ toldLost' = toldLost
  BY DEF Complete
<1>2. \A x \in Records : x # r => Told(x)' = Told(x)
  BY <1>1 DEF Inv, AuditTypeOK, Told
<1>3. Told(r)' = IF r \in toldLost THEN "lost" ELSE "stored"
  BY <1>1 DEF Inv, AuditTypeOK, Told
<1> QED
  BY <1>2, <1>3 DEF Said

\* A submission is one of the trail.
LEMMA SubmitStep ==
  ASSUME NEW r \in Records, r \notin Terminals, receipts[r] = "new", r \notin toldLost,
         \E fate \in {"open", "lost"} : Said' = [Said EXCEPT ![r] = fate],
         Awaited' \in {Awaited, Awaited \cup {r}}, UNCHANGED <<written, refs>>
  PROVE  [Trail!TrailNext]_(Trail!trailVars)
<1>1. Trail!Submit(r)
  BY DEF Said, Told, Trail!Submit, Trail!Accept
<1> QED
  BY <1>1 DEF Trail!TrailNext

\* A closing record is submitted when no other is open or stored.
LEMMA CloseStep ==
  ASSUME NEW r \in Records, r \in Terminals, receipts[r] = "new", r \notin toldLost,
         \A c \in Terminals : Told(c) \notin {"open", "stored"},
         \E fate \in {"open", "lost"} : Said' = [Said EXCEPT ![r] = fate],
         \E cited \in SUBSET written : refs' = [refs EXCEPT ![r] = cited],
         Awaited' \in {Awaited, Awaited \cup {r}}, written' = written
  PROVE  [Trail!TrailNext]_(Trail!trailVars)
<1>1. \A c \in Terminals : Said[c] \notin {"open", "stored"}
  BY DEF Said, Records
<1>2. Said[r] = "new"
  BY DEF Said, Told
<1>3. Trail!Close(r)
  BY <1>1, <1>2 DEF Said, Trail!Close, Trail!Accept
<1> QED
  BY <1>3 DEF Trail!TrailNext

\* A record reaches the journal.
LEMMA StoreStep ==
  ASSUME NEW r \in Records, Told(r) \in {"open", "lost"}, r \notin written,
         written' = written \cup {r}, refs' = refs, Said' = Said, Awaited' = Awaited
  PROVE  [Trail!TrailNext]_(Trail!trailVars)
<1>1. Trail!Store(r)
  BY DEF Said, Trail!Store
<1> QED
  BY <1>1 DEF Trail!TrailNext

\* To tell again what was told changes nothing.
LEMMA ToldAgain ==
  ASSUME NEW r \in Records, Said' = [Said EXCEPT ![r] = "lost"], Told(r) = "lost"
  PROVE  Said' = Said
<1>1. Said[r] = "lost"
  BY DEF Said
<1>2. Said = [Said EXCEPT ![r] = "lost"]
  BY <1>1 DEF Said
<1> QED
  BY <1>2

\* Nothing new is told: the submitter goes on, or not even that.
LEMMA SilentStep ==
  ASSUME NEW r \in Records, Said' = Said, UNCHANGED <<written, refs>>,
         Awaited' \in {Awaited, Awaited \ {r}}
  PROVE  [Trail!TrailNext]_(Trail!trailVars)
<1>1. CASE Awaited' = Awaited
  BY <1>1 DEF Said, Trail!trailVars
<1>2. CASE r \in Awaited /\ Awaited' = Awaited \ {r}
  <2>1. Trail!GoOn(r)
    BY <1>2 DEF Said, Trail!GoOn
  <2> QED
    BY <2>1 DEF Trail!TrailNext
<1> QED
  BY <1>1, <1>2

\* A submitter that waits joins those that do.
LEMMA EnqueueAwaited ==
  ASSUME NEW r \in Records, Enqueue(r), loop \notin {"full", "receipt", "expired", "writing", "committing", "sweeping"}
  PROVE  Awaited' \in {Awaited, Awaited \cup {r}}
BY EnqueueOutcome DEF Queued, Blocked, Dropped, Awaited

\* A submitter goes on with what it was told.
LEMMA GoOnStep ==
  ASSUME UNCHANGED <<receipts, toldLost, written, refs>>, Awaited' = {},
         Awaited = {} \/ \E r \in Records : Awaited = {r}
  PROVE  [Trail!TrailNext]_(Trail!trailVars)
<1>1. Said' = Said
  BY DEF Said, Told
<1>2. CASE Awaited = {}
  BY <1>1, <1>2 DEF Said, Trail!trailVars
<1>3. ASSUME NEW r \in Records, Awaited = {r} PROVE [Trail!TrailNext]_(Trail!trailVars)
  <2>1. Trail!GoOn(r)
    BY <1>1, <1>3 DEF Said, Trail!GoOn
  <2> QED
    BY <2>1 DEF Trail!TrailNext
<1> QED
  BY <1>2, <1>3

\* A record of the journal is told stored, unless it was told lost.
LEMMA StoredStep ==
  ASSUME Inv, NEW r \in Records, Complete(r, "persisted"), receipts[r] \notin {"new", "persisted"},
         r \in written, UNCHANGED <<written, refs>>, Awaited' \in {Awaited, Awaited \ {r}}
  PROVE  [Trail!TrailNext]_(Trail!trailVars)
<1>1. Said' = [Said EXCEPT ![r] = IF r \in toldLost THEN "lost" ELSE "stored"]
  BY PersistedTold
<1>2. CASE r \in toldLost
  <2>1. Told(r) = "lost"
    BY <1>2 DEF Told
  <2>2. Said' = Said
    BY <1>1, <1>2, <2>1, ToldAgain
  <2> QED
    BY <2>2, SilentStep
<1>3. CASE r \notin toldLost
  <2>1. Told(r) = "open"
    BY <1>3 DEF Told
  <2>2. Trail!TellStored(r)
    BY <1>1, <1>3, <2>1 DEF Said, Trail!TellStored, Trail!Released
  <2> QED
    BY <2>2 DEF Trail!TrailNext
<1> QED
  BY <1>2, <1>3

\* A record given up is told lost, or was.
LEMMA LostStep ==
  ASSUME Inv, NEW r \in Records, NEW status \in {"failed", "dropped"}, Complete(r, status),
         Told(r) \in {"open", "lost"} \/ (Told(r) = "stored" /\ r \in Awaited),
         UNCHANGED <<written, refs>>, Awaited' \in {Awaited, Awaited \ {r}}
  PROVE  [Trail!TrailNext]_(Trail!trailVars)
<1>1. receipts' = [receipts EXCEPT ![r] = status] /\ toldLost' = toldLost \cup {r}
  BY DEF Complete
<1>2. \A x \in Records : Told(x)' = IF x = r THEN "lost" ELSE Told(x)
  BY <1>1 DEF Inv, AuditTypeOK, Told
<1>3. Said' = [Said EXCEPT ![r] = "lost"]
  BY <1>2 DEF Said
<1>4. CASE Told(r) # "lost"
  <2>1. Trail!TellLost(r)
    BY <1>3, <1>4 DEF Said, Trail!TellLost, Trail!Released
  <2> QED
    BY <2>1 DEF Trail!TrailNext
<1>5. CASE Told(r) = "lost"
  <2>1. Said' = Said
    BY <1>3, <1>5, ToldAgain
  <2> QED
    BY <2>1, SilentStep
<1> QED
  BY <1>4, <1>5

\* Each step keeps the place of the closing record.
LEMMA ReservedStep ==
  ASSUME Inv, [AuditNext]_auditVars
  PROVE  ReservedTold'
<1> USE AuditLogAssumption DEF Inv, AuditTypeOK, ReceiptsTrue, Underway, InQueue, InCall, Places, ReservedTold, Told, Records, loopVars, writerVars, diskVars
<1>1. ASSUME NEW e \in Events, RecordEvent(e) PROVE ReservedTold'
  BY <1>1 DEF RecordEvent, Enqueue
<1>2. ASSUME NEW e \in Events, RecordSync(e) PROVE ReservedTold'
  BY <1>2 DEF RecordSync
<1>3. ASSUME AppendSync PROVE ReservedTold'
  BY <1>3 DEF AppendSync
<1>4. ASSUME CommitSync PROVE ReservedTold'
  <2>1. subject \in Records /\ receipts[subject] = "pending"
    BY <1>4 DEF CommitSync
  <2>2. /\ receipts' = [receipts EXCEPT ![subject] = "persisted"]
        /\ toldLost' = toldLost /\ reserved' = reserved
    BY <1>4 DEF CommitSync, Complete
  <2> SUFFICES ASSUME NEW c \in Terminals, Told(c)' \in {"open", "stored"} PROVE reserved' = c
    OBVIOUS
  <2>3. Told(c) \in {"open", "stored"}
    <3>1. CASE c = subject
      BY <2>1, <2>2, <3>1
    <3>2. CASE c # subject
      BY <2>1, <2>2, <3>2
    <3> QED
      BY <3>1, <3>2
  <2> QED
    BY <2>2, <2>3
<1>5. ASSUME SyncFails PROVE ReservedTold'
  BY <1>5 DEF SyncFails, Complete, FullDisk
<1>6. ASSUME SweptByCaller PROVE ReservedTold'
  BY <1>6 DEF SweptByCaller, Complete
<1>7. ASSUME PutWhenRoom PROVE ReservedTold'
  BY <1>7 DEF PutWhenRoom
<1>8. ASSUME PutTimesOut PROVE ReservedTold'
  BY <1>8 DEF PutTimesOut, Complete
<1>9. ASSUME ReceiptArrives PROVE ReservedTold'
  BY <1>9 DEF ReceiptArrives
<1>10. ASSUME ReceiptExpires PROVE ReservedTold'
  BY <1>10 DEF ReceiptExpires, Signaled
<1>11. ASSUME ReceiptTimesOut PROVE ReservedTold'
  BY <1>11 DEF ReceiptTimesOut, Complete
<1>12. ASSUME NEW t \in Terminals, BeginTerminal(t) PROVE ReservedTold'
  BY <1>12 DEF BeginTerminal
<1>13. ASSUME SubmitTerminal PROVE ReservedTold'
  BY <1>13 DEF SubmitTerminal, Enqueue, Closed, Visible
<1>14. ASSUME Take PROVE ReservedTold'
  BY <1>14 DEF Take
<1>15. ASSUME AppendRecord PROVE ReservedTold'
  BY <1>15 DEF AppendRecord
<1>16. ASSUME IndexRecord PROVE ReservedTold'
  <2>1. inHand \in Records /\ receipts[inHand] \notin {"new", "persisted"}
    BY <1>16 DEF IndexRecord
  <2>2. /\ receipts' = [receipts EXCEPT ![inHand] = "persisted"]
        /\ toldLost' = toldLost /\ reserved' = reserved
    BY <1>16 DEF IndexRecord, Complete
  <2> SUFFICES ASSUME NEW c \in Terminals, Told(c)' \in {"open", "stored"} PROVE reserved' = c
    OBVIOUS
  <2>3. Told(c) \in {"open", "stored"}
    <3>1. CASE c = inHand
      BY <2>1, <2>2, <3>1
    <3>2. CASE c # inHand
      BY <2>1, <2>2, <3>2
    <3> QED
      BY <3>1, <3>2
  <2> QED
    BY <2>2, <2>3
<1>17. ASSUME WriteFails PROVE ReservedTold'
  BY <1>17 DEF WriteFails, Complete, FullDisk
<1>18. ASSUME WriterRaises PROVE ReservedTold'
  BY <1>18 DEF WriterRaises
<1>19. ASSUME SweepRaises PROVE ReservedTold'
  BY <1>19 DEF SweepRaises
<1>20. ASSUME SweepBreaks PROVE ReservedTold'
  BY <1>20 DEF SweepBreaks
<1>21. ASSUME SweptByWriter PROVE ReservedTold'
  BY <1>21 DEF SweptByWriter, Complete
<1>22. ASSUME SignalDone PROVE ReservedTold'
  BY <1>22 DEF SignalDone
<1>23. ASSUME StopWriter PROVE ReservedTold'
  BY <1>23 DEF StopWriter
<1>24. ASSUME Joined PROVE ReservedTold'
  BY <1>24 DEF Joined
<1>25. ASSUME JoinTimesOut PROVE ReservedTold'
  BY <1>25 DEF JoinTimesOut
<1>26. ASSUME Crash PROVE ReservedTold'
  BY <1>26 DEF Crash
<1>27. ASSUME SweepBegins PROVE ReservedTold'
  BY <1>27 DEF SweepBegins
<1>28. ASSUME CronDies PROVE ReservedTold'
  BY <1>28 DEF CronDies
<1>29. ASSUME NEW s \in Sweepers, Unlink(s) PROVE ReservedTold'
  BY <1>29 DEF Unlink
<1>30. ASSUME NEW s \in Sweepers, DropRows(s) PROVE ReservedTold'
  BY <1>30 DEF DropRows
<1>31. ASSUME UNCHANGED auditVars PROVE ReservedTold'
  BY <1>31 DEF auditVars
<1> QED
  BY <1>1, <1>2, <1>3, <1>4, <1>5, <1>6, <1>7, <1>8, <1>9, <1>10, <1>11, <1>12, <1>13, <1>14, <1>15, <1>16, <1>17, <1>18, <1>19, <1>20, <1>21, <1>22, <1>23, <1>24, <1>25, <1>26, <1>27, <1>28, <1>29, <1>30, <1>31 DEF AuditNext, LoopActs, WriterActs, WriterFaults

\* Each step is a step of the trail, or none.
LEMMA TrailStep ==
  ASSUME Inv, [AuditNext]_auditVars
  PROVE  [Trail!TrailNext]_(Trail!trailVars)
<1> USE AuditLogAssumption DEF Inv, AuditTypeOK, loopVars, writerVars, diskVars, Told, Records, Trail!TrailNext, Trail!trailVars, ReceiptsTrue, Underway, InQueue, InCall, Places, ReservedTold
<1>1. ASSUME NEW e \in Events, RecordEvent(e) PROVE [Trail!TrailNext]_(Trail!trailVars)
  <2>1. e \in Records /\ e \notin Terminals /\ e \notin toldLost
    BY <1>1 DEF Records, RecordEvent
  <2>2. Enqueue(e) /\ receipts[e] = "new" /\ UNCHANGED <<written, refs>> /\ loop = "free"
    BY <1>1, Zenon DEF RecordEvent, diskVars
  <2>3. Awaited' \in {Awaited, Awaited \cup {e}}
    BY <2>1, <2>2, EnqueueAwaited
  <2> QED
    BY <2>1, <2>2, <2>3, EnqueueTold, SubmitStep
<1>2. ASSUME NEW e \in Events, RecordSync(e) PROVE [Trail!TrailNext]_(Trail!trailVars)
  <2>1. e \in Records /\ e \notin Terminals /\ e \notin toldLost
    BY <1>2 DEF Records, RecordSync
  <2>2. /\ receipts' = [receipts EXCEPT ![e] = "pending"] /\ toldLost' = toldLost
        /\ receipts[e] = "new" /\ UNCHANGED <<written, refs>>
    BY <1>2 DEF RecordSync
  <2>3. Awaited' \in {Awaited, Awaited \cup {e}}
    BY <1>2 DEF RecordSync, Awaited
  <2> QED
    BY <2>1, <2>2, <2>3, PendingTold, SubmitStep
<1>3. ASSUME AppendSync PROVE [Trail!TrailNext]_(Trail!trailVars)
  <2>1. /\ subject \in Records /\ receipts[subject] = "pending" /\ subject \notin written
        /\ written' = written \cup {subject} /\ UNCHANGED <<receipts, toldLost, refs>>
    BY <1>3 DEF AppendSync
  <2>2. Said' = Said /\ Told(subject) \in {"open", "lost"}
    BY <2>1 DEF Said
  <2>3. Awaited' = Awaited
    BY <1>3 DEF AppendSync, Awaited
  <2> QED
    BY <2>1, <2>2, <2>3, StoreStep
<1>4. ASSUME CommitSync PROVE [Trail!TrailNext]_(Trail!trailVars)
  <2>1. /\ subject \in Records /\ subject \in written /\ receipts[subject] = "pending"
        /\ Complete(subject, "persisted") /\ UNCHANGED <<written, refs>>
    BY <1>4 DEF CommitSync
  <2>2. Awaited' \in {Awaited, Awaited \ {subject}}
    BY <1>4 DEF CommitSync, Awaited
  <2> QED
    BY <2>1, <2>2, StoredStep
<1>5. ASSUME SyncFails PROVE [Trail!TrailNext]_(Trail!trailVars)
  <2>1. /\ subject \in Records /\ Told(subject) \in {"open", "lost"}
        /\ UNCHANGED <<written, refs>>
    BY <1>5 DEF SyncFails
  <2>2. CASE loop' = "free" /\ Complete(subject, "failed")
    <3>1. Awaited' \in {Awaited, Awaited \ {subject}}
      BY <1>5, <2>2 DEF SyncFails, Awaited
    <3> QED
      BY <2>1, <2>2, <3>1, LostStep
  <2>3. CASE loop' = "sweeping" /\ UNCHANGED <<subject, receipts, toldLost>>
    <3>1. Awaited' = Awaited
      BY <1>5, <2>3 DEF SyncFails, Awaited
    <3> QED
      BY <2>1, <2>3, <3>1
  <2> QED
    BY <1>5, <2>2, <2>3 DEF SyncFails
<1>6. ASSUME SweptByCaller PROVE [Trail!TrailNext]_(Trail!trailVars)
  <2>1. /\ subject \in Records /\ Told(subject) \in {"open", "lost"}
        /\ Complete(subject, "failed") /\ UNCHANGED <<written, refs>>
    BY <1>6 DEF SweptByCaller
  <2>2. Awaited' \in {Awaited, Awaited \ {subject}}
    BY <1>6 DEF SweptByCaller, Awaited
  <2> QED
    BY <2>1, <2>2, LostStep
<1>7. ASSUME PutWhenRoom PROVE [Trail!TrailNext]_(Trail!trailVars)
  <2>1. Awaited' = Awaited
    BY <1>7 DEF PutWhenRoom, Awaited
  <2> QED
    BY <1>7, <2>1 DEF PutWhenRoom
<1>8. ASSUME PutTimesOut PROVE [Trail!TrailNext]_(Trail!trailVars)
  <2>1. /\ subject \in Records /\ Told(subject) \in {"open", "lost"}
        /\ Complete(subject, "dropped") /\ UNCHANGED <<written, refs>>
    BY <1>8 DEF PutTimesOut
  <2>2. Awaited' \in {Awaited, Awaited \ {subject}}
    BY <1>8 DEF PutTimesOut, Awaited
  <2> QED
    BY <2>1, <2>2, LostStep
<1>9. ASSUME ReceiptArrives PROVE [Trail!TrailNext]_(Trail!trailVars)
  <2>1. Awaited = {subject} /\ Awaited' = {} /\ subject \in Records
    BY <1>9 DEF ReceiptArrives, Awaited
  <2>2. UNCHANGED <<receipts, toldLost, written, refs>>
    BY <1>9 DEF ReceiptArrives
  <2> QED
    BY <2>1, <2>2, GoOnStep
<1>10. ASSUME ReceiptExpires PROVE [Trail!TrailNext]_(Trail!trailVars)
  <2>1. Awaited' = Awaited
    BY <1>10 DEF ReceiptExpires, Awaited
  <2> QED
    BY <1>10, <2>1 DEF ReceiptExpires
<1>11. ASSUME ReceiptTimesOut PROVE [Trail!TrailNext]_(Trail!trailVars)
  <2>1. /\ subject \in Records /\ subject \in Awaited
        /\ Complete(subject, "failed") /\ UNCHANGED <<written, refs>>
    BY <1>11 DEF ReceiptTimesOut, Awaited
  <2>2. Told(subject) \in {"open", "stored", "lost"}
    BY <1>11 DEF ReceiptTimesOut
  <2>3. Awaited' \in {Awaited, Awaited \ {subject}}
    BY <1>11 DEF ReceiptTimesOut, Awaited
  <2> QED
    BY <2>1, <2>2, <2>3, LostStep
<1>12. ASSUME NEW t \in Terminals, BeginTerminal(t) PROVE [Trail!TrailNext]_(Trail!trailVars)
  <2>1. Awaited' = Awaited
    BY <1>12 DEF BeginTerminal, Awaited
  <2> QED
    BY <1>12, <2>1 DEF BeginTerminal
<1>13. ASSUME SubmitTerminal PROVE [Trail!TrailNext]_(Trail!trailVars)
  <2>1. /\ subject \in Records /\ subject \in Terminals /\ receipts[subject] = "new"
        /\ subject \notin toldLost /\ written' = written
    BY <1>13 DEF SubmitTerminal
  <2>2. CASE Closed
    BY <1>13, <2>2 DEF SubmitTerminal, Awaited
  <2>3. CASE ~Closed
    <3>1. refs' = [refs EXCEPT ![subject] = Confirmed \cap Events] /\ reserved = Nothing
      BY <1>13, <2>3 DEF SubmitTerminal, Closed
    <3>2. Confirmed \cap Events \in SUBSET written
      BY DEF Confirmed, Visible
    <3>3. \A c \in Terminals : Told(c) \notin {"open", "stored"}
      BY <3>1, AuditLogAssumption
    <3>4. \E fate \in {"open", "lost"} : Said' = [Said EXCEPT ![subject] = fate]
      <4>1. CASE attached
        <5>1. Enqueue(subject)
          BY <1>13, <2>3, <4>1, Zenon DEF SubmitTerminal
        <5> QED
          BY <2>1, <5>1, EnqueueTold
      <4>2. CASE ~attached
        <5>1. receipts' = [receipts EXCEPT ![subject] = "pending"] /\ toldLost' = toldLost
          BY <1>13, <2>3, <4>2, Zenon DEF SubmitTerminal
        <5> QED
          BY <2>1, <5>1, PendingTold
      <4> QED
        BY <4>1, <4>2
    <3>5. Awaited' \in {Awaited, Awaited \cup {subject}}
      <4>0. loop = "confirm"
        BY <1>13 DEF SubmitTerminal
      <4>1. CASE attached
        <5>1. Enqueue(subject)
          BY <1>13, <2>3, <4>1, Zenon DEF SubmitTerminal
        <5> QED
          BY <2>1, <4>0, <5>1, EnqueueAwaited
      <4>2. CASE ~attached
        <5>1. loop' = "writing" /\ subject' = subject
          BY <1>13, <2>3, <4>2, Zenon DEF SubmitTerminal
        <5> QED
          BY <5>1, <4>0 DEF Awaited
      <4> QED
        BY <4>1, <4>2
    <3>6. \E cited \in SUBSET written : refs' = [refs EXCEPT ![subject] = cited]
      BY <3>1, <3>2
    <3> QED
      BY <2>1, <3>3, <3>4, <3>5, <3>6, CloseStep
  <2> QED
    BY <2>2, <2>3
<1>14. ASSUME Take PROVE [Trail!TrailNext]_(Trail!trailVars)
  BY <1>14 DEF Take, Awaited
<1>15. ASSUME AppendRecord PROVE [Trail!TrailNext]_(Trail!trailVars)
  <2>1. /\ inHand \in Records /\ receipts[inHand] \notin {"new", "persisted"}
        /\ written' = written \cup {inHand} /\ UNCHANGED <<receipts, toldLost, refs>>
    BY <1>15 DEF AppendRecord
  <2>2. Awaited' = Awaited
    BY <1>15 DEF AppendRecord, Awaited
  <2>3. CASE inHand \in written
    BY <2>1, <2>2, <2>3
  <2>4. CASE inHand \notin written
    <3>1. Said' = Said /\ Told(inHand) \in {"open", "lost"}
      BY <2>1 DEF Said
    <3> QED
      BY <2>1, <2>2, <2>4, <3>1, StoreStep
  <2> QED
    BY <2>3, <2>4
<1>16. ASSUME IndexRecord PROVE [Trail!TrailNext]_(Trail!trailVars)
  <2>1. /\ inHand \in Records /\ inHand \in written /\ receipts[inHand] \notin {"new", "persisted"}
        /\ Complete(inHand, "persisted") /\ UNCHANGED <<written, refs>>
    BY <1>16 DEF IndexRecord
  <2>2. Awaited' \in {Awaited, Awaited \ {inHand}}
    BY <1>16 DEF IndexRecord, Awaited
  <2> QED
    BY <2>1, <2>2, StoredStep
<1>17. ASSUME WriteFails PROVE [Trail!TrailNext]_(Trail!trailVars)
  <2>1. inHand \in Records /\ Told(inHand) \in {"open", "lost"} /\ UNCHANGED <<written, refs>>
    BY <1>17 DEF WriteFails
  <2>2. Awaited' \in {Awaited, Awaited \ {inHand}} /\ Awaited' = Awaited
    BY <1>17 DEF WriteFails, Awaited
  <2>3. CASE Complete(inHand, "failed")
    BY <2>1, <2>2, <2>3, LostStep
  <2>4. CASE UNCHANGED <<receipts, toldLost>>
    BY <2>1, <2>2, <2>4
  <2> QED
    BY <1>17, <2>3, <2>4 DEF WriteFails
<1>18. ASSUME WriterRaises PROVE [Trail!TrailNext]_(Trail!trailVars)
  BY <1>18 DEF WriterRaises, Awaited
<1>19. ASSUME SweepRaises PROVE [Trail!TrailNext]_(Trail!trailVars)
  BY <1>19 DEF SweepRaises, Awaited
<1>20. ASSUME SweepBreaks PROVE [Trail!TrailNext]_(Trail!trailVars)
  BY <1>20 DEF SweepBreaks, Awaited
<1>21. ASSUME SweptByWriter PROVE [Trail!TrailNext]_(Trail!trailVars)
  <2>1. /\ inHand \in Records /\ Told(inHand) \in {"open", "lost"}
        /\ Complete(inHand, "failed") /\ UNCHANGED <<written, refs>>
    BY <1>21 DEF SweptByWriter
  <2>2. Awaited' \in {Awaited, Awaited \ {inHand}}
    BY <1>21 DEF SweptByWriter, Awaited
  <2> QED
    BY <2>1, <2>2, LostStep
<1>22. ASSUME SignalDone PROVE [Trail!TrailNext]_(Trail!trailVars)
  BY <1>22 DEF SignalDone, Awaited
<1>23. ASSUME StopWriter PROVE [Trail!TrailNext]_(Trail!trailVars)
  BY <1>23 DEF StopWriter, Awaited
<1>24. ASSUME Joined PROVE [Trail!TrailNext]_(Trail!trailVars)
  BY <1>24 DEF Joined, Awaited
<1>25. ASSUME JoinTimesOut PROVE [Trail!TrailNext]_(Trail!trailVars)
  BY <1>25 DEF JoinTimesOut, Awaited
<1>26. ASSUME Crash PROVE [Trail!TrailNext]_(Trail!trailVars)
  <2>1. UNCHANGED <<receipts, toldLost, written, refs>> /\ Awaited' = {}
    BY <1>26 DEF Crash, Awaited
  <2>2. Awaited = {} \/ (Awaited = {subject} /\ subject \in Records)
    BY DEF Awaited
  <2> QED
    BY <2>1, <2>2, GoOnStep
<1>27. ASSUME SweepBegins PROVE [Trail!TrailNext]_(Trail!trailVars)
  BY <1>27 DEF SweepBegins, Awaited
<1>28. ASSUME CronDies PROVE [Trail!TrailNext]_(Trail!trailVars)
  BY <1>28 DEF CronDies, Awaited
<1>29. ASSUME NEW s \in Sweepers, Unlink(s) PROVE [Trail!TrailNext]_(Trail!trailVars)
  BY <1>29 DEF Unlink, Awaited
<1>30. ASSUME NEW s \in Sweepers, DropRows(s) PROVE [Trail!TrailNext]_(Trail!trailVars)
  BY <1>30 DEF DropRows, Awaited
<1>31. ASSUME UNCHANGED auditVars PROVE [Trail!TrailNext]_(Trail!trailVars)
  BY <1>31 DEF auditVars, Awaited
<1> QED
  BY <1>1, <1>2, <1>3, <1>4, <1>5, <1>6, <1>7, <1>8, <1>9, <1>10, <1>11, <1>12, <1>13, <1>14, <1>15, <1>16, <1>17, <1>18, <1>19, <1>20, <1>21, <1>22, <1>23, <1>24, <1>25, <1>26, <1>27, <1>28, <1>29, <1>30, <1>31 DEF AuditNext, LoopActs, WriterActs, WriterFaults

-----------------------------------------------------------------------------
\* The inductive invariant holds in every state.
LEMMA Invariance == AuditSpec => []Inv
<1>1. AuditInit => Inv
  BY AuditLogAssumption DEF AuditInit, Inv, AuditTypeOK, OnePlace, ReceiptsTrue, Underway, InQueue, InCall,
     Places, ReservedTold, Told, Records, Sweepers
<1>2. Inv /\ [AuditNext]_auditVars => Inv'
  BY TypeStep, OnePlaceStep, ReceiptStep, PlacesStep, ReservedStep DEF Inv
<1> QED
  BY <1>1, <1>2, PTL DEF AuditSpec

\* AuditTypeOK for every value of the constants.
THEOREM AuditTypes == AuditSpec => []AuditTypeOK
<1>1. Inv => AuditTypeOK
  BY DEF Inv
<1> QED
  BY <1>1, Invariance, PTL

\* KeepsTrail: through full queues, timed-out receipts, failed writes, a stopped
\* writer, retention and a crash, audit_log.py does what the trail allows.
THEOREM AuditImplementsTrail == AuditSpec => KeepsTrail
<1>1. AuditInit => Trail!TrailInit
  BY AuditLogAssumption DEF AuditInit, Trail!TrailInit, Told, Awaited
<1>2. Inv /\ [AuditNext]_auditVars => [Trail!TrailNext]_(Trail!trailVars)
  BY TrailStep
<1> QED
  BY <1>1, <1>2, Invariance, PTL DEF AuditSpec, KeepsTrail, Trail!TrailSpec
=============================================================================
