------------------------ MODULE ModelAdmission_proofs ------------------------
(* Safety of ModelAdmission for any tasks, models, runs, routes and sizes. *)
EXTENDS ModelAdmission, FoldTheorems, FiniteSetTheorems, TLAPS

(* A run that is not idle has its task and its model. *)
RunsBusy ==
  \A r \in Run : runPc[r] # "idle" => runTask[r] \in Task /\ runModel[r] \in Model

TypeInv == TypeOK /\ RunsBusy

LEMMA LessNat ==
  ASSUME NEW x \in Nat, NEW y \in Nat
  PROVE  Less(x, y) \in Nat
  BY DEF Less

-----------------------------------------------------------------------------
(* Each operation on the resources keeps their types.                        *)

LEMMA ReserveType ==
  ASSUME ResourcesTypeOK, NEW t \in Task, NEW m \in Model, Reserve(t, m)
  PROVE  ResourcesTypeOK'
<1> USE ModelAssumption DEF ResourcesTypeOK
<1>1. CASE Parallel(m)
  <2> DEFINE first == IF base[m] > 0 THEN 0 ELSE Need[m]
  <2>1. first \in Nat OBVIOUS
  <2>2. ReserveParallel(t, m) BY <1>1 DEF Reserve
  <2>3. base' = [base EXCEPT ![m] = @ + first] /\ used' = used + first + Session[m]
    BY <2>2 DEF ReserveParallel
  <2>4. base' \in [Model -> Nat] /\ used' \in Nat
    <3> HIDE DEF first
    <3> QED BY <2>1, <2>3
  <2>5. warm' \subseteq Model BY <2>2 DEF ReserveParallel
  <2> QED BY <2>2, <2>4, <2>5 DEF ReserveParallel
<1>2. CASE ~Parallel(m)
  <2>1. ReserveSingle(t, m) BY <1>2 DEF Reserve
  <2> QED BY <2>1 DEF ReserveSingle
<1> QED BY <1>1, <1>2

LEMMA ReleaseSingleType ==
  ASSUME ResourcesTypeOK, NEW t \in Task, NEW m \in Model,
         NEW retain \in BOOLEAN, ReleaseSingle(t, m, retain)
  PROVE  ResourcesTypeOK'
<1> USE ModelAssumption DEF ResourcesTypeOK, ReleaseSingle
<1>1. used' \in Nat BY LessNat
<1>2. held' \in [Task -> Nat]
  <2>1. Less(held[t], Need[m]) \in Nat BY LessNat
  <2> QED BY <2>1
<1>3. slots' \in [Model -> Nat]
  <2>1. \A k \in Model : Less(slots[k], 1) \in Nat BY LessNat
  <2> QED BY <2>1
<1> QED BY <1>1, <1>2, <1>3

LEMMA ReleaseParallelType ==
  ASSUME ResourcesTypeOK, NEW t \in Task, NEW m \in Model,
         NEW retain \in BOOLEAN, ReleaseParallel(t, m, retain)
  PROVE  ResourcesTypeOK'
<1> USE ModelAssumption DEF ResourcesTypeOK, ReleaseParallel
<1> DEFINE last == Less(active[m], 1) = 0 /\ base[m] > 0
           back == IF last THEN Need[m] ELSE 0
<1>1. back \in Nat OBVIOUS
<1>2. used' \in Nat
  <2>1. Less(used, Session[m]) \in Nat BY LessNat
  <2>2. Less(Less(used, Session[m]), back) \in Nat BY <2>1, <1>1, LessNat
  <2> QED BY <2>2
<1>3. held' \in [Task -> Nat]
  <2>1. Less(held[t], Session[m]) \in Nat BY LessNat
  <2> QED BY <2>1
<1>4. active' \in [Model -> Nat]
  <2>1. Less(active[m], 1) \in Nat BY LessNat
  <2> QED BY <2>1
<1>5. base' \in [Model -> Nat]
  <2>1. Less(base[m], back) \in Nat BY <1>1, LessNat
  <2> QED BY <2>1
<1> QED BY <1>2, <1>3, <1>4, <1>5

LEMMA CountType ==
  ASSUME ResourcesTypeOK, NEW m \in Model, StartModel(m) \/ FinishModel(m)
  PROVE  ResourcesTypeOK'
<1> USE DEF ResourcesTypeOK
<1>1. Less(active[m], 1) \in Nat BY LessNat
<1> QED BY <1>1 DEF StartModel, FinishModel

-----------------------------------------------------------------------------
LEMMA InitType == Init => TypeInv
  BY ModelAssumption, AdmissionAssumption
  DEF Init, ResourcesInit, TypeInv, TypeOK, ResourcesTypeOK, RunsBusy, RunPc,
      Unloader

(* The gates admit a task to its model. *)
LEMMA DispatchType ==
  ASSUME TypeInv, NEW r \in Run, NEW t \in Task, Dispatch(r, t),
         cur' \in Task \cup {NoTask}
  PROVE  TypeInv'
<1> USE DEF TypeInv, TypeOK, RunsBusy, RunPc
<1>1. ResourcesTypeOK' BY ReserveType DEF Dispatch
<1> QED BY <1>1 DEF Dispatch, unloadVars, bounds

LEMMA AdmitType ==
  ASSUME TypeInv, NEW r \in Run, NEW t \in Task, Admit(r, t)
  PROVE  TypeInv'
  BY DispatchType DEF Admit, TypeInv, TypeOK

LEMMA AdmitUnloadedType ==
  ASSUME TypeInv, NEW r \in Run, AdmitUnloaded(r)
  PROVE  TypeInv'
<1>1. cur \in Task BY DEF AdmitUnloaded, TypeInv, TypeOK
<1> QED BY <1>1, DispatchType DEF AdmitUnloaded

(* An unload loop goes on. *)
LEMMA ProceedType ==
  ASSUME NEW u \in Unloader, NEW rest \in SUBSET Model, Proceed(u, rest),
         todo \in [Unloader -> SUBSET Model],
         victim \in [Unloader -> Model \cup {NoModel}]
  PROVE  /\ todo' \in [Unloader -> SUBSET Model]
         /\ victim' \in [Unloader -> Model \cup {NoModel}]
  BY DEF Proceed

LEMMA AskUnloadType ==
  ASSUME TypeInv, NEW t \in Task, AskUnload(t)
  PROVE  TypeInv'
<1> USE DEF TypeInv, TypeOK, RunsBusy, ResourcesTypeOK, resourceVars, runVars,
            unloadVars, bounds, AskUnload
<1>1. warm \ {route[t]} \in SUBSET Model OBVIOUS
<1>2. "scheduler" \in Unloader BY DEF Unloader
<1> QED BY <1>1, <1>2, ProceedType

LEMMA UnloadType ==
  ASSUME TypeInv, NEW u \in Unloader, UnloadOk(u) \/ UnloadFailed(u)
  PROVE  TypeInv'
<1> USE DEF TypeInv, TypeOK, RunsBusy, ResourcesTypeOK, resourceVars, runVars,
            unloadVars, bounds
<1>1. CASE UnloadOk(u)
  <2>1. (IF victim[u] \in Managed THEN {} ELSE todo[u]) \in SUBSET Model OBVIOUS
  <2> QED BY <1>1, <2>1, ProceedType DEF UnloadOk, ClearSoft
<1>2. CASE UnloadFailed(u)
  <2>1. todo[u] \in SUBSET Model OBVIOUS
  <2> QED BY <1>2, <2>1, ProceedType DEF UnloadFailed
<1> QED BY <1>1, <1>2

LEMMA OtherType ==
  ASSUME TypeInv, DeferUnloaded \/ PanelRelease \/ Reload
  PROVE  TypeInv'
<1> USE DEF TypeInv, TypeOK, RunsBusy, ResourcesTypeOK, resourceVars, runVars,
            unloadVars, bounds
<1>1. CASE DeferUnloaded BY <1>1 DEF DeferUnloaded
<1>2. CASE PanelRelease
  <2>1. "panel" \in Unloader BY DEF Unloader
  <2> QED BY <1>2, <2>1, ProceedType, AdmissionAssumption DEF PanelRelease
<1>3. CASE Reload
  <2>1. metric' \in BOOLEAN BY <1>3, Zenon DEF Reload, DropMetric, AddMetric
  <2>2. CASE DropMetric BY <1>3, <2>1, <2>2 DEF Reload, DropMetric
  <2>3. CASE AddMetric BY <1>3, <2>1, <2>3 DEF Reload, AddMetric
  <2> QED BY <1>3, <2>2, <2>3 DEF Reload
<1> QED BY <1>1, <1>2, <1>3

LEMMA ExpireType ==
  ASSUME TypeInv, NEW m \in Model, SoftExpired(m)
  PROVE  TypeInv'
  BY DEF TypeInv, TypeOK, RunsBusy, ResourcesTypeOK, resourceVars, runVars,
         unloadVars, bounds, SoftExpired, Expire

(* A run begins, is aborted or asks for a requeue. *)
LEMMA RunType ==
  ASSUME TypeInv, NEW r \in Run, RunBegin(r) \/ RunRequeue(r) \/ RunAborted(r)
  PROVE  TypeInv'
<1> USE DEF TypeInv, TypeOK, RunsBusy, RunPc, unloadVars, bounds
<1>1. CASE RunBegin(r)
  <2>1. runModel[r] \in Model BY <1>1 DEF RunBegin, RunStep
  <2>2. ResourcesTypeOK'
    BY <1>1, <2>1, CountType DEF RunBegin, ResourcesTypeOK, resourceVars
  <2> QED BY <1>1, <2>2 DEF RunBegin, RunStep
<1>2. CASE RunRequeue(r)
  <2>1. runTask[r] \in Task BY <1>2 DEF RunRequeue, RunStep
  <2> QED BY <1>2, <2>1 DEF RunRequeue, RunStep, ResourcesTypeOK, resourceVars
<1>3. CASE RunAborted(r)
  BY <1>3 DEF RunAborted, FreeRun, ResourcesTypeOK, resourceVars
<1> QED BY <1>1, <1>2, <1>3

(* A run releases what it holds. *)
LEMMA ReleaseType ==
  ASSUME TypeInv, NEW r \in Run,
         RunReleaseSingle(r) \/ RunFinish(r) \/ RunReleaseParallel(r)
  PROVE  TypeInv'
<1> USE DEF TypeInv, TypeOK, RunsBusy, RunPc, unloadVars, bounds
<1>1. runTask[r] \in Task /\ runModel[r] \in Model
  BY DEF RunReleaseSingle, RunFinish, RunReleaseParallel, RunStep
<1>2. CASE RunReleaseSingle(r)
  <2>1. ResourcesTypeOK' BY <1>1, <1>2, ReleaseSingleType DEF RunReleaseSingle
  <2> QED BY <1>2, <2>1 DEF RunReleaseSingle, RunStep
<1>3. CASE RunFinish(r)
  <2>1. ResourcesTypeOK' BY <1>1, <1>3, CountType DEF RunFinish
  <2> QED BY <1>3, <2>1 DEF RunFinish, FreeRun
<1>4. CASE RunReleaseParallel(r)
  <2>1. ResourcesTypeOK' BY <1>1, <1>4, ReleaseParallelType DEF RunReleaseParallel
  <2> QED BY <1>4, <2>1 DEF RunReleaseParallel, FreeRun
<1> QED BY <1>2, <1>3, <1>4

LEMMA StutterType == ASSUME TypeInv, UNCHANGED vars PROVE TypeInv'
  BY DEF TypeInv, TypeOK, RunsBusy, ResourcesTypeOK, vars, resourceVars, runVars,
         unloadVars, bounds

LEMMA NextType == TypeInv /\ [Next]_vars => TypeInv'
<1> SUFFICES ASSUME TypeInv, [Next]_vars PROVE TypeInv' OBVIOUS
<1>1. CASE SchedNext
  BY <1>1, AdmitType, AskUnloadType, AdmitUnloadedType, OtherType DEF SchedNext
<1>2. CASE UnloadNext BY <1>2, UnloadType DEF UnloadNext
<1>3. CASE RunNext BY <1>3, RunType, ReleaseType DEF RunNext
<1>4. CASE PanelRelease \/ Reload BY <1>4, OtherType
<1>5. CASE \E m \in Model : SoftExpired(m) BY <1>5, ExpireType
<1>6. CASE UNCHANGED vars BY <1>6, StutterType
<1> QED BY <1>1, <1>2, <1>3, <1>4, <1>5, <1>6 DEF Next

LEMMA TypeInvariance == Spec => []TypeInv
<1> QED BY InitType, NextType, PTL DEF Spec

(* The state stays well-typed: counters are never negative, and what is used or
   held is an amount of memory (resource.py:542-656, resources.py:335-382). *)
THEOREM TypeCorrect == Spec => []TypeOK
<1>1. TypeInv => TypeOK BY DEF TypeInv
<1> QED BY <1>1, TypeInvariance, PTL

-----------------------------------------------------------------------------
(* One run per single-request model, as long as a task keeps its model.      *)

(* Every trace of a task leads to the model it asked for. *)
RoutesKept ==
  /\ route = Route
  /\ \A r \in Run : runPc[r] # "idle" => runModel[r] = Route[runTask[r]]
  /\ \A t \in Task : slotOf[t] \in {NoModel, Route[t]}

(* A run that has begun and not finished is counted. *)
ActiveHeld ==
  \A r \in Run : \A m \in Model :
    ~Parallel(m) /\ runModel[r] = m /\ runPc[r] \in {"exec", "requeued", "finish"}
      => active[m] > 0

SlotInv ==
  TypeInv /\ RoutesKept /\ SlotHeldUntilRelease /\ ActiveHeld /\ OneRunPerModel

LEMMA SlotInit == Init => SlotInv
<1> SUFFICES ASSUME Init PROVE SlotInv OBVIOUS
<1>1. TypeInv BY InitType
<1> QED BY <1>1
  DEF Init, ResourcesInit, SlotInv, RoutesKept, SlotHeldUntilRelease, ActiveHeld,
      OneRunPerModel, Running

(* A model without concurrency is only admitted when nobody runs it. *)
LEMMA FreeModel ==
  ASSUME SlotInv, NEW m \in Model, ~Parallel(m), SlotFree(m)
  PROVE  \A r \in Run : ~Running(r, m)
<1> USE ModelAssumption DEF SlotInv, TypeInv, TypeOK, ResourcesTypeOK
<1>1. MaxConcurrent[m] = 1 BY DEF Parallel
<1>2. slots[m] = 0 /\ active[m] = 0 BY <1>1 DEF SlotFree
<1> QED BY <1>2 DEF SlotHeldUntilRelease, ActiveHeld, Running, RunPc

LEMMA DispatchSlot ==
  ASSUME SlotInv, NEW r \in Run, NEW t \in Task, Dispatch(r, t), TypeInv',
         ~Parallel(route[t]) => SlotFree(route[t])
  PROVE  SlotInv'
<1> DEFINE m == route[t]
<1> USE ModelAssumption, AdmissionAssumption
    DEF SlotInv, TypeInv, TypeOK, ResourcesTypeOK, RoutesKept, Dispatch
<1>1. m \in Model OBVIOUS
<1>2. ASSUME ~Parallel(m) PROVE \A q \in Run : ~Running(q, m)
  BY <1>1, <1>2, FreeModel
<1>3. ASSUME NEW k \in Model
      PROVE  slots'[k] >= slots[k] /\ active'[k] >= active[k]
  <2>1. Reserve(t, m) OBVIOUS
  <2>2. slots[k] \in Nat /\ active[k] \in Nat BY <1>3
  <2>3. CASE Parallel(m)
    <3>1. slots' = slots /\ active' = [active EXCEPT ![m] = @ + 1]
      BY <2>1, <2>3 DEF Reserve, ReserveParallel
    <3> QED BY <2>2, <3>1
  <2>4. CASE ~Parallel(m)
    <3>1. active' = active /\ slots' = [slots EXCEPT ![m] = @ + 1]
      BY <2>1, <2>4 DEF Reserve, ReserveSingle
    <3> QED BY <2>2, <3>1
  <2> QED BY <2>3, <2>4
<1>4. ~Parallel(m) => slots'[m] > 0 BY <1>1 DEF Reserve, ReserveSingle
<1>5. \A q \in Run : q # r => /\ runPc'[q] = runPc[q]
                              /\ runModel'[q] = runModel[q]
                              /\ runTask'[q] = runTask[q]
  OBVIOUS
<1>6. runPc'[r] = "start" /\ runModel'[r] = m /\ runTask'[r] = t OBVIOUS
<1>7. RoutesKept'
  <2>1. \A k \in Task : slotOf'[k] \in {NoModel, Route[k]}
    BY DEF Reserve, ReserveSingle, ReserveParallel
  <2> QED BY <2>1, <1>5, <1>6
<1>8. SlotHeldUntilRelease' BY <1>3, <1>4, <1>5, <1>6 DEF SlotHeldUntilRelease, Parallel
<1>9. ActiveHeld' BY <1>3, <1>5, <1>6 DEF ActiveHeld, Parallel
<1>10. OneRunPerModel' BY <1>2, <1>5, <1>6 DEF OneRunPerModel, Running, Parallel
<1> QED BY <1>7, <1>8, <1>9, <1>10

(* Both gates look at the slot. *)
LEMMA GateSlot ==
  ASSUME SlotInv, NEW r \in Run, NEW t \in Task, TypeInv',
         Admit(r, t) \/ (t = cur /\ AdmitUnloaded(r))
  PROVE  SlotInv'
<1>1. Dispatch(r, t) BY DEF Admit, AdmitUnloaded
<1>2. ~Parallel(route[t]) => SlotFree(route[t])
  BY DEF Admit, AdmitUnloaded, Admissible, AdmissibleNow, SingleAdmissible
<1> QED BY <1>1, <1>2, DispatchSlot

(* Steps that leave the counters, the routes and the runs alone. *)
LEMMA QuietSlot ==
  ASSUME SlotInv, TypeInv', UNCHANGED <<route, runVars, slots, slotOf, active>>
  PROVE  SlotInv'
  BY DEF SlotInv, RoutesKept, SlotHeldUntilRelease, ActiveHeld, OneRunPerModel,
         Running, runVars, Parallel

LEMMA RunSlot ==
  ASSUME SlotInv, ~SmartFallback, NEW r \in Run, TypeInv',
         RunBegin(r) \/ RunRequeue(r) \/ RunAborted(r)
  PROVE  SlotInv'
<1> USE ModelAssumption, AdmissionAssumption
    DEF SlotInv, TypeInv, TypeOK, ResourcesTypeOK, RunsBusy, RoutesKept,
        SlotHeldUntilRelease, ActiveHeld, OneRunPerModel, Running
<1>1. CASE RunBegin(r)
  <2>1. runModel[r] \in Model BY <1>1 DEF RunBegin, RunStep
  <2>2. \A k \in Model : active'[k] >= active[k]
    BY <1>1, <2>1 DEF RunBegin, StartModel, resourceVars
  <2>3. ~Parallel(runModel[r]) => active'[runModel[r]] > 0
    BY <1>1, <2>1 DEF RunBegin, StartModel
  <2>4. UNCHANGED <<slots, slotOf>> BY <1>1 DEF RunBegin, StartModel, resourceVars
  <2> QED BY <1>1, <2>2, <2>3, <2>4 DEF RunBegin, RunStep, Parallel
<1>2. CASE RunRequeue(r)
  <2>1. route' = route BY <1>2 DEF RunRequeue
  <2> QED BY <1>2, <2>1 DEF RunRequeue, RunStep, resourceVars, Parallel
<1>3. CASE RunAborted(r)
  BY <1>3 DEF RunAborted, FreeRun, resourceVars, Parallel
<1> QED BY <1>1, <1>2, <1>3

(* What a run takes back is its own slot and its own count. *)
LEMMA ReleaseSlot ==
  ASSUME SlotInv, NEW r \in Run, TypeInv',
         RunReleaseSingle(r) \/ RunFinish(r) \/ RunReleaseParallel(r)
  PROVE  SlotInv'
<1> DEFINE t == runTask[r]
           m == runModel[r]
<1> USE ModelAssumption, AdmissionAssumption
    DEF SlotInv, TypeInv, TypeOK, ResourcesTypeOK, RunsBusy, RoutesKept
<1>1. t \in Task /\ m \in Model /\ m = Route[t]
  BY DEF RunReleaseSingle, RunFinish, RunReleaseParallel, RunStep
<1>2. ~Parallel(m) => \A q \in Run : q # r => ~Running(q, m)
  BY <1>1 DEF OneRunPerModel, Running, RunReleaseSingle, RunFinish,
     RunReleaseParallel, RunStep
<1>3. \A q \in Run : q # r => /\ runPc'[q] = runPc[q]
                              /\ runModel'[q] = runModel[q]
                              /\ runTask'[q] = runTask[q]
  <2>1. CASE RunReleaseSingle(r) BY <2>1 DEF RunReleaseSingle, RunStep
  <2>2. CASE RunFinish(r) BY <2>2 DEF RunFinish, FreeRun
  <2>3. CASE RunReleaseParallel(r) BY <2>3 DEF RunReleaseParallel, FreeRun
  <2> QED BY <2>1, <2>2, <2>3
<1>4. CASE RunReleaseSingle(r)
  <2>1. \A k \in Model : k # m => slots'[k] = slots[k]
    BY <1>1, <1>4 DEF RunReleaseSingle, ReleaseSingle
  <2>2. \A k \in Task : slotOf'[k] \in {NoModel, Route[k]}
    BY <1>4 DEF RunReleaseSingle, ReleaseSingle
  <2>3. runPc'[r] = "finish" /\ runModel' = runModel /\ runTask' = runTask
        /\ runPc[r] \in {"exec", "requeued"} /\ active' = active /\ route' = route
    BY <1>4 DEF RunReleaseSingle, RunStep, ReleaseSingle
  <2>4. SlotHeldUntilRelease'
    BY <1>2, <1>3, <1>4, <2>1, <2>3
    DEF SlotHeldUntilRelease, Running, RunReleaseSingle, Parallel
  <2>5. RoutesKept' BY <1>3, <2>2, <2>3
  <2>6. ActiveHeld' BY <1>3, <2>3 DEF ActiveHeld, Parallel
  <2>7. OneRunPerModel' BY <1>3, <2>3 DEF OneRunPerModel, Running, Parallel
  <2> QED BY <2>4, <2>5, <2>6, <2>7
<1>5. CASE RunFinish(r)
  <2>1. \A k \in Model : k # m => active'[k] = active[k]
    BY <1>5 DEF RunFinish, FinishModel
  <2>2. UNCHANGED <<slots, slotOf, route>> /\ runPc'[r] = "idle"
    BY <1>5 DEF RunFinish, FinishModel, FreeRun
  <2>3. RoutesKept' BY <1>3, <2>2
  <2>4. SlotHeldUntilRelease' BY <1>3, <2>2 DEF SlotHeldUntilRelease, Parallel
  <2>5. ActiveHeld' BY <1>2, <1>3, <2>1, <2>2 DEF ActiveHeld, Running, Parallel
  <2>6. OneRunPerModel' BY <1>3, <2>2 DEF OneRunPerModel, Running, Parallel
  <2> QED BY <2>3, <2>4, <2>5, <2>6
<1>6. CASE RunReleaseParallel(r)
  <2>1. \A k \in Model : k # m => active'[k] = active[k]
    BY <1>6 DEF RunReleaseParallel, ReleaseParallel
  <2>2. UNCHANGED <<slots, slotOf, route>> /\ runPc'[r] = "idle" /\ Parallel(m)
    BY <1>6 DEF RunReleaseParallel, ReleaseParallel, FreeRun
  <2>3. RoutesKept' BY <1>3, <2>2
  <2>4. SlotHeldUntilRelease' BY <1>3, <2>2 DEF SlotHeldUntilRelease, Parallel
  <2>5. ActiveHeld' BY <1>3, <2>1, <2>2 DEF ActiveHeld, Running, Parallel
  <2>6. OneRunPerModel' BY <1>3, <2>2 DEF OneRunPerModel, Running, Parallel
  <2> QED BY <2>3, <2>4, <2>5, <2>6
<1> QED BY <1>4, <1>5, <1>6

LEMMA SlotNext == ~SmartFallback /\ SlotInv /\ [Next]_vars => SlotInv'
<1> SUFFICES ASSUME ~SmartFallback, SlotInv, [Next]_vars PROVE SlotInv' OBVIOUS
<1>1. TypeInv' BY NextType DEF SlotInv
<1>2. CASE SchedNext
  <2>1. ASSUME NEW r \in Run, NEW t \in Task, Admit(r, t) PROVE SlotInv'
    BY <1>1, <2>1, GateSlot
  <2>2. ASSUME NEW t \in Task, AskUnload(t) PROVE SlotInv'
    BY <1>1, <2>2, QuietSlot DEF AskUnload, resourceVars
  <2>3. ASSUME NEW r \in Run, AdmitUnloaded(r) PROVE SlotInv'
    <3>1. cur \in Task BY <2>3 DEF AdmitUnloaded, SlotInv, TypeInv, TypeOK
    <3> QED BY <1>1, <2>3, <3>1, GateSlot
  <2>4. CASE DeferUnloaded
    BY <1>1, <2>4, QuietSlot DEF DeferUnloaded, resourceVars
  <2> QED BY <1>2, <2>1, <2>2, <2>3, <2>4 DEF SchedNext
<1>3. CASE UnloadNext
  BY <1>1, <1>3, QuietSlot DEF UnloadNext, UnloadOk, UnloadFailed, ClearSoft, resourceVars
<1>4. CASE RunNext BY <1>1, <1>4, RunSlot, ReleaseSlot DEF RunNext
<1>5. CASE PanelRelease BY <1>1, <1>5, QuietSlot DEF PanelRelease, resourceVars
<1>6. CASE Reload BY <1>1, <1>6, QuietSlot DEF Reload, DropMetric, AddMetric
<1>7. CASE \E m \in Model : SoftExpired(m)
  BY <1>1, <1>7, QuietSlot DEF SoftExpired, Expire
<1>8. CASE UNCHANGED vars BY <1>1, <1>8, QuietSlot DEF vars, resourceVars
<1> QED BY <1>2, <1>3, <1>4, <1>5, <1>6, <1>7, <1>8 DEF Next

LEMMA SlotInvariance == ASSUME ~SmartFallback PROVE Spec => []SlotInv
<1>1. SlotInv /\ [Next]_vars => SlotInv' BY SlotNext
<1> QED BY <1>1, SlotInit, PTL DEF Spec

(* A model without concurrency never serves two requests, whatever is requeued,
   unloaded, reloaded or aborted, as long as no task is moved to another model
   (resources.py:48-51, 351-382). *)
THEOREM OneRun == ASSUME ~SmartFallback PROVE Spec => []OneRunPerModel
<1>1. SlotInv => OneRunPerModel BY DEF SlotInv
<1> QED BY <1>1, SlotInvariance, PTL

(* What the comment at resources.py:48-51 promises does hold of tasks that keep
   their model: the refutation needs the smart fallback. *)
THEOREM SlotHeld == ASSUME ~SmartFallback PROVE Spec => []SlotHeldUntilRelease
<1>1. SlotInv => SlotHeldUntilRelease BY DEF SlotInv
<1> QED BY <1>1, SlotInvariance, PTL

-----------------------------------------------------------------------------
(* The counters, for finitely many runs none of which is aborted.            *)

OthersUnchanged(r) ==
  \A q \in Run : q # r => runPc'[q] = runPc[q] /\ runModel'[q] = runModel[q]

(* The number of runs of one model at given control points, in a step of r. *)
LEMMA RunsInStep ==
  ASSUME IsFiniteSet(Run), NEW m, NEW P, NEW r \in Run, OthersUnchanged(r)
  PROVE  LET n == Cardinality(RunsIn(m, P)) IN
         /\ n \in Nat
         /\ n' \in Nat
         /\ r \in RunsIn(m, P)  => n > 0
         /\ r \in RunsIn(m, P)' => n' > 0
         /\ r \notin RunsIn(m, P) /\ r \in RunsIn(m, P)' => n' = n + 1
         /\ r \in RunsIn(m, P) /\ r \notin RunsIn(m, P)' => n' = n - 1
         /\ (r \in RunsIn(m, P) <=> r \in RunsIn(m, P)') => n' = n
<1> DEFINE S == RunsIn(m, P)
           T == RunsIn(m, P)'
<1>1. S \subseteq Run /\ T \subseteq Run BY DEF RunsIn
<1>2. IsFiniteSet(S) /\ IsFiniteSet(T) BY <1>1, FS_Subset
<1>3. Cardinality(S) \in Nat /\ Cardinality(T) \in Nat BY <1>2, FS_CardinalityType
<1>4. S \ {r} = T \ {r} BY DEF RunsIn, OthersUnchanged
<1> HIDE DEF S, T
<1>5. Cardinality(S) = 0 <=> S = {} BY <1>2, FS_EmptySet
<1>6. Cardinality(T) = 0 <=> T = {} BY <1>2, FS_EmptySet
<1>7. ASSUME r \notin S, r \in T PROVE Cardinality(T) = Cardinality(S) + 1
  <2>1. T = S \cup {r} BY <1>4, <1>7
  <2> QED BY <2>1, <1>2, <1>7, FS_AddElement
<1>8. ASSUME r \in S, r \notin T PROVE Cardinality(T) = Cardinality(S) - 1
  <2>1. T = S \ {r} BY <1>4, <1>8
  <2> QED BY <2>1, <1>2, <1>8, FS_RemoveElement
<1>9. ASSUME r \in S <=> r \in T PROVE T = S BY <1>4, <1>9
<1> QED BY <1>3, <1>5, <1>6, <1>7, <1>8, <1>9 DEF S, T

(* A parallel model counts its sessions, and has its base exactly while there
   are any. *)
IdleHasNoModel == \A r \in Run : runPc[r] = "idle" => runModel[r] = NoModel

FinishIsSingle == \A r \in Run : runPc[r] = "finish" => ~Parallel(runModel[r])

SessionsCounted ==
  \A m \in Model : Parallel(m) => active[m] = Cardinality(RunsIn(m, RunPc))

SessionInv ==
  /\ TypeInv /\ IdleHasNoModel /\ FinishIsSingle
  /\ SessionsCounted /\ SessionsWithinMaximum

LEMMA SessionInit == Init => SessionInv
<1> SUFFICES ASSUME Init PROVE SessionInv OBVIOUS
<1>1. TypeInv BY InitType
<1>2. \A m \in Model : RunsIn(m, RunPc) = {}
  BY ModelAssumption DEF Init, RunsIn
<1>3. \A m \in Model : Cardinality(RunsIn(m, RunPc)) = 0 BY <1>2, FS_EmptySet
<1> QED BY <1>1, <1>3, ModelAssumption
  DEF Init, ResourcesInit, SessionInv, IdleHasNoModel, FinishIsSingle,
      SessionsCounted, SessionsWithinMaximum

(* Steps that leave runs, counts and bases alone. *)
LEMMA QuietSession ==
  ASSUME SessionInv, TypeInv', UNCHANGED <<runVars, base, active>>
  PROVE  SessionInv'
  BY DEF SessionInv, IdleHasNoModel, FinishIsSingle, SessionsCounted,
         SessionsWithinMaximum, RunsIn,
         runVars, Parallel

LEMMA DispatchSession ==
  ASSUME IsFiniteSet(Run), SessionInv, TypeInv', NEW r \in Run, NEW t \in Task,
         Dispatch(r, t), NEW k \in Model, k = route[t],
         Parallel(k) => ParallelAdmissible(k)
  PROVE  SessionInv'
<1> DEFINE N(m) == Cardinality(RunsIn(m, RunPc))
<1> USE ModelAssumption
    DEF SessionInv, TypeInv, TypeOK, ResourcesTypeOK, IdleHasNoModel
<1>1. k \in Model /\ runPc[r] = "idle" /\ Reserve(t, k) BY DEF Dispatch
<1>2. runPc'[r] = "start" /\ runModel'[r] = k /\ OthersUnchanged(r)
  BY DEF Dispatch, OthersUnchanged
<1>3. IdleHasNoModel' /\ FinishIsSingle'
  BY <1>2 DEF OthersUnchanged, FinishIsSingle, Parallel
<1>4. ASSUME NEW m \in Model, m # k, Parallel(m)
      PROVE  N(m)' = N(m) /\ base'[m] = base[m] /\ active'[m] = active[m]
  <2>1. r \notin RunsIn(m, RunPc) /\ r \notin RunsIn(m, RunPc)'
    BY <1>1, <1>2, <1>4 DEF RunsIn
  <2>2. N(m)' = N(m) BY <1>2, <2>1, RunsInStep
  <2> QED BY <1>1, <1>4, <2>2 DEF Reserve, ReserveParallel, ReserveSingle
<1>5. ASSUME Parallel(k)
      PROVE  /\ N(k) \in Nat /\ N(k)' = N(k) + 1
             /\ active'[k] = active[k] + 1 /\ active[k] < MaxConcurrent[k]
             /\ base'[k] = IF base[k] > 0 THEN base[k] ELSE Need[k]
  <2>1. r \notin RunsIn(k, RunPc) /\ r \in RunsIn(k, RunPc)'
    BY <1>1, <1>2 DEF RunsIn, RunPc
  <2>2. N(k) \in Nat /\ N(k)' = N(k) + 1 BY <1>2, <2>1, RunsInStep
  <2>3. ReserveParallel(t, k) BY <1>1, <1>5 DEF Reserve
  <2> QED BY <1>1, <1>5, <2>2, <2>3 DEF ReserveParallel, ParallelAdmissible
<1>6. SessionsCounted' BY <1>4, <1>5 DEF SessionsCounted, Parallel
<1>7. SessionsWithinMaximum'
  <2> SUFFICES ASSUME NEW m \in Model, Parallel(m)
               PROVE  /\ N(m)' <= MaxConcurrent[m]
                      /\ base'[m] = IF N(m)' > 0 THEN Need[m] ELSE 0
    BY DEF SessionsWithinMaximum, Parallel
  <2>1. active[m] = N(m) /\ base[m] = IF N(m) > 0 THEN Need[m] ELSE 0
    BY DEF SessionsCounted, SessionsWithinMaximum
  <2>2. CASE m # k BY <1>4, <2>2 DEF SessionsWithinMaximum
  <2>3. CASE m = k BY <1>1, <1>5, <2>1, <2>3
  <2> QED BY <2>2, <2>3
<1> QED BY <1>3, <1>6, <1>7

(* A step of a run that stays with its model and keeps counts and bases of
   parallel models. *)
LEMMA MovedSession ==
  ASSUME IsFiniteSet(Run), SessionInv, TypeInv', NEW r \in Run, OthersUnchanged(r),
         \/ runPc[r] # "idle" /\ runPc'[r] # "idle" /\ runModel'[r] = runModel[r]
         \/ ~Parallel(runModel[r]) /\ runPc'[r] = "idle" /\ runModel'[r] = NoModel,
         runPc'[r] = "finish" => ~Parallel(runModel[r]),
         base' = base,
         \A m \in Model : Parallel(m) => active'[m] = active[m]
  PROVE  SessionInv'
<1> USE ModelAssumption
    DEF SessionInv, TypeInv, TypeOK, ResourcesTypeOK, IdleHasNoModel
<1>1. IdleHasNoModel' /\ FinishIsSingle'
  BY DEF OthersUnchanged, FinishIsSingle, Parallel
<1>2. ASSUME NEW m \in Model, Parallel(m)
      PROVE  Cardinality(RunsIn(m, RunPc))' = Cardinality(RunsIn(m, RunPc))
  <2>1. r \in RunsIn(m, RunPc) <=> r \in RunsIn(m, RunPc)' BY <1>2 DEF RunsIn
  <2> QED BY <2>1, RunsInStep
<1> QED BY <1>1, <1>2 DEF SessionsCounted, SessionsWithinMaximum, Parallel

LEMMA RunSession ==
  ASSUME IsFiniteSet(Run), SessionInv, TypeInv', NEW r \in Run,
         RunBegin(r) \/ RunRequeue(r) \/ RunReleaseSingle(r) \/ RunFinish(r)
  PROVE  SessionInv'
<1> USE DEF SessionInv, TypeInv, TypeOK, ResourcesTypeOK, RunsBusy
<1>1. CASE RunBegin(r)
  <2>1. OthersUnchanged(r) BY <1>1 DEF RunBegin, RunStep, OthersUnchanged
  <2>2. \A m \in Model : Parallel(m) => active'[m] = active[m]
    BY <1>1 DEF RunBegin, StartModel, resourceVars, RunStep
  <2>3. base' = base BY <1>1 DEF RunBegin, StartModel, resourceVars
  <2> QED BY <1>1, <2>1, <2>2, <2>3, MovedSession DEF RunBegin, RunStep
<1>2. CASE RunRequeue(r)
  <2>1. OthersUnchanged(r) BY <1>2 DEF RunRequeue, RunStep, OthersUnchanged
  <2> QED BY <1>2, <2>1, MovedSession DEF RunRequeue, RunStep, resourceVars
<1>3. CASE RunReleaseSingle(r)
  <2>1. OthersUnchanged(r) BY <1>3 DEF RunReleaseSingle, RunStep, OthersUnchanged
  <2> QED BY <1>3, <2>1, MovedSession DEF RunReleaseSingle, RunStep, ReleaseSingle
<1>4. CASE RunFinish(r)
  <2>1. OthersUnchanged(r) BY <1>4 DEF RunFinish, FreeRun, OthersUnchanged
  <2>2. ~Parallel(runModel[r]) BY <1>4 DEF RunFinish, FinishIsSingle
  <2>3. \A m \in Model : Parallel(m) => active'[m] = active[m]
    BY <1>4, <2>2 DEF RunFinish, FinishModel
  <2>4. runPc'[r] = "idle" /\ runModel'[r] = NoModel /\ base' = base
    BY <1>4 DEF RunFinish, FreeRun, FinishModel
  <2> QED BY <2>1, <2>2, <2>3, <2>4, MovedSession
<1> QED BY <1>1, <1>2, <1>3, <1>4

LEMMA ReleaseSession ==
  ASSUME IsFiniteSet(Run), SessionInv, TypeInv', NEW r \in Run,
         RunReleaseParallel(r), NEW k \in Model, k = runModel[r]
  PROVE  SessionInv'
<1> DEFINE N(m) == Cardinality(RunsIn(m, RunPc))
<1> USE ModelAssumption
    DEF SessionInv, TypeInv, TypeOK, ResourcesTypeOK, IdleHasNoModel
<1>1. Parallel(k) /\ runPc[r] # "idle" /\ (\E retain \in {TRUE, k \notin Managed} :
        ReleaseParallel(runTask[r], k, retain))
  BY DEF RunReleaseParallel
<1>2. runPc'[r] = "idle" /\ runModel'[r] = NoModel /\ OthersUnchanged(r)
  BY DEF RunReleaseParallel, FreeRun, OthersUnchanged
<1>3. IdleHasNoModel' /\ FinishIsSingle'
  BY <1>2 DEF OthersUnchanged, FinishIsSingle, Parallel
<1>4. ASSUME NEW m \in Model, m # k, Parallel(m)
      PROVE  N(m)' = N(m) /\ base'[m] = base[m] /\ active'[m] = active[m]
  <2>1. r \notin RunsIn(m, RunPc) /\ r \notin RunsIn(m, RunPc)'
    BY <1>2, <1>4 DEF RunsIn
  <2>2. N(m)' = N(m) BY <1>2, <2>1, RunsInStep
  <2> QED BY <1>1, <1>4, <2>2 DEF ReleaseParallel
<1>5. N(k) \in Nat /\ N(k) > 0 /\ N(k)' = N(k) - 1
  <2>1. r \in RunsIn(k, RunPc) /\ r \notin RunsIn(k, RunPc)'
    BY <1>2 DEF RunsIn
  <2> QED BY <1>2, <2>1, RunsInStep
<1>6. active[k] = N(k) /\ base[k] = Need[k] /\ N(k) <= MaxConcurrent[k]
  BY <1>1, <1>5 DEF SessionsCounted, SessionsWithinMaximum
<1>7. active'[k] = active[k] - 1 BY <1>1, <1>5, <1>6 DEF ReleaseParallel, Less
<1>8. base'[k] = IF active[k] = 1 THEN 0 ELSE Need[k]
  BY <1>1, <1>5, <1>6 DEF ReleaseParallel, Less
<1>9. SessionsCounted' BY <1>4, <1>5, <1>6, <1>7 DEF SessionsCounted, Parallel
<1>10. SessionsWithinMaximum'
  <2> SUFFICES ASSUME NEW m \in Model, Parallel(m)
               PROVE  /\ N(m)' <= MaxConcurrent[m]
                      /\ base'[m] = IF N(m)' > 0 THEN Need[m] ELSE 0
    BY DEF SessionsWithinMaximum, Parallel
  <2>1. CASE m # k BY <1>4, <2>1 DEF SessionsWithinMaximum
  <2>2. CASE m = k
    <3>1. MaxConcurrent[k] \in Nat OBVIOUS
    <3>2. N(k)' <= MaxConcurrent[k] BY <1>5, <1>6, <3>1
    <3>3. base'[k] = IF N(k)' > 0 THEN Need[k] ELSE 0 BY <1>5, <1>6, <1>8
    <3> QED BY <2>2, <3>2, <3>3
  <2> QED BY <2>1, <2>2
<1> QED BY <1>3, <1>9, <1>10

LEMMA SessionNext ==
  ASSUME IsFiniteSet(Run), MaxAborts = 0
  PROVE  SessionInv /\ [Next]_vars => SessionInv'
<1> SUFFICES ASSUME SessionInv, [Next]_vars PROVE SessionInv' OBVIOUS
<1>1. TypeInv' BY NextType DEF SessionInv
<1>2. CASE SchedNext
  <2>1. ASSUME NEW r \in Run, NEW t \in Task, Admit(r, t) PROVE SessionInv'
    <3>1. route[t] \in Model BY DEF SessionInv, TypeInv, TypeOK
    <3> QED BY <1>1, <2>1, <3>1, DispatchSession DEF Admit, Admissible
  <2>2. ASSUME NEW t \in Task, AskUnload(t) PROVE SessionInv'
    BY <1>1, <2>2, QuietSession DEF AskUnload, resourceVars
  <2>3. ASSUME NEW r \in Run, AdmitUnloaded(r) PROVE SessionInv'
    <3>1. cur \in Task /\ route[cur] \in Model
      BY <2>3 DEF AdmitUnloaded, SessionInv, TypeInv, TypeOK
    <3> QED BY <1>1, <2>3, <3>1, DispatchSession DEF AdmitUnloaded, AdmissibleNow
  <2>4. CASE DeferUnloaded
    BY <1>1, <2>4, QuietSession DEF DeferUnloaded, resourceVars
  <2> QED BY <1>2, <2>1, <2>2, <2>3, <2>4 DEF SchedNext
<1>3. CASE UnloadNext
  BY <1>1, <1>3, QuietSession DEF UnloadNext, UnloadOk, UnloadFailed, ClearSoft, resourceVars
<1>4. CASE RunNext
  <2>1. ASSUME NEW r \in Run, RunReleaseParallel(r) PROVE SessionInv'
    <3>1. runModel[r] \in Model
      BY <2>1 DEF RunReleaseParallel, SessionInv, TypeInv, RunsBusy
    <3> QED BY <1>1, <2>1, <3>1, ReleaseSession
  <2>2. ASSUME NEW r \in Run PROVE ~RunAborted(r)
    BY DEF RunAborted, SessionInv, TypeInv, TypeOK
  <2> QED BY <1>1, <1>4, <2>1, <2>2, RunSession DEF RunNext
<1>5. CASE PanelRelease BY <1>1, <1>5, QuietSession DEF PanelRelease, resourceVars
<1>6. CASE Reload BY <1>1, <1>6, QuietSession DEF Reload, DropMetric, AddMetric
<1>7. CASE \E m \in Model : SoftExpired(m)
  BY <1>1, <1>7, QuietSession DEF SoftExpired, Expire
<1>8. CASE UNCHANGED vars BY <1>1, <1>8, QuietSession DEF vars, resourceVars
<1> QED BY <1>2, <1>3, <1>4, <1>5, <1>6, <1>7, <1>8 DEF Next

(* A parallel model never serves more sessions than its maximum, and its base is
   reserved exactly while it serves any: with smart fallback, requeues and
   reloads, as long as no run is aborted (resources.py:519-592). *)
THEOREM Sessions ==
  ASSUME IsFiniteSet(Run), MaxAborts = 0
  PROVE  Spec => []SessionsWithinMaximum
<1>1. SessionInv /\ [Next]_vars => SessionInv' BY SessionNext
<1>2. SessionInv => SessionsWithinMaximum BY DEF SessionInv
<1> QED BY <1>1, <1>2, SessionInit, PTL DEF Spec

-----------------------------------------------------------------------------
(* The counters of single-request models, when no task changes its model and no
   run is aborted.                                                           *)

Slotted(m) == RunsIn(m, {"start", "exec", "requeued"})
Counted(m) == RunsIn(m, {"exec", "requeued", "finish"})

(* A run between admission and release owns the slot under its consumer id. *)
SlotOwner ==
  \A r \in Run : ~Parallel(runModel[r]) /\ runPc[r] \in {"start", "exec", "requeued"}
    => slotOf[runTask[r]] = runModel[r]

SinglesCounted ==
  \A m \in Model :
    IF Parallel(m) THEN slots[m] = 0
    ELSE slots[m] = Cardinality(Slotted(m)) /\ active[m] = Cardinality(Counted(m))

CountInv == SlotInv /\ SessionInv /\ SlotOwner /\ SinglesCounted

LEMMA CountInit == Init => CountInv
<1> SUFFICES ASSUME Init PROVE CountInv OBVIOUS
<1>1. \A m \in Model : Slotted(m) = {} /\ Counted(m) = {}
  BY ModelAssumption DEF Init, RunsIn, Slotted, Counted
<1>2. \A m \in Model : Cardinality(Slotted(m)) = 0 /\ Cardinality(Counted(m)) = 0
  BY <1>1, FS_EmptySet
<1>3. SlotInv /\ SessionInv BY SlotInit, SessionInit
<1> QED BY <1>2, <1>3
  DEF Init, ResourcesInit, CountInv, SlotOwner, SinglesCounted

LEMMA QuietCount ==
  ASSUME CountInv, SlotInv', SessionInv',
         UNCHANGED <<runVars, slots, slotOf, active>>
  PROVE  CountInv'
  BY DEF CountInv, SlotOwner, SinglesCounted, Slotted, Counted, RunsIn, runVars,
         Parallel

(* The two counts in a step of one run: they change for its model only. *)
LEMMA CountStep ==
  ASSUME IsFiniteSet(Run), NEW r \in Run, OthersUnchanged(r), NEW m \in Model
  PROVE  LET s == Cardinality(Slotted(m))
             c == Cardinality(Counted(m))
         IN
         /\ s \in Nat /\ c \in Nat
         /\ r \in Slotted(m) => s > 0
         /\ r \in Counted(m) => c > 0
         /\ r \notin Slotted(m) /\ r \in Slotted(m)' => s' = s + 1
         /\ r \in Slotted(m) /\ r \notin Slotted(m)' => s' = s - 1
         /\ (r \in Slotted(m) <=> r \in Slotted(m)') => s' = s
         /\ r \notin Counted(m) /\ r \in Counted(m)' => c' = c + 1
         /\ r \in Counted(m) /\ r \notin Counted(m)' => c' = c - 1
         /\ (r \in Counted(m) <=> r \in Counted(m)') => c' = c
  BY RunsInStep DEF Slotted, Counted

LEMMA DispatchCount ==
  ASSUME IsFiniteSet(Run), CountInv, SlotInv', SessionInv', NEW r \in Run,
         NEW t \in Task, Dispatch(r, t), NEW k \in Model, k = route[t],
         ~Parallel(k) => SlotFree(k)
  PROVE  CountInv'
<1> USE ModelAssumption
    DEF CountInv, SlotInv, SessionInv, TypeInv, TypeOK, ResourcesTypeOK
<1>1. runPc[r] = "idle" /\ runModel[r] = NoModel /\ Reserve(t, k)
  BY DEF Dispatch, IdleHasNoModel
<1>2. runPc'[r] = "start" /\ runModel'[r] = k /\ runTask'[r] = t /\ OthersUnchanged(r)
      /\ \A q \in Run : q # r => runTask'[q] = runTask[q]
  BY DEF Dispatch, OthersUnchanged
<1>3. SlotOwner'
  <2>1. ASSUME NEW q \in Run, q # r, ~Parallel(runModel[q]),
               runPc[q] \in {"start", "exec", "requeued"}
        PROVE  slotOf'[runTask[q]] = runModel[q]
    <3>1. runTask[q] \in Task /\ runModel[q] \in Model /\ runModel[q] = Route[runTask[q]]
      BY <2>1 DEF RunsBusy, RoutesKept
    <3>2. runTask[q] # t \/ Parallel(k)
      <4>1. k = Route[t] BY DEF RoutesKept
      <4>2. ~Parallel(k) => ~Running(q, k) BY FreeModel
      <4> QED BY <2>1, <3>1, <4>1, <4>2 DEF Running
    <3> QED BY <1>1, <2>1, <3>1, <3>2
      DEF Reserve, ReserveSingle, ReserveParallel, SlotOwner
  <2>2. ~Parallel(k) => slotOf'[t] = k BY <1>1 DEF Reserve, ReserveSingle
  <2> QED BY <1>2, <2>1, <2>2 DEF SlotOwner, OthersUnchanged, Parallel
<1>4. SinglesCounted'
  <2> SUFFICES ASSUME NEW m \in Model
               PROVE  IF Parallel(m) THEN slots'[m] = 0
                      ELSE /\ slots'[m] = Cardinality(Slotted(m))'
                           /\ active'[m] = Cardinality(Counted(m))'
    BY DEF SinglesCounted, Parallel
  <2>1. r \notin Slotted(m) /\ r \notin Counted(m)
    BY <1>1 DEF Slotted, Counted, RunsIn
  <2>2. r \notin Counted(m)' /\ (r \in Slotted(m)' <=> m = k)
    BY <1>2 DEF Slotted, Counted, RunsIn
  <2>3. CASE Parallel(m)
    BY <1>1, <2>3 DEF SinglesCounted, Reserve, ReserveSingle, ReserveParallel
  <2>4. CASE ~Parallel(m) /\ m # k
    <3>1. slots'[m] = slots[m] /\ active'[m] = active[m]
      BY <1>1, <2>4 DEF Reserve, ReserveSingle, ReserveParallel
    <3> QED BY <1>2, <2>1, <2>2, <2>4, <3>1, CountStep DEF SinglesCounted
  <2>5. CASE ~Parallel(m) /\ m = k
    <3>1. slots'[m] = slots[m] + 1 /\ active'[m] = active[m]
      BY <1>1, <2>5 DEF Reserve, ReserveSingle
    <3> QED BY <1>2, <2>1, <2>2, <2>5, <3>1, CountStep DEF SinglesCounted
  <2> QED BY <2>3, <2>4, <2>5
<1> QED BY <1>3, <1>4

(* A run begins: it is counted, unless it is a session. *)
LEMMA BeginCount ==
  ASSUME IsFiniteSet(Run), CountInv, SlotInv', SessionInv', NEW r \in Run,
         RunBegin(r), NEW k \in Model, k = runModel[r]
  PROVE  CountInv'
<1> USE ModelAssumption
    DEF CountInv, SlotInv, SessionInv, TypeInv, TypeOK, ResourcesTypeOK
<1>1. /\ runPc[r] = "start" /\ runPc'[r] = "exec"
      /\ runModel' = runModel /\ runTask' = runTask /\ OthersUnchanged(r)
  BY DEF RunBegin, RunStep, OthersUnchanged
<1>2. UNCHANGED <<slots, slotOf>> BY DEF RunBegin, StartModel, resourceVars
<1>3. SlotOwner' BY <1>1, <1>2 DEF SlotOwner, OthersUnchanged, Parallel
<1>4. SinglesCounted'
  <2> SUFFICES ASSUME NEW m \in Model, ~Parallel(m)
               PROVE  /\ slots'[m] = Cardinality(Slotted(m))'
                      /\ active'[m] = Cardinality(Counted(m))'
    BY <1>2 DEF SinglesCounted, Parallel
  <2>1. r \notin Counted(m) /\ (r \in Counted(m)' <=> m = k)
        /\ (r \in Slotted(m) <=> r \in Slotted(m)')
    BY <1>1 DEF Slotted, Counted, RunsIn
  <2>2. active'[m] = IF m = k THEN active[m] + 1 ELSE active[m]
    BY DEF RunBegin, StartModel, resourceVars
  <2> QED BY <1>1, <1>2, <2>1, <2>2, CountStep DEF SinglesCounted
<1> QED BY <1>3, <1>4

(* A run asks for a requeue, releases its slot, or ends as a session. *)
LEMMA RequeueCount ==
  ASSUME IsFiniteSet(Run), CountInv, SlotInv', SessionInv', NEW r \in Run,
         RunRequeue(r)
  PROVE  CountInv'
<1> USE DEF CountInv
<1>1. /\ runPc[r] = "exec" /\ runPc'[r] = "requeued"
      /\ runModel' = runModel /\ runTask' = runTask /\ OthersUnchanged(r)
      /\ UNCHANGED <<slots, slotOf, active>>
  BY DEF RunRequeue, RunStep, OthersUnchanged, resourceVars, SlotInv, TypeInv, TypeOK
<1>2. SlotOwner' BY <1>1 DEF SlotOwner, OthersUnchanged, Parallel
<1>3. ASSUME NEW m \in Model
      PROVE  /\ Cardinality(Slotted(m))' = Cardinality(Slotted(m))
             /\ Cardinality(Counted(m))' = Cardinality(Counted(m))
  <2>1. /\ r \in Counted(m) <=> r \in Counted(m)'
        /\ r \in Slotted(m) <=> r \in Slotted(m)'
    BY <1>1 DEF Slotted, Counted, RunsIn
  <2> QED BY <1>1, <2>1, CountStep
<1> QED BY <1>1, <1>2, <1>3 DEF SinglesCounted, Parallel

LEMMA ReleaseSingleCount ==
  ASSUME IsFiniteSet(Run), CountInv, SlotInv', SessionInv', NEW r \in Run,
         RunReleaseSingle(r), NEW k \in Model, k = runModel[r]
  PROVE  CountInv'
<1> USE ModelAssumption
    DEF CountInv, SlotInv, SessionInv, TypeInv, TypeOK, ResourcesTypeOK
<1>1. /\ runPc[r] \in {"exec", "requeued"} /\ runPc'[r] = "finish" /\ ~Parallel(k)
      /\ runModel' = runModel /\ runTask' = runTask /\ OthersUnchanged(r)
  BY DEF RunReleaseSingle, RunStep, OthersUnchanged
<1>2. runTask[r] \in Task /\ slotOf[runTask[r]] = k /\ k = Route[runTask[r]]
  BY <1>1 DEF SlotOwner, RunsBusy, RoutesKept
<1>3. /\ active' = active
      /\ slots' = [m \in Model |-> IF m = k THEN Less(slots[m], 1) ELSE slots[m]]
      /\ slotOf' = [slotOf EXCEPT ![runTask[r]] = NoModel]
  BY <1>2 DEF RunReleaseSingle, ReleaseSingle
<1>4. SlotOwner'
  <2> SUFFICES ASSUME NEW q \in Run, ~Parallel(runModel[q]),
                      runPc'[q] \in {"start", "exec", "requeued"}
               PROVE  slotOf'[runTask[q]] = runModel[q]
    BY <1>1 DEF SlotOwner, Parallel
  <2>1. q # r /\ runPc'[q] = runPc[q] BY <1>1 DEF OthersUnchanged
  <2>2. runTask[q] \in Task /\ runModel[q] = Route[runTask[q]]
    BY <2>1 DEF RunsBusy, RoutesKept
  <2>3. runTask[q] # runTask[r]
    BY <1>1, <1>2, <2>1, <2>2 DEF OneRunPerModel, Running
  <2> QED BY <1>3, <2>1, <2>2, <2>3 DEF SlotOwner
<1>5. SinglesCounted'
  <2> SUFFICES ASSUME NEW m \in Model
               PROVE  IF Parallel(m) THEN slots'[m] = 0
                      ELSE /\ slots'[m] = Cardinality(Slotted(m))'
                           /\ active'[m] = Cardinality(Counted(m))'
    BY DEF SinglesCounted, Parallel
  <2>1. /\ r \in Counted(m) <=> r \in Counted(m)'
        /\ r \notin Slotted(m)' /\ (r \in Slotted(m) <=> m = k)
    BY <1>1 DEF Slotted, Counted, RunsIn
  <2>2. CASE m # k BY <1>1, <1>3, <2>1, <2>2, CountStep DEF SinglesCounted
  <2>3. CASE m = k
    <3>1. slots[m] = Cardinality(Slotted(m)) /\ active[m] = Cardinality(Counted(m))
      BY <1>1, <2>3 DEF SinglesCounted
    <3>2. Cardinality(Slotted(m)) > 0
          /\ Cardinality(Slotted(m))' = Cardinality(Slotted(m)) - 1
          /\ Cardinality(Counted(m))' = Cardinality(Counted(m))
      BY <1>1, <2>1, <2>3, CountStep
    <3>3. slots'[m] = slots[m] - 1 BY <1>3, <2>3, <3>1, <3>2 DEF Less
    <3> QED BY <1>1, <1>3, <2>3, <3>1, <3>2, <3>3
  <2> QED BY <2>2, <2>3
<1> QED BY <1>4, <1>5

LEMMA FinishCount ==
  ASSUME IsFiniteSet(Run), CountInv, SlotInv', SessionInv', NEW r \in Run,
         RunFinish(r) \/ RunReleaseParallel(r), NEW k \in Model, k = runModel[r]
  PROVE  CountInv'
<1> USE ModelAssumption
    DEF CountInv, SlotInv, SessionInv, TypeInv, TypeOK, ResourcesTypeOK
<1>1. runPc'[r] = "idle" /\ OthersUnchanged(r) /\ UNCHANGED <<slots, slotOf>>
      /\ \A q \in Run : q # r => runTask'[q] = runTask[q]
  BY DEF RunFinish, RunReleaseParallel, FreeRun, OthersUnchanged, FinishModel,
     ReleaseParallel
<1>2. /\ active' = [active EXCEPT ![k] = Less(@, 1)]
      /\ Parallel(k) \/ runPc[r] = "finish"
  BY DEF RunFinish, RunReleaseParallel, FinishModel, ReleaseParallel
<1>3. SlotOwner' BY <1>1 DEF SlotOwner, OthersUnchanged, Parallel
<1>4. SinglesCounted'
  <2> SUFFICES ASSUME NEW m \in Model, ~Parallel(m)
               PROVE  /\ slots'[m] = Cardinality(Slotted(m))'
                      /\ active'[m] = Cardinality(Counted(m))'
    BY <1>1 DEF SinglesCounted, Parallel
  <2>1. r \notin Slotted(m) /\ r \notin Slotted(m)' /\ r \notin Counted(m)'
        /\ (r \in Counted(m) <=> m = k)
    BY <1>1, <1>2 DEF Slotted, Counted, RunsIn
  <2>2. slots[m] = Cardinality(Slotted(m)) /\ active[m] = Cardinality(Counted(m))
    BY DEF SinglesCounted
  <2>3. slots'[m] = Cardinality(Slotted(m))' BY <1>1, <2>1, <2>2, CountStep
  <2>4. CASE m # k BY <1>1, <1>2, <2>1, <2>2, <2>3, <2>4, CountStep
  <2>5. CASE m = k
    <3>1. active[m] > 0 /\ Cardinality(Counted(m))' = active[m] - 1
      BY <1>1, <2>1, <2>2, <2>5, CountStep
    <3> QED BY <1>2, <2>3, <2>5, <3>1 DEF Less
  <2> QED BY <2>4, <2>5
<1> QED BY <1>3, <1>4

LEMMA CountNext ==
  ASSUME IsFiniteSet(Run), ~SmartFallback, MaxAborts = 0
  PROVE  CountInv /\ [Next]_vars => CountInv'
<1> SUFFICES ASSUME CountInv, [Next]_vars PROVE CountInv' OBVIOUS
<1>1. SlotInv' /\ SessionInv' BY SlotNext, SessionNext DEF CountInv
<1> USE DEF CountInv, SlotInv, TypeInv, TypeOK
<1>2. CASE SchedNext
  <2>1. ASSUME NEW r \in Run, NEW t \in Task, Admit(r, t) PROVE CountInv'
    <3>1. route[t] \in Model OBVIOUS
    <3> QED BY <1>1, <2>1, <3>1, DispatchCount DEF Admit, Admissible, SingleAdmissible
  <2>2. ASSUME NEW t \in Task, AskUnload(t) PROVE CountInv'
    BY <1>1, <2>2, QuietCount DEF AskUnload, resourceVars
  <2>3. ASSUME NEW r \in Run, AdmitUnloaded(r) PROVE CountInv'
    <3>1. cur \in Task /\ route[cur] \in Model BY <2>3 DEF AdmitUnloaded
    <3> QED BY <1>1, <2>3, <3>1, DispatchCount DEF AdmitUnloaded, AdmissibleNow
  <2>4. CASE DeferUnloaded BY <1>1, <2>4, QuietCount DEF DeferUnloaded, resourceVars
  <2> QED BY <1>2, <2>1, <2>2, <2>3, <2>4 DEF SchedNext
<1>3. CASE UnloadNext
  BY <1>1, <1>3, QuietCount DEF UnloadNext, UnloadOk, UnloadFailed, ClearSoft, resourceVars
<1>4. CASE RunNext
  <2> SUFFICES ASSUME NEW r \in Run,
                      \/ RunBegin(r) \/ RunRequeue(r) \/ RunReleaseSingle(r)
                      \/ RunFinish(r) \/ RunReleaseParallel(r) \/ RunAborted(r)
               PROVE  CountInv'
    BY <1>4 DEF RunNext
  <2>1. ~RunAborted(r) BY DEF RunAborted
  <2>2. runModel[r] \in Model
    BY <2>1 DEF RunsBusy, RunBegin, RunRequeue, RunReleaseSingle, RunFinish,
       RunReleaseParallel, RunStep
  <2> QED
    BY <1>1, <2>1, <2>2, BeginCount, RequeueCount, ReleaseSingleCount, FinishCount
<1>5. CASE PanelRelease BY <1>1, <1>5, QuietCount DEF PanelRelease, resourceVars
<1>6. CASE Reload BY <1>1, <1>6, QuietCount DEF Reload, DropMetric, AddMetric
<1>7. CASE \E m \in Model : SoftExpired(m)
  BY <1>1, <1>7, QuietCount DEF SoftExpired, Expire
<1>8. CASE UNCHANGED vars BY <1>1, <1>8, QuietCount DEF vars, resourceVars
<1> QED BY <1>2, <1>3, <1>4, <1>5, <1>6, <1>7, <1>8 DEF Next

(* Slots and active counts are exact, so admission neither passes a task that is
   one too many nor refuses a model that nobody uses: as long as no task changes
   its model and no run is aborted (resources.py:335-382). *)
THEOREM Counters ==
  ASSUME IsFiniteSet(Run), ~SmartFallback, MaxAborts = 0
  PROVE  Spec => []CountersExact
<1>1. CountInv /\ [Next]_vars => CountInv' BY CountNext
<1>2. CountInv => CountersExact
  BY DEF CountInv, SessionInv, SinglesCounted, SessionsCounted, CountersExact,
         Slotted, Counted
<1> QED BY <1>1, <1>2, CountInit, PTL DEF Spec

-----------------------------------------------------------------------------
(* Memory, as long as no reload changes the limits.  What is used is what is
   reserved, and it fits together with the idle models.  A release takes off
   exactly what its run has reserved since every consumer holds at least what
   its runs, which may overlap, will give back.                              *)

(* What a run gives back when it ends. *)
Take(m) == IF Parallel(m) THEN Session[m] ELSE Need[m]

Holding == {"start", "exec", "requeued"}

(* Per run, its share in what task t holds. *)
Share(t) ==
  [r \in Run |-> IF runTask[r] = t /\ runPc[r] \in Holding THEN Take(runModel[r]) ELSE 0]

(* A task holds what its runs will give back; an aborted run leaves more. *)
SharesHeld == \A t \in Task : SumFunctionOnSet(Share(t), Run) <= held[t]

(* A base reservation is whole or none. *)
BaseWhole == \A m \in Model : base[m] \in {0, Need[m]}

MemoryFits ==
  metric /\ ResourcesTypeOK /\ BaseWhole /\ UsedIsReserved /\ MemoryNotOvercommitted

LEMMA HeldChange ==
  ASSUME held \in [Task -> Nat], NEW t \in Task, NEW h \in Nat,
         held' = [held EXCEPT ![t] = h]
  PROVE  SumFunctionOnSet(held', Task) + held[t] = SumFunctionOnSet(held, Task) + h
  BY SumExcept, FiniteAssumption

LEMMA BaseChange ==
  ASSUME base \in [Model -> Nat], NEW m \in Model, NEW b \in Nat,
         base' = [base EXCEPT ![m] = b]
  PROVE  SumFunctionOnSet(base', Model) + base[m] = SumFunctionOnSet(base, Model) + b
  BY SumExcept, FiniteAssumption

LEMMA SumsAreNat ==
  ASSUME ResourcesTypeOK
  PROVE  /\ SumFunctionOnSet(held, Task) \in Nat
         /\ SumFunctionOnSet(base, Model) \in Nat
         /\ \A S \in SUBSET Model : SumFunctionOnSet(Need, S) \in Nat
<1> USE FiniteAssumption, ModelAssumption DEF ResourcesTypeOK
<1>1. SumFunctionOnSet(held, Task) \in Nat BY SumType
<1>2. SumFunctionOnSet(base, Model) \in Nat BY SumType
<1>3. ASSUME NEW S \in SUBSET Model PROVE SumFunctionOnSet(Need, S) \in Nat
  <2>1. IsFiniteSet(S) BY FS_Subset
  <2> QED BY <2>1, SumType
<1> QED BY <1>1, <1>2, <1>3

(* What idle models occupy, with one model less or more. *)
LEMMA WarmLess ==
  ASSUME warm \subseteq Model, NEW m \in Model
  PROVE  SumFunctionOnSet(Need, warm) =
           SumFunctionOnSet(Need, warm \ {m}) + IF m \in warm THEN Need[m] ELSE 0
<1> USE FiniteAssumption, ModelAssumption
<1>1. IsFiniteSet(warm) /\ IsFiniteSet(warm \ {m}) BY FS_Subset
<1>2. CASE m \in warm
  <2>1. SumFunctionOnSet(Need, warm) = Need[m] + SumFunctionOnSet(Need, warm \ {m})
    BY <1>1, <1>2, SumRemove
  <2>2. SumFunctionOnSet(Need, warm \ {m}) \in Nat BY <1>1, SumType
  <2> QED BY <1>2, <2>1, <2>2
<1>3. CASE m \notin warm
  <2> DEFINE rest == warm \ {m}
  <2>1. rest = warm BY <1>3
  <2> HIDE DEF rest
  <2>2. SumFunctionOnSet(Need, rest) = SumFunctionOnSet(Need, warm) BY <2>1
  <2>3. SumFunctionOnSet(Need, warm) \in Nat BY <1>1, SumType
  <2> QED BY <1>3, <2>2, <2>3 DEF rest
<1> QED BY <1>2, <1>3

LEMMA WarmMore ==
  ASSUME warm \subseteq Model, NEW m \in Model
  PROVE  SumFunctionOnSet(Need, warm \cup {m}) <= SumFunctionOnSet(Need, warm) + Need[m]
<1> USE FiniteAssumption, ModelAssumption
<1>1. IsFiniteSet(warm) BY FS_Subset
<1>2. SumFunctionOnSet(Need, warm) \in Nat BY <1>1, SumType
<1>3. CASE m \in warm
  <2> DEFINE all == warm \cup {m}
  <2>1. all = warm BY <1>3
  <2> HIDE DEF all
  <2>2. SumFunctionOnSet(Need, all) = SumFunctionOnSet(Need, warm) BY <2>1
  <2> QED BY <1>2, <2>2 DEF all
<1>4. CASE m \notin warm
  <2>1. SumFunctionOnSet(Need, warm \cup {m}) = Need[m] + SumFunctionOnSet(Need, warm)
    BY <1>1, <1>4, SumAdd
  <2> QED BY <1>2, <2>1
<1> QED BY <1>3, <1>4

LEMMA WarmSubset ==
  ASSUME warm \subseteq Model, NEW S \in SUBSET warm
  PROVE  SumFunctionOnSet(Need, S) <= SumFunctionOnSet(Need, warm)
<1>1. IsFiniteSet(warm) BY FiniteAssumption, FS_Subset
<1> QED BY <1>1, ModelAssumption, SumSubset

-----------------------------------------------------------------------------
(* The operations on the resources. *)

LEMMA ReserveSingleFits ==
  ASSUME MemoryFits, ResourcesTypeOK', NEW t \in Task, NEW m \in Model,
         ReserveSingle(t, m), Fits(Need[m]) \/ FitsForReuse(m)
  PROVE  MemoryFits'
<1> USE ModelAssumption DEF MemoryFits, ResourcesTypeOK
<1> DEFINE h == SumFunctionOnSet(held, Task)
           s == SumFunctionOnSet(Need, warm)
           b == SumFunctionOnSet(base, Model)
           rest == SumFunctionOnSet(Need, warm \ {m})
<1>1. h \in Nat /\ b \in Nat /\ s \in Nat /\ rest \in Nat BY SumsAreNat
<1>2. /\ warm' = warm \ {m} /\ base' = base /\ metric' = metric
      /\ used' = used + Need[m]
      /\ held' = [held EXCEPT ![t] = held[t] + Need[m]]
  BY DEF ReserveSingle
<1>3. SumFunctionOnSet(held', Task) = h + Need[m]
  <2>1. held[t] + Need[m] \in Nat OBVIOUS
  <2>2. SumFunctionOnSet(held', Task) + held[t] = h + (held[t] + Need[m])
    BY <1>2, <2>1, HeldChange
  <2>3. SumFunctionOnSet(held', Task) \in Nat BY SumType, FiniteAssumption
  <2> QED BY <1>1, <2>2, <2>3
<1>4. s = rest + IF m \in warm THEN Need[m] ELSE 0 BY WarmLess
<1>5. used = h + b BY DEF UsedIsReserved, Reserved
<1>6. Limit = Capacity BY DEF Limit
<1>7. h + b + Need[m] + rest <= Capacity
  <2>1. CASE Fits(Need[m])
    <3>1. used + s + Need[m] <= Capacity BY <1>6, <2>1 DEF Fits, SoftUsed
    <3> QED BY <1>1, <1>4, <1>5, <3>1
  <2>2. CASE FitsForReuse(m)
    <3>1. m \in warm /\ used + Less(s, Need[m]) + Need[m] <= Capacity
      BY <1>6, <2>2 DEF FitsForReuse, SoftUsed
    <3>2. Less(s, Need[m]) = rest BY <1>1, <1>4, <3>1 DEF Less
    <3> QED BY <1>1, <1>5, <3>1, <3>2
  <2> QED BY <2>1, <2>2
<1>8. UsedIsReserved' BY <1>1, <1>2, <1>3, <1>5 DEF UsedIsReserved, Reserved
<1>9. MemoryNotOvercommitted'
  BY <1>1, <1>2, <1>3, <1>7 DEF MemoryNotOvercommitted, Reserved, SoftUsed
<1>10. BaseWhole' BY <1>2 DEF BaseWhole
<1> QED BY <1>2, <1>8, <1>9, <1>10

LEMMA ReserveParallelFits ==
  ASSUME MemoryFits, ResourcesTypeOK', NEW t \in Task, NEW m \in Model,
         ReserveParallel(t, m), Fits(StartNeed(m))
  PROVE  MemoryFits'
<1> USE ModelAssumption DEF MemoryFits, ResourcesTypeOK
<1> DEFINE h == SumFunctionOnSet(held, Task)
           s == SumFunctionOnSet(Need, warm)
           b == SumFunctionOnSet(base, Model)
           rest == SumFunctionOnSet(Need, warm \ {m})
           first == IF base[m] > 0 THEN 0 ELSE Need[m]
<1>1. h \in Nat /\ b \in Nat /\ s \in Nat /\ rest \in Nat BY SumsAreNat
<1>2. /\ base' = [base EXCEPT ![m] = base[m] + first]
      /\ used' = used + first + Session[m]
      /\ held' = [held EXCEPT ![t] = held[t] + Session[m]]
      /\ warm' = IF first > 0 THEN warm \ {m} ELSE warm
      /\ metric' = metric
  BY DEF ReserveParallel
<1>3. first \in Nat /\ Session[m] \in Nat /\ Need[m] \in Nat \ {0} OBVIOUS
<1>4. SumFunctionOnSet(held', Task) = h + Session[m]
  <2>1. held[t] + Session[m] \in Nat OBVIOUS
  <2>2. SumFunctionOnSet(held', Task) + held[t] = h + (held[t] + Session[m])
    BY <1>2, <2>1, HeldChange
  <2>3. SumFunctionOnSet(held', Task) \in Nat BY SumType, FiniteAssumption
  <2> QED BY <1>1, <2>2, <2>3
<1>5. SumFunctionOnSet(base', Model) = b + first
  <2>1. base[m] + first \in Nat OBVIOUS
  <2>2. SumFunctionOnSet(base', Model) + base[m] = b + (base[m] + first)
    <3> HIDE DEF first
    <3> QED BY <1>2, <2>1, BaseChange
  <2>3. SumFunctionOnSet(base', Model) \in Nat BY SumType, FiniteAssumption
  <2>4. base[m] \in Nat OBVIOUS
  <2> HIDE DEF first
  <2> QED BY <1>1, <1>3, <2>2, <2>3, <2>4
<1>6. s = rest + IF m \in warm THEN Need[m] ELSE 0 BY WarmLess
<1>7. used = h + b BY DEF UsedIsReserved, Reserved
<1>8. h + b + s <= Capacity BY DEF MemoryNotOvercommitted, Reserved, SoftUsed
<1>9. StartNeed(m) > 0 => h + b + s + StartNeed(m) <= Capacity
  BY <1>7 DEF Fits, Limit, SoftUsed
<1>10. h + b + first + Session[m] + SumFunctionOnSet(Need, warm') <= Capacity
  <2>1. CASE base[m] > 0
    <3>1. first = 0 /\ StartNeed(m) = Session[m] BY <2>1 DEF StartNeed, Loaded
    <3>2. warm' = warm BY <1>2, <3>1
    <3> HIDE DEF first
    <3> QED BY <1>1, <1>3, <1>8, <1>9, <3>1, <3>2
  <2>2. CASE ~(base[m] > 0)
    <3>1. first = Need[m] BY <2>2
    <3>2. warm' = warm \ {m} BY <1>2, <3>1
    <3>3. StartNeed(m) = IF m \in warm THEN Session[m] ELSE Need[m] + Session[m]
      BY <2>2 DEF StartNeed, Loaded
    <3> HIDE DEF first
    <3>4. SumFunctionOnSet(Need, warm') = rest BY <3>2
    <3> QED BY <1>1, <1>3, <1>6, <1>8, <1>9, <3>1, <3>3, <3>4
  <2> QED BY <2>1, <2>2
<1>11. used' = used + first + Session[m] BY <1>2
<1> HIDE DEF first, h, b
<1>12. UsedIsReserved' BY <1>1, <1>3, <1>4, <1>5, <1>7, <1>11 DEF UsedIsReserved, Reserved
<1>13. MemoryNotOvercommitted'
  <2>1. SumFunctionOnSet(Need, warm') \in Nat BY SumsAreNat, SumType, FS_Subset, FiniteAssumption
  <2> QED BY <1>1, <1>3, <1>4, <1>5, <1>10, <2>1 DEF MemoryNotOvercommitted, Reserved, SoftUsed
<1>14. BaseWhole' BY <1>2 DEF BaseWhole, first
<1> QED BY <1>2, <1>12, <1>13, <1>14

LEMMA ReserveFits ==
  ASSUME MemoryFits, ResourcesTypeOK', NEW t \in Task, NEW m \in Model,
         Reserve(t, m), Admissible(m) \/ AdmissibleNow(m)
  PROVE  MemoryFits'
<1>1. CASE Parallel(m)
  BY <1>1, ReserveParallelFits DEF Reserve, Admissible, AdmissibleNow, ParallelAdmissible
<1>2. CASE ~Parallel(m)
  BY <1>2, ReserveSingleFits DEF Reserve, Admissible, AdmissibleNow, SingleAdmissible
<1> QED BY <1>1, <1>2

LEMMA ReleaseSingleFits ==
  ASSUME MemoryFits, ResourcesTypeOK', NEW t \in Task, NEW m \in Model, NEW retain \in BOOLEAN,
         ReleaseSingle(t, m, retain), Need[m] <= held[t]
  PROVE  MemoryFits'
<1> USE ModelAssumption DEF MemoryFits, ResourcesTypeOK
<1> DEFINE h == SumFunctionOnSet(held, Task)
           s == SumFunctionOnSet(Need, warm)
           b == SumFunctionOnSet(base, Model)
           w == SumFunctionOnSet(Need, warm')
<1>1. h \in Nat /\ b \in Nat /\ s \in Nat BY SumsAreNat
<1>2. /\ used' = Less(used, Need[m])
      /\ held' = [held EXCEPT ![t] = Less(held[t], Need[m])]
      /\ warm' = IF retain THEN warm \cup {m} ELSE warm
      /\ base' = base /\ metric' = metric
  BY DEF ReleaseSingle
<1>3. held[t] \in Nat /\ Need[m] \in Nat OBVIOUS
<1>4. held[t] <= h BY SumMember, FiniteAssumption
<1>5. SumFunctionOnSet(held', Task) = h - Need[m]
  <2>1. Less(held[t], Need[m]) = held[t] - Need[m] /\ held[t] - Need[m] \in Nat
    BY <1>3 DEF Less
  <2>2. SumFunctionOnSet(held', Task) + held[t] = h + (held[t] - Need[m])
    BY <1>2, <2>1, HeldChange
  <2>3. SumFunctionOnSet(held', Task) \in Nat BY SumType, FiniteAssumption
  <2> QED BY <1>1, <1>3, <2>2, <2>3
<1>6. used = h + b BY DEF UsedIsReserved, Reserved
<1>7. used' = used - Need[m] BY <1>1, <1>2, <1>3, <1>4, <1>6 DEF Less
<1>8. w \in Nat /\ w <= s + Need[m]
  <2>1. CASE retain BY <1>1, <1>2, <2>1, WarmMore, SumsAreNat
  <2>2. CASE ~retain BY <1>1, <1>2, <1>3, <2>2
  <2> QED BY <2>1, <2>2
<1>9. h + b + s <= Capacity BY DEF MemoryNotOvercommitted, Reserved, SoftUsed
<1>10. SumFunctionOnSet(base', Model) = b BY <1>2
<1> HIDE DEF h, b
<1>11. UsedIsReserved' BY <1>1, <1>3, <1>5, <1>6, <1>7, <1>10 DEF UsedIsReserved, Reserved
<1>12. MemoryNotOvercommitted'
  BY <1>1, <1>3, <1>5, <1>8, <1>9, <1>10 DEF MemoryNotOvercommitted, Reserved, SoftUsed
<1>13. BaseWhole' BY <1>2 DEF BaseWhole
<1> QED BY <1>2, <1>11, <1>12, <1>13

LEMMA ReleaseParallelFits ==
  ASSUME MemoryFits, ResourcesTypeOK', NEW t \in Task, NEW m \in Model, NEW retain \in BOOLEAN,
         ReleaseParallel(t, m, retain), Session[m] <= held[t]
  PROVE  MemoryFits'
<1> USE ModelAssumption DEF MemoryFits, ResourcesTypeOK
<1> DEFINE h == SumFunctionOnSet(held, Task)
           s == SumFunctionOnSet(Need, warm)
           b == SumFunctionOnSet(base, Model)
           w == SumFunctionOnSet(Need, warm')
           last == Less(active[m], 1) = 0 /\ base[m] > 0
           back == IF last THEN Need[m] ELSE 0
<1>1. h \in Nat /\ b \in Nat /\ s \in Nat BY SumsAreNat
<1>2. /\ used' = Less(Less(used, Session[m]), back)
      /\ held' = [held EXCEPT ![t] = Less(held[t], Session[m])]
      /\ base' = [base EXCEPT ![m] = Less(base[m], back)]
      /\ warm' = IF last /\ retain THEN warm \cup {m} ELSE warm
      /\ metric' = metric
  BY DEF ReleaseParallel
<1>3. held[t] \in Nat /\ base[m] \in Nat /\ Session[m] \in Nat /\ Need[m] \in Nat OBVIOUS
<1>4. back \in Nat /\ back <= base[m] /\ (back = 0 \/ back = Need[m])
  BY <1>3 DEF BaseWhole
<1>5. ~last => back = 0 OBVIOUS
<1>6. last => back = Need[m] OBVIOUS
<1>7. BaseWhole' BY <1>2, <1>3, <1>4 DEF BaseWhole, Less
<1> HIDE DEF back, last
<1>8. held[t] <= h BY SumMember, FiniteAssumption
<1>9. base[m] <= b BY SumMember, FiniteAssumption
<1>10. SumFunctionOnSet(held', Task) = h - Session[m]
  <2>1. Less(held[t], Session[m]) = held[t] - Session[m] /\ held[t] - Session[m] \in Nat
    BY <1>3 DEF Less
  <2>2. SumFunctionOnSet(held', Task) + held[t] = h + (held[t] - Session[m])
    BY <1>2, <2>1, HeldChange
  <2>3. SumFunctionOnSet(held', Task) \in Nat BY SumType, FiniteAssumption
  <2> QED BY <1>1, <1>3, <2>2, <2>3
<1>11. SumFunctionOnSet(base', Model) = b - back
  <2>1. Less(base[m], back) = base[m] - back /\ base[m] - back \in Nat
    BY <1>3, <1>4 DEF Less
  <2>2. SumFunctionOnSet(base', Model) + base[m] = b + (base[m] - back)
    BY <1>2, <2>1, BaseChange
  <2>3. SumFunctionOnSet(base', Model) \in Nat BY SumType, FiniteAssumption
  <2> QED BY <1>1, <1>3, <1>4, <2>2, <2>3
<1>12. used = h + b BY DEF UsedIsReserved, Reserved
<1>13. used' = h - Session[m] + (b - back)
  <2>1. Less(used, Session[m]) = used - Session[m] BY <1>1, <1>3, <1>8, <1>12 DEF Less
  <2>2. Less(used - Session[m], back) = used - Session[m] - back
    BY <1>1, <1>3, <1>4, <1>8, <1>9, <1>12 DEF Less
  <2> QED BY <1>1, <1>2, <1>3, <1>4, <1>12, <2>1, <2>2
<1>14. w \in Nat /\ w <= s + back
  <2>1. CASE last /\ retain
    <3>1. w <= s + Need[m] BY <1>2, <2>1, WarmMore
    <3>2. w \in Nat BY <1>2, <2>1, SumsAreNat
    <3> QED BY <1>6, <2>1, <3>1, <3>2
  <2>2. CASE ~(last /\ retain)
    <3>1. warm' = warm BY <1>2, <2>2
    <3> QED BY <1>1, <1>4, <3>1
  <2> QED BY <2>1, <2>2
<1>15. h + b + s <= Capacity BY DEF MemoryNotOvercommitted, Reserved, SoftUsed
<1> HIDE DEF h, b
<1>16. UsedIsReserved' BY <1>10, <1>11, <1>13 DEF UsedIsReserved, Reserved
<1>17. MemoryNotOvercommitted'
  BY <1>1, <1>3, <1>4, <1>10, <1>11, <1>14, <1>15 DEF MemoryNotOvercommitted, Reserved, SoftUsed
<1> QED BY <1>2, <1>7, <1>16, <1>17

(* Idle models go, nothing else changes. *)
LEMMA WarmGoesFits ==
  ASSUME MemoryFits, ResourcesTypeOK', warm' \subseteq warm, UNCHANGED <<metric, used, held, base>>
  PROVE  MemoryFits'
<1> USE ModelAssumption DEF MemoryFits, ResourcesTypeOK
<1>1. SumFunctionOnSet(Need, warm') <= SumFunctionOnSet(Need, warm) BY WarmSubset
<1>2. SumFunctionOnSet(Need, warm') \in Nat /\ SumFunctionOnSet(Need, warm) \in Nat BY SumsAreNat
<1>3. Reserved' = Reserved /\ Reserved \in Nat BY SumsAreNat DEF Reserved
<1>4. MemoryNotOvercommitted' BY <1>1, <1>2, <1>3 DEF MemoryNotOvercommitted, SoftUsed
<1>5. UsedIsReserved' BY <1>3 DEF UsedIsReserved
<1>6. BaseWhole' BY DEF BaseWhole
<1> QED BY <1>4, <1>5, <1>6

-----------------------------------------------------------------------------
(* What runs will give back. *)

LEMMA ShareNat ==
  ASSUME TypeInv, NEW t \in Task
  PROVE  \A r \in Run : Share(t)[r] \in Nat
  BY ModelAssumption DEF TypeInv, TypeOK, RunsBusy, Share, Take, Holding

(* One run changes its share in one task by as much as the task holds more or
   less. *)
LEMMA ShareStep ==
  ASSUME IsFiniteSet(Run), TypeInv, TypeInv', SharesHeld, NEW r \in Run, OthersUnchanged(r),
         \A q \in Run : q # r => runTask'[q] = runTask[q],
         \A t \in Task : held[t] + Share(t)'[r] <= held'[t] + Share(t)[r]
  PROVE  SharesHeld'
<1> SUFFICES ASSUME NEW t \in Task
             PROVE  SumFunctionOnSet(Share(t)', Run) <= held'[t]
  BY DEF SharesHeld
<1> DEFINE f == Share(t)
           g == Share(t)'
<1>1. \A q \in Run : f[q] \in Nat /\ g[q] \in Nat
  <2>1. \A q \in Run : g[q] \in Nat
    BY ModelAssumption DEF TypeInv, TypeOK, RunsBusy, Share, Take, Holding, Parallel
  <2> QED BY <2>1, ShareNat
<1>2. \A q \in Run \ {r} : g[q] = f[q]
  BY DEF OthersUnchanged, Share, Take, Parallel
<1>3. SumFunctionOnSet(f, Run) <= held[t] BY DEF SharesHeld
<1>4. held[t] + g[r] <= held'[t] + f[r] OBVIOUS
<1>5. held[t] \in Nat /\ held'[t] \in Nat BY DEF TypeInv, TypeOK, ResourcesTypeOK
<1> HIDE DEF f, g
<1>6. SumFunctionOnSet(g, Run) + f[r] = SumFunctionOnSet(f, Run) + g[r] BY <1>1, <1>2, SumChange
<1>7. SumFunctionOnSet(f, Run) \in Nat /\ SumFunctionOnSet(g, Run) \in Nat BY <1>1, SumType
<1>8. SumFunctionOnSet(g, Run) <= held'[t] BY <1>1, <1>3, <1>4, <1>5, <1>6, <1>7
<1> QED BY <1>8 DEF g

LEMMA ShareQuiet ==
  ASSUME SharesHeld, UNCHANGED <<runVars, held>>
  PROVE  SharesHeld'
<1>1. \A t \in Task : Share(t)' = Share(t) BY DEF runVars, Share, Take, Parallel
<1> QED BY <1>1 DEF SharesHeld

(* A run that holds has its share in its task. *)
LEMMA ShareCovered ==
  ASSUME IsFiniteSet(Run), TypeInv, SharesHeld, NEW r \in Run, runPc[r] \in Holding
  PROVE  Take(runModel[r]) <= held[runTask[r]]
<1> DEFINE t == runTask[r]
<1>1. t \in Task /\ runModel[r] \in Model BY DEF TypeInv, RunsBusy, Holding
<1>2. Share(t)[r] = Take(runModel[r]) BY DEF Share
<1>3. Share(t)[r] <= SumFunctionOnSet(Share(t), Run) BY <1>1, ShareNat, SumMember
<1>4. SumFunctionOnSet(Share(t), Run) <= held[t] BY <1>1 DEF SharesHeld
<1>5. SumFunctionOnSet(Share(t), Run) \in Nat BY <1>1, ShareNat, SumType
<1>6. Share(t)[r] \in Nat /\ held[t] \in Nat BY <1>1, ShareNat DEF TypeInv, TypeOK, ResourcesTypeOK
<1> QED BY <1>2, <1>3, <1>4, <1>5, <1>6

SharesInv == TypeInv /\ SharesHeld

LEMMA DispatchShares ==
  ASSUME IsFiniteSet(Run), SharesInv, TypeInv', NEW r \in Run, NEW t \in Task, Dispatch(r, t)
  PROVE  SharesHeld'
<1> DEFINE m == route[t]
<1> USE DEF SharesInv, TypeInv, TypeOK
<1>1. m \in Model OBVIOUS
<1>2. OthersUnchanged(r) /\ runPc[r] = "idle" /\ runPc'[r] = "start"
      /\ runModel'[r] = m /\ runTask'[r] = t /\ \A q \in Run : q # r => runTask'[q] = runTask[q]
  BY DEF Dispatch, OthersUnchanged
<1>3. held' = [held EXCEPT ![t] = held[t] + Take(m)]
  BY DEF Dispatch, Reserve, ReserveSingle, ReserveParallel, Take
<1>4. ASSUME NEW k \in Task PROVE held[k] + Share(k)'[r] <= held'[k] + Share(k)[r]
  <2>1. Share(k)[r] = 0 BY <1>2 DEF Share, Holding
  <2>2. Share(k)'[r] = IF k = t THEN Take(m) ELSE 0 BY <1>2 DEF Share, Holding, Take, Parallel
  <2>3. Take(m) \in Nat BY <1>1, ModelAssumption DEF Take
  <2>4. held[k] \in Nat BY DEF ResourcesTypeOK
  <2>5. held'[k] = IF k = t THEN held[k] + Take(m) ELSE held[k] BY <1>3 DEF ResourcesTypeOK
  <2> QED BY <2>1, <2>2, <2>3, <2>4, <2>5
<1> QED BY <1>2, <1>4, ShareStep

LEMMA RunShares ==
  ASSUME IsFiniteSet(Run), SharesInv, TypeInv', NEW r \in Run,
         RunBegin(r) \/ RunRequeue(r) \/ RunAborted(r) \/ RunFinish(r)
  PROVE  SharesHeld'
<1> USE DEF SharesInv, TypeInv, TypeOK
<1>1. held' = held
  BY DEF RunBegin, RunRequeue, RunAborted, RunFinish, StartModel, FinishModel, resourceVars
<1>2. /\ OthersUnchanged(r) /\ \A q \in Run : q # r => runTask'[q] = runTask[q]
      /\ runPc'[r] \in Holding => runPc[r] \in Holding /\ runTask'[r] = runTask[r] /\ runModel'[r] = runModel[r]
  BY DEF RunBegin, RunRequeue, RunAborted, RunFinish, RunStep, FreeRun, OthersUnchanged, Holding
<1>3. ASSUME NEW t \in Task PROVE held[t] + Share(t)'[r] <= held'[t] + Share(t)[r]
  <2>1. Share(t)'[r] = 0 \/ Share(t)'[r] = Share(t)[r] BY <1>2 DEF Share, Take, Parallel
  <2>2. Share(t)[r] \in Nat BY ShareNat
  <2>3. held[t] \in Nat BY DEF ResourcesTypeOK
  <2> QED BY <1>1, <2>1, <2>2, <2>3
<1> QED BY <1>2, <1>3, ShareStep

(* A release finds in its task's entry what it gives back. *)
LEMMA ReleaseTakes ==
  ASSUME IsFiniteSet(Run), SharesInv, NEW r \in Run, RunReleaseSingle(r) \/ RunReleaseParallel(r)
  PROVE  /\ runTask[r] \in Task /\ runModel[r] \in Model
         /\ Take(runModel[r]) \in Nat /\ Take(runModel[r]) <= held[runTask[r]]
         /\ held' = [held EXCEPT ![runTask[r]] = held[runTask[r]] - Take(runModel[r])]
<1> DEFINE t == runTask[r]
           m == runModel[r]
<1> USE DEF SharesInv, TypeInv, TypeOK
<1>1. runPc[r] \in Holding /\ t \in Task /\ m \in Model
  BY DEF RunReleaseSingle, RunReleaseParallel, RunStep, Holding, RunsBusy
<1>2. Take(m) <= held[t] BY <1>1, ShareCovered
<1>3. Take(m) \in Nat /\ held[t] \in Nat BY <1>1, ModelAssumption DEF Take, ResourcesTypeOK
<1>4. held' = [held EXCEPT ![t] = Less(held[t], Take(m))]
  BY DEF RunReleaseSingle, RunReleaseParallel, ReleaseSingle, ReleaseParallel, Take
<1>5. Less(held[t], Take(m)) = held[t] - Take(m) BY <1>2, <1>3 DEF Less
<1> QED BY <1>1, <1>2, <1>3, <1>4, <1>5

LEMMA ReleaseShares ==
  ASSUME IsFiniteSet(Run), SharesInv, TypeInv', NEW r \in Run,
         RunReleaseSingle(r) \/ RunReleaseParallel(r)
  PROVE  SharesHeld'
<1> DEFINE t == runTask[r]
           m == runModel[r]
<1> USE DEF SharesInv, TypeInv, TypeOK
<1>1. /\ t \in Task /\ m \in Model /\ Take(m) \in Nat /\ Take(m) <= held[t]
      /\ held' = [held EXCEPT ![t] = held[t] - Take(m)]
  BY ReleaseTakes
<1>2. /\ OthersUnchanged(r) /\ \A q \in Run : q # r => runTask'[q] = runTask[q]
      /\ runPc[r] \in Holding /\ runPc'[r] \notin Holding
  BY DEF RunReleaseSingle, RunReleaseParallel, RunStep, FreeRun, OthersUnchanged, Holding
<1>3. ASSUME NEW k \in Task PROVE held[k] + Share(k)'[r] <= held'[k] + Share(k)[r]
  <2>1. Share(k)'[r] = 0 BY <1>2 DEF Share
  <2>2. Share(k)[r] = IF k = t THEN Take(m) ELSE 0 BY <1>2 DEF Share
  <2>3. held[k] \in Nat BY DEF ResourcesTypeOK
  <2>4. held'[k] = IF k = t THEN held[k] - Take(m) ELSE held[k] BY <1>1 DEF ResourcesTypeOK
  <2> QED BY <1>1, <2>1, <2>2, <2>3, <2>4
<1> QED BY <1>2, <1>3, ShareStep

LEMMA SharesInit == ASSUME IsFiniteSet(Run) PROVE Init => SharesInv
<1> SUFFICES ASSUME Init PROVE SharesInv OBVIOUS
<1>1. TypeInv BY InitType
<1>2. ASSUME NEW t \in Task PROVE SumFunctionOnSet(Share(t), Run) <= held[t]
  <2>1. \A r \in Run : Share(t)[r] = 0 BY DEF Init, Share, Holding
  <2>2. SumFunctionOnSet(Share(t), Run) = 0 BY <2>1, SumZero
  <2> QED BY <2>2 DEF Init, ResourcesInit
<1> QED BY <1>1, <1>2 DEF SharesInv, SharesHeld

(* Whatever is reloaded, aborted or unloaded. *)
LEMMA SharesNext ==
  ASSUME IsFiniteSet(Run) PROVE SharesInv /\ [Next]_vars => SharesInv'
<1> SUFFICES ASSUME SharesInv, [Next]_vars PROVE SharesHeld'
  BY NextType DEF SharesInv
<1>1. TypeInv' BY NextType DEF SharesInv
<1>2. CASE SchedNext
  <2>1. ASSUME NEW r \in Run, NEW t \in Task, Dispatch(r, t) PROVE SharesHeld'
    BY <1>1, <2>1, DispatchShares
  <2>2. ASSUME NEW r \in Run, AdmitUnloaded(r) PROVE SharesHeld'
    <3>1. cur \in Task BY <2>2 DEF AdmitUnloaded, SharesInv, TypeInv, TypeOK
    <3> QED BY <2>1, <2>2, <3>1 DEF AdmitUnloaded
  <2>3. CASE DeferUnloaded \/ \E t \in Task : AskUnload(t)
    BY <2>3, ShareQuiet DEF SharesInv, DeferUnloaded, AskUnload, resourceVars
  <2> QED BY <1>2, <2>1, <2>2, <2>3 DEF SchedNext, Admit
<1>3. CASE UnloadNext
  BY <1>3, ShareQuiet DEF SharesInv, UnloadNext, UnloadOk, UnloadFailed, ClearSoft, resourceVars
<1>4. CASE RunNext BY <1>1, <1>4, RunShares, ReleaseShares DEF RunNext
<1>5. CASE PanelRelease BY <1>5, ShareQuiet DEF SharesInv, PanelRelease, resourceVars
<1>6. CASE Reload BY <1>6, ShareQuiet DEF SharesInv, Reload, DropMetric, AddMetric
<1>7. CASE \E m \in Model : SoftExpired(m)
  BY <1>7, ShareQuiet DEF SharesInv, SoftExpired, Expire
<1>8. CASE UNCHANGED vars BY <1>8, ShareQuiet DEF SharesInv, vars, resourceVars
<1> QED BY <1>2, <1>3, <1>4, <1>5, <1>6, <1>7, <1>8 DEF Next

-----------------------------------------------------------------------------
(* What is used and what idles. *)

MemoryInv == SharesInv /\ MemoryFits

LEMMA DispatchMemory ==
  ASSUME MemoryInv, TypeInv', NEW r \in Run, NEW t \in Task, Dispatch(r, t),
         Admissible(route[t]) \/ AdmissibleNow(route[t])
  PROVE  MemoryFits'
<1>1. route[t] \in Model BY DEF MemoryInv, SharesInv, TypeInv, TypeOK
<1> QED BY <1>1, ReserveFits DEF Dispatch, MemoryInv, TypeInv, TypeOK

LEMMA ReleaseMemory ==
  ASSUME IsFiniteSet(Run), MemoryInv, TypeInv', NEW r \in Run,
         RunReleaseSingle(r) \/ RunReleaseParallel(r)
  PROVE  MemoryFits'
<1> DEFINE t == runTask[r]
           m == runModel[r]
<1> USE DEF MemoryInv, TypeInv, TypeOK
<1>1. t \in Task /\ m \in Model /\ Take(m) <= held[t] BY ReleaseTakes
<1>2. CASE RunReleaseSingle(r)
  <2>1. ~Parallel(m) BY <1>2 DEF RunReleaseSingle
  <2>2. PICK retain \in {TRUE, m \notin Managed} : ReleaseSingle(t, m, retain)
    BY <1>2 DEF RunReleaseSingle
  <2>3. retain \in BOOLEAN OBVIOUS
  <2> QED BY <1>1, <2>1, <2>2, <2>3, ReleaseSingleFits DEF Take
<1>3. CASE RunReleaseParallel(r)
  <2>1. Parallel(m) BY <1>3 DEF RunReleaseParallel
  <2>2. PICK retain \in {TRUE, m \notin Managed} : ReleaseParallel(t, m, retain)
    BY <1>3 DEF RunReleaseParallel
  <2>3. retain \in BOOLEAN OBVIOUS
  <2> QED BY <1>1, <2>1, <2>2, <2>3, ReleaseParallelFits DEF Take
<1> QED BY <1>2, <1>3

LEMMA MemoryInit == ASSUME IsFiniteSet(Run) PROVE Init => MemoryInv
<1> SUFFICES ASSUME Init PROVE MemoryInv OBVIOUS
<1> USE ModelAssumption, FiniteAssumption DEF Init, ResourcesInit
<1>1. SharesInv BY SharesInit
<1>2. SumFunctionOnSet(held, Task) = 0
  <2>1. \A t \in Task : held[t] = 0 OBVIOUS
  <2> QED BY <2>1, SumZero
<1>3. SumFunctionOnSet(base, Model) = 0
  <2>1. \A m \in Model : base[m] = 0 OBVIOUS
  <2> QED BY <2>1, SumZero
<1>4. SumFunctionOnSet(Need, warm) = 0 BY SumEmpty
<1>5. MemoryFits
  BY <1>1, <1>2, <1>3, <1>4
  DEF SharesInv, MemoryFits, TypeInv, TypeOK, BaseWhole, UsedIsReserved, MemoryNotOvercommitted,
      Reserved, SoftUsed
<1> QED BY <1>1, <1>5 DEF MemoryInv

LEMMA MemoryNext ==
  ASSUME IsFiniteSet(Run), MaxReloads = 0
  PROVE  MemoryInv /\ [Next]_vars => MemoryInv'
<1> SUFFICES ASSUME MemoryInv, [Next]_vars PROVE MemoryFits'
  BY SharesNext DEF MemoryInv
<1>1. TypeInv' BY NextType DEF MemoryInv, SharesInv
<1> USE DEF MemoryInv, SharesInv, TypeInv, TypeOK
<1>2. CASE SchedNext
  <2>1. ASSUME NEW r \in Run, NEW t \in Task, Admit(r, t) PROVE MemoryFits'
    BY <1>1, <2>1, DispatchMemory DEF Admit
  <2>2. ASSUME NEW r \in Run, AdmitUnloaded(r) PROVE MemoryFits'
    <3>1. cur \in Task BY <2>2 DEF AdmitUnloaded
    <3> QED BY <1>1, <2>2, <3>1, DispatchMemory DEF AdmitUnloaded
  <2>3. CASE DeferUnloaded \/ \E t \in Task : AskUnload(t)
    BY <1>1, <2>3, WarmGoesFits DEF DeferUnloaded, AskUnload, resourceVars
  <2> QED BY <1>2, <2>1, <2>2, <2>3 DEF SchedNext
<1>3. CASE UnloadNext
  BY <1>1, <1>3, WarmGoesFits DEF UnloadNext, UnloadOk, UnloadFailed, ClearSoft, resourceVars
<1>4. CASE RunNext
  <2>1. ASSUME NEW r \in Run, RunBegin(r) \/ RunRequeue(r) \/ RunAborted(r) \/ RunFinish(r)
        PROVE  MemoryFits'
    BY <1>1, <2>1, WarmGoesFits
    DEF RunBegin, RunRequeue, RunAborted, RunFinish, StartModel, FinishModel, resourceVars
  <2> QED BY <1>1, <1>4, <2>1, ReleaseMemory DEF RunNext
<1>5. CASE PanelRelease BY <1>1, <1>5, WarmGoesFits DEF PanelRelease, resourceVars
<1>6. ~Reload BY DEF Reload
<1>7. CASE \E m \in Model : SoftExpired(m)
  BY <1>1, <1>7, WarmGoesFits DEF SoftExpired, Expire
<1>8. CASE UNCHANGED vars BY <1>1, <1>8, WarmGoesFits DEF vars, resourceVars
<1> QED BY <1>2, <1>3, <1>4, <1>5, <1>6, <1>7, <1>8 DEF Next

LEMMA MemoryInvariance ==
  ASSUME IsFiniteSet(Run), MaxReloads = 0 PROVE Spec => []MemoryInv
<1>1. MemoryInv /\ [Next]_vars => MemoryInv' BY MemoryNext
<1>2. Init => MemoryInv BY MemoryInit
<1> QED BY <1>1, <1>2, PTL DEF Spec

(* For any models, sizes and routes: what tasks hold and what idle models occupy
   fits into the memory together, however runs of a task overlap, change their
   model, are aborted or wait for unloads, as long as no reload changes the
   limits (resource.py:347-399, resources.py:799-828). *)
THEOREM MemoryFitsTogether ==
  ASSUME IsFiniteSet(Run), MaxReloads = 0 PROVE Spec => []MemoryNotOvercommitted
<1>1. MemoryInv => MemoryNotOvercommitted BY DEF MemoryInv, MemoryFits
<1> QED BY <1>1, MemoryInvariance, PTL

(* The used amount, kept by additions and subtractions cut off at zero, is the
   sum of the reservations (resource.py:542-656). *)
THEOREM UsedIsExact ==
  ASSUME IsFiniteSet(Run), MaxReloads = 0 PROVE Spec => []UsedIsReserved
<1>1. MemoryInv => UsedIsReserved BY DEF MemoryInv, MemoryFits
<1> QED BY <1>1, MemoryInvariance, PTL

-----------------------------------------------------------------------------
(* Unloads spare what is in use.  A reservation of any kind stops an unload from
   starting; while the scheduler waits for one it admits nobody.            *)

(* The runs of a parallel model that will give a session back are counted, and
   the base stays with them. *)
BaseKept ==
  \A m \in Model : Parallel(m) =>
    LET n == Cardinality(RunsIn(m, Holding)) IN
    n <= active[m] /\ (n > 0 => base[m] > 0)

(* The scheduler unloads inside a pass only, and nobody holds anything then. *)
UnloadsAlone ==
  /\ cur = NoTask => victim["scheduler"] = NoModel
  /\ cur # NoTask => \A r \in Run : runPc[r] \notin Holding
  /\ victim["panel"] = NoModel

BusyInv == SharesInv /\ FinishIsSingle /\ BaseKept /\ UnloadsAlone

LEMMA QuietBase ==
  ASSUME BaseKept, UNCHANGED <<runVars, base, active>>
  PROVE  BaseKept'
  BY DEF BaseKept, RunsIn, runVars, Parallel

LEMMA DispatchBase ==
  ASSUME IsFiniteSet(Run), BusyInv, NEW r \in Run, NEW t \in Task, Dispatch(r, t),
         NEW k \in Model, k = route[t]
  PROVE  BaseKept'
<1> DEFINE N(m) == Cardinality(RunsIn(m, Holding))
<1> USE ModelAssumption DEF BusyInv, SharesInv, TypeInv, TypeOK, ResourcesTypeOK
<1>1. k \in Model /\ runPc[r] = "idle" /\ Reserve(t, k) BY DEF Dispatch
<1>2. runPc'[r] = "start" /\ runModel'[r] = k /\ OthersUnchanged(r)
  BY DEF Dispatch, OthersUnchanged
<1>3. ASSUME NEW m \in Model, m # k, Parallel(m)
      PROVE  N(m)' = N(m) /\ base'[m] = base[m] /\ active'[m] = active[m]
  <2>1. r \notin RunsIn(m, Holding) /\ r \notin RunsIn(m, Holding)'
    BY <1>1, <1>2, <1>3 DEF RunsIn, Holding
  <2>2. N(m)' = N(m) BY <1>2, <2>1, RunsInStep
  <2> QED BY <1>1, <1>3, <2>2 DEF Reserve, ReserveParallel, ReserveSingle
<1>4. ASSUME Parallel(k)
      PROVE  /\ N(k) \in Nat /\ N(k)' = N(k) + 1
             /\ active'[k] = active[k] + 1 /\ base'[k] > 0
  <2>1. r \notin RunsIn(k, Holding) /\ r \in RunsIn(k, Holding)'
    BY <1>1, <1>2 DEF RunsIn, Holding
  <2>2. N(k) \in Nat /\ N(k)' = N(k) + 1 BY <1>2, <2>1, RunsInStep
  <2>3. ReserveParallel(t, k) BY <1>1, <1>4 DEF Reserve
  <2> QED BY <1>1, <1>4, <2>2, <2>3 DEF ReserveParallel
<1> SUFFICES ASSUME NEW m \in Model, Parallel(m)
             PROVE  N(m)' <= active'[m] /\ (N(m)' > 0 => base'[m] > 0)
  BY DEF BaseKept, Parallel
<1>5. N(m) <= active[m] /\ (N(m) > 0 => base[m] > 0) BY DEF BaseKept
<1>6. CASE m # k BY <1>3, <1>5, <1>6
<1>7. CASE m = k BY <1>1, <1>4, <1>5, <1>7
<1> QED BY <1>6, <1>7

(* A run stays, or leaves without giving anything back. *)
LEMMA RunBase ==
  ASSUME IsFiniteSet(Run), BusyInv, NEW r \in Run,
         RunBegin(r) \/ RunRequeue(r) \/ RunAborted(r) \/ RunFinish(r) \/ RunReleaseSingle(r)
  PROVE  BaseKept' /\ FinishIsSingle'
<1> USE ModelAssumption
    DEF BusyInv, SharesInv, TypeInv, TypeOK, ResourcesTypeOK, RunsBusy, FinishIsSingle
<1>1. OthersUnchanged(r)
  BY DEF RunBegin, RunRequeue, RunAborted, RunFinish, RunReleaseSingle, RunStep, FreeRun,
         OthersUnchanged
<1>2. base' = base
  BY DEF RunBegin, RunRequeue, RunAborted, RunFinish, RunReleaseSingle, StartModel, FinishModel,
         ReleaseSingle, resourceVars
<1>3. \A m \in Model : Parallel(m) => active'[m] = active[m]
  BY DEF RunBegin, RunRequeue, RunAborted, RunFinish, RunReleaseSingle, RunStep, StartModel,
         FinishModel, ReleaseSingle, resourceVars
<1>4. runPc'[r] \in Holding => runPc[r] \in Holding /\ runModel'[r] = runModel[r]
  BY DEF RunBegin, RunRequeue, RunAborted, RunFinish, RunReleaseSingle, RunStep, FreeRun, Holding
<1>5. FinishIsSingle'
  BY <1>1 DEF RunBegin, RunRequeue, RunAborted, RunFinish, RunReleaseSingle, RunStep, FreeRun,
              OthersUnchanged, Parallel
<1>6. BaseKept'
  <2> DEFINE N(m) == Cardinality(RunsIn(m, Holding))
  <2> SUFFICES ASSUME NEW m \in Model, Parallel(m)
               PROVE  N(m)' <= active'[m] /\ (N(m)' > 0 => base'[m] > 0)
    BY DEF BaseKept, Parallel
  <2>1. N(m) <= active[m] /\ (N(m) > 0 => base[m] > 0) BY DEF BaseKept
  <2>2. r \in RunsIn(m, Holding)' => r \in RunsIn(m, Holding) BY <1>4 DEF RunsIn
  <2>3. N(m) \in Nat /\ N(m)' \in Nat /\ N(m)' <= N(m)
    <3>1. N(m) \in Nat /\ N(m)' \in Nat BY <1>1, RunsInStep
    <3>2. CASE r \in RunsIn(m, Holding) /\ r \notin RunsIn(m, Holding)'
      <4>1. N(m)' = N(m) - 1 BY <1>1, <3>2, RunsInStep
      <4> QED BY <3>1, <4>1
    <3>3. CASE r \in RunsIn(m, Holding) <=> r \in RunsIn(m, Holding)'
      <4>1. N(m)' = N(m) BY <1>1, <3>3, RunsInStep
      <4> QED BY <3>1, <4>1
    <3> QED BY <2>2, <3>2, <3>3
  <2>4. active'[m] = active[m] /\ active[m] \in Nat BY <1>3
  <2> HIDE DEF N
  <2> QED BY <1>2, <2>1, <2>3, <2>4
<1> QED BY <1>5, <1>6

LEMMA ReleaseBase ==
  ASSUME IsFiniteSet(Run), BusyInv, NEW r \in Run, RunReleaseParallel(r),
         NEW k \in Model, k = runModel[r]
  PROVE  BaseKept' /\ FinishIsSingle'
<1> DEFINE N(m) == Cardinality(RunsIn(m, Holding))
<1> USE ModelAssumption DEF BusyInv, SharesInv, TypeInv, TypeOK, ResourcesTypeOK, RunsBusy
<1>1. Parallel(k) /\ k \in Model /\ runPc[r] \in Holding
      /\ (\E retain \in {TRUE, k \notin Managed} : ReleaseParallel(runTask[r], k, retain))
  BY DEF RunReleaseParallel, Holding
<1>2. runPc'[r] = "idle" /\ OthersUnchanged(r)
  BY DEF RunReleaseParallel, FreeRun, OthersUnchanged
<1>3. FinishIsSingle' BY <1>2 DEF OthersUnchanged, FinishIsSingle, Parallel
<1>4. ASSUME NEW m \in Model, m # k, Parallel(m)
      PROVE  N(m)' = N(m) /\ base'[m] = base[m] /\ active'[m] = active[m]
  <2>1. r \notin RunsIn(m, Holding) /\ r \notin RunsIn(m, Holding)'
    BY <1>2, <1>4 DEF RunsIn, Holding
  <2>2. N(m)' = N(m) BY <1>2, <2>1, RunsInStep
  <2> QED BY <1>1, <1>4, <2>2 DEF ReleaseParallel
<1>5. N(k) \in Nat /\ N(k) > 0 /\ N(k)' = N(k) - 1
  <2>1. r \in RunsIn(k, Holding) /\ r \notin RunsIn(k, Holding)'
    BY <1>1, <1>2 DEF RunsIn, Holding
  <2> QED BY <1>2, <2>1, RunsInStep
<1>6. N(k) <= active[k] /\ base[k] > 0 BY <1>1, <1>5 DEF BaseKept
<1>7. active[k] \in Nat /\ active'[k] = active[k] - 1
  BY <1>1, <1>5, <1>6 DEF ReleaseParallel, Less
<1>8. active[k] > 1 => base'[k] = base[k]
  BY <1>1, <1>6, <1>7 DEF ReleaseParallel, Less
<1> SUFFICES ASSUME NEW m \in Model, Parallel(m)
             PROVE  N(m)' <= active'[m] /\ (N(m)' > 0 => base'[m] > 0)
  BY <1>3 DEF BaseKept, Parallel
<1>9. CASE m # k BY <1>4, <1>9 DEF BaseKept
<1>10. CASE m = k
  <2> HIDE DEF N
  <2>1. N(k)' <= active'[k] BY <1>5, <1>6, <1>7
  <2>2. N(k)' > 0 => base'[k] > 0 BY <1>5, <1>6, <1>7, <1>8
  <2> QED BY <1>10, <2>1, <2>2
<1> QED BY <1>9, <1>10

(* Nobody holds a reservation, so no run does. *)
LEMMA NobodyHolds ==
  ASSUME IsFiniteSet(Run), BusyInv, ~HasConsumers
  PROVE  \A r \in Run : runPc[r] \notin Holding
<1> SUFFICES ASSUME NEW r \in Run, runPc[r] \in Holding PROVE FALSE OBVIOUS
<1> DEFINE m == runModel[r]
           t == runTask[r]
<1> USE ModelAssumption DEF BusyInv, SharesInv, TypeInv, TypeOK, ResourcesTypeOK, RunsBusy
<1>1. m \in Model /\ t \in Task BY DEF Holding
<1>2. ~(held[t] > 0) /\ ~(base[m] > 0) BY <1>1 DEF HasConsumers
<1>3. CASE Parallel(m)
  <2>1. r \in RunsIn(m, Holding) BY DEF RunsIn
  <2>2. RunsIn(m, Holding) \subseteq Run BY DEF RunsIn
  <2>3. IsFiniteSet(RunsIn(m, Holding)) BY <2>2, FS_Subset
  <2>4. Cardinality(RunsIn(m, Holding)) \in Nat BY <2>3, FS_CardinalityType
  <2>5. Cardinality(RunsIn(m, Holding)) # 0 BY <2>1, <2>3, FS_EmptySet
  <2> QED BY <1>1, <1>2, <1>3, <2>4, <2>5 DEF BaseKept
<1>4. CASE ~Parallel(m)
  <2>1. Need[m] <= held[t] BY <1>4, ShareCovered DEF Take
  <2> QED BY <1>1, <1>2, <2>1
<1> QED BY <1>3, <1>4

LEMMA BusyInit == ASSUME IsFiniteSet(Run) PROVE Init => BusyInv
<1> SUFFICES ASSUME Init PROVE BusyInv OBVIOUS
<1>1. SharesInv BY SharesInit
<1>2. \A m \in Model : RunsIn(m, Holding) = {}
  BY ModelAssumption DEF Init, RunsIn
<1>3. \A m \in Model : Cardinality(RunsIn(m, Holding)) = 0 BY <1>2, FS_EmptySet
<1> QED BY <1>1, <1>3
  DEF Init, ResourcesInit, BusyInv, FinishIsSingle, BaseKept, UnloadsAlone, Unloader, Holding

LEMMA BusyNext ==
  ASSUME IsFiniteSet(Run), MaxPanel = 0
  PROVE  BusyInv /\ [Next]_vars => BusyInv'
<1> SUFFICES ASSUME BusyInv, [Next]_vars PROVE FinishIsSingle' /\ BaseKept' /\ UnloadsAlone'
  BY SharesNext DEF BusyInv
<1> USE DEF BusyInv, UnloadsAlone
<1>1. TypeInv BY DEF SharesInv
<1>2. CASE SchedNext
  <2>1. ASSUME NEW r \in Run, NEW t \in Task, Admit(r, t)
        PROVE  FinishIsSingle' /\ BaseKept' /\ UnloadsAlone'
    <3>1. route[t] \in Model /\ BaseKept'
      BY <1>1, <2>1, DispatchBase DEF Admit, TypeInv, TypeOK
    <3>2. FinishIsSingle'
      BY <1>1, <2>1 DEF Admit, Dispatch, FinishIsSingle, Parallel, TypeInv, TypeOK
    <3>3. UnloadsAlone' BY <2>1 DEF Admit, Dispatch, unloadVars
    <3> QED BY <3>1, <3>2, <3>3
  <2>2. ASSUME NEW t \in Task, AskUnload(t)
        PROVE  FinishIsSingle' /\ BaseKept' /\ UnloadsAlone'
    <3>1. FinishIsSingle' /\ BaseKept'
      BY <2>2, QuietBase DEF AskUnload, resourceVars, FinishIsSingle, runVars, Parallel
    <3>2. \A r \in Run : runPc'[r] \notin Holding
      BY <2>2, NobodyHolds DEF AskUnload, runVars
    <3>3. victim'["panel"] = NoModel BY <1>1, <2>2 DEF AskUnload, Proceed, TypeInv, TypeOK, Unloader
    <3>4. cur' # NoTask BY <2>2, AdmissionAssumption DEF AskUnload
    <3> QED BY <3>1, <3>2, <3>3, <3>4
  <2>3. ASSUME NEW r \in Run, AdmitUnloaded(r)
        PROVE  FinishIsSingle' /\ BaseKept' /\ UnloadsAlone'
    <3>1. cur \in Task /\ route[cur] \in Model
      BY <1>1, <2>3 DEF AdmitUnloaded, TypeInv, TypeOK
    <3>2. BaseKept' BY <2>3, <3>1, DispatchBase DEF AdmitUnloaded
    <3>3. FinishIsSingle'
      BY <1>1, <2>3 DEF AdmitUnloaded, Dispatch, FinishIsSingle, Parallel, TypeInv, TypeOK
    <3>4. UnloadsAlone' BY <2>3 DEF AdmitUnloaded, Dispatch, unloadVars, Unloaded
    <3> QED BY <3>2, <3>3, <3>4
  <2>4. CASE DeferUnloaded
    BY <2>4, QuietBase DEF DeferUnloaded, resourceVars, FinishIsSingle, runVars, Parallel,
                           unloadVars, Unloaded
  <2> QED BY <1>2, <2>1, <2>2, <2>3, <2>4 DEF SchedNext
<1>3. CASE UnloadNext
  <2>1. PICK u \in Unloader : UnloadOk(u) \/ UnloadFailed(u) BY <1>3 DEF UnloadNext
  <2>2. u = "scheduler" /\ cur # NoTask BY <2>1 DEF UnloadOk, UnloadFailed, Unloader
  <2>3. UNCHANGED <<runVars, base, active, cur>>
    BY <2>1 DEF UnloadOk, UnloadFailed, ClearSoft, resourceVars
  <2>4. victim'["panel"] = NoModel
    BY <1>1, <2>1, <2>2 DEF UnloadOk, UnloadFailed, Proceed, TypeInv, TypeOK, Unloader
  <2> QED BY <2>2, <2>3, <2>4, QuietBase DEF FinishIsSingle, runVars, Parallel
<1>4. CASE RunNext
  <2>1. PICK r \in Run : \/ RunBegin(r) \/ RunRequeue(r) \/ RunReleaseSingle(r) \/ RunFinish(r)
                         \/ RunReleaseParallel(r) \/ RunAborted(r)
    BY <1>4 DEF RunNext
  <2>2. FinishIsSingle' /\ BaseKept'
    <3>1. CASE RunReleaseParallel(r)
      <4>1. runModel[r] \in Model BY <1>1, <3>1 DEF RunReleaseParallel, TypeInv, RunsBusy
      <4> QED BY <3>1, <4>1, ReleaseBase
    <3> QED BY <2>1, <3>1, RunBase
  <2>3. UNCHANGED <<cur, unloadVars>>
    BY <2>1 DEF RunBegin, RunRequeue, RunReleaseSingle, RunFinish, RunReleaseParallel, RunAborted,
                RunStep
  <2>4. \A q \in Run : runPc'[q] \in Holding => runPc[q] \in Holding
    BY <1>1, <2>1
    DEF RunBegin, RunRequeue, RunReleaseSingle, RunFinish, RunReleaseParallel, RunAborted,
        RunStep, FreeRun, Holding, TypeInv, TypeOK
  <2> QED BY <2>2, <2>3, <2>4 DEF unloadVars
<1>5. ~PanelRelease BY <1>1 DEF PanelRelease, TypeInv, TypeOK
<1>6. CASE Reload
  BY <1>6, QuietBase DEF Reload, DropMetric, AddMetric, FinishIsSingle, runVars, unloadVars, Parallel
<1>7. CASE \E m \in Model : SoftExpired(m)
  BY <1>7, QuietBase DEF SoftExpired, Expire, FinishIsSingle, runVars, unloadVars, Parallel
<1>8. CASE UNCHANGED vars
  BY <1>8, QuietBase DEF vars, resourceVars, FinishIsSingle, runVars, unloadVars, Parallel
<1> QED BY <1>2, <1>3, <1>4, <1>5, <1>6, <1>7, <1>8 DEF Next

(* No provider is asked to unload a model that a run has reserved, whatever else
   starts or ends while the scheduler waits for earlier unloads; an operator's
   release, which the scheduler does not wait for, is left out
   (resources.py:609-622). *)
THEOREM BusyIsSpared ==
  ASSUME IsFiniteSet(Run), MaxPanel = 0 PROVE Spec => NeverStopBusy
<1>1. ASSUME BusyInv, [Next]_vars, NEW u \in Unloader, NEW m \in Model,
             victim[u] # m, victim'[u] = m
      PROVE  RunsIn(m, {"start", "exec", "requeued"}) = {}
  <2> USE DEF BusyInv, UnloadsAlone
  <2>1. \A r \in Run : runPc[r] \notin Holding
    <3>1. victim' # victim BY <1>1
    <3>2. ~PanelRelease BY <1>1 DEF PanelRelease, SharesInv, TypeInv, TypeOK
    <3>3. (\E t \in Task : AskUnload(t)) \/ UnloadNext
      BY <1>1, <3>1, <3>2
      DEF Next, SchedNext, RunNext, Admit, AdmitUnloaded, Dispatch, DeferUnloaded, RunBegin,
          RunRequeue, RunReleaseSingle, RunFinish, RunReleaseParallel, RunAborted, RunStep,
          Reload, SoftExpired, vars, unloadVars
    <3>4. CASE \E t \in Task : AskUnload(t) BY <1>1, <3>4, NobodyHolds DEF AskUnload
    <3>5. CASE UnloadNext
      BY <1>1, <3>5 DEF UnloadNext, UnloadOk, UnloadFailed, Unloader
    <3> QED BY <3>3, <3>4, <3>5
  <2> QED BY <2>1 DEF RunsIn, Holding
<1>2. BusyInv /\ [Next]_vars =>
        [\A u \in Unloader : \A m \in Model :
           victim[u] # m /\ victim'[u] = m
             => RunsIn(m, {"start", "exec", "requeued"}) = {}]_vars
  BY <1>1
<1>3. BusyInv /\ [Next]_vars => BusyInv' BY BusyNext
<1>4. Init => BusyInv BY BusyInit
<1> QED BY <1>2, <1>3, <1>4, PTL DEF Spec, NeverStopBusy

==============================================================================
