----------------------------- MODULE Resources -----------------------------
(***************************************************************************)
(* Capacity accounting of core/resources.py and core/resource.py for one   *)
(* estimated resource with one metric (a GPU's VRAM): hard reservations by *)
(* consumer, warm models, the admission slot of a single-request model,    *)
(* base and session reservations of a parallel one, and the reload.        *)
(*                                                                         *)
(* The asyncio locks of these methods are never held across a suspension,  *)
(* so a check followed by its reservation is one step; an unload is not.   *)
(* A consumer id is "task:worker"; with one worker it is the task.         *)
(***************************************************************************)
EXTENDS Integers, FiniteSetsExt

CONSTANTS
  Task,
  Model,
  NoModel,        \* "no model" for slotOf and the victims of an unload
  Capacity,       \* limits[metric]
  Need,           \* resources of a model: its footprint in memory
  Session,        \* sessionResources of a model
  MaxConcurrent,  \* maxConcurrentRequests of a model
  Managed         \* models of llama-cpp providers, which never expire

ASSUME ModelAssumption ==
  /\ NoModel \notin Model
  /\ Capacity \in Nat
  /\ Need \in [Model -> Nat \ {0}]
  /\ Session \in [Model -> Nat]
  /\ MaxConcurrent \in [Model -> Nat \ {0}]
  /\ Managed \subseteq Model

(* The models come from a configuration file, and a process has seen finitely
   many tasks. *)
ASSUME FiniteAssumption == IsFiniteSet(Task) /\ IsFiniteSet(Model)

VARIABLES
  metric,   \* whether the configuration gives the metric a limit
  used,     \* Resource.used
  held,     \* consumers: what each task holds
  base,     \* consumers: the base reservation of each parallel model
  warm,     \* models with an active soft entry, each of size Need
  slots,    \* _model_slots
  slotOf,   \* _model_slot_consumers
  active    \* _model_active

resourceVars == <<metric, used, held, base, warm, slots, slotOf, active>>

ResourcesTypeOK ==
  /\ metric \in BOOLEAN
  /\ used \in Nat
  /\ held \in [Task -> Nat]
  /\ base \in [Model -> Nat]
  /\ warm \subseteq Model
  /\ slots \in [Model -> Nat]
  /\ slotOf \in [Task -> Model \cup {NoModel}]
  /\ active \in [Model -> Nat]

ResourcesInit ==
  /\ metric = TRUE
  /\ used = 0
  /\ held = [t \in Task |-> 0]
  /\ base = [m \in Model |-> 0]
  /\ warm = {}
  /\ slots = [m \in Model |-> 0]
  /\ slotOf = [t \in Task |-> NoModel]
  /\ active = [m \in Model |-> 0]

Parallel(m) == MaxConcurrent[m] > 1

(* max(0, a - b) *)
Less(a, b) == IF a > b THEN a - b ELSE 0

-----------------------------------------------------------------------------
(* Checks. *)

Limit == IF metric THEN Capacity ELSE 0

(* What idle models still occupy. *)
SoftUsed == SumFunctionOnSet(Need, warm)

HasConsumers == (\E t \in Task : held[t] > 0) \/ (\E m \in Model : base[m] > 0)

(* Mutant of Fits: idle models are forgotten. *)
FitsIdleForgotten(n) == n > 0 => used + n <= Limit

Fits(n) == n > 0 => used + SoftUsed + n <= Limit

FitsAfterUnload(n) == n > 0 => used + n <= Limit

(* The footprint of a warm model is not counted twice. *)
FitsForReuse(m) ==
  m \in warm /\ used + Less(SoftUsed, Need[m]) + Need[m] <= Limit

Loaded(m) == base[m] > 0 \/ m \in warm

(* What one more request of a parallel model takes. *)
StartNeed(m) == IF Loaded(m) THEN Session[m] ELSE Need[m] + Session[m]

(* available_after_unloading_others *)
FitsWithoutOthers(m) ==
  LET own == IF m \in warm THEN Need[m] ELSE 0 IN
  Session[m] > 0 => used + Less(SoftUsed, own) + Session[m] <= Limit

(* Mutant of SlotFree: running requests are forgotten. *)
SlotFreeAdmissions(m) == slots[m] < MaxConcurrent[m]

SlotFree(m) == slots[m] + active[m] < MaxConcurrent[m]

SingleAdmissible(m) == SlotFree(m) /\ (Fits(Need[m]) \/ FitsForReuse(m))

SingleNeedsUnload(m) ==
  ~Fits(Need[m]) /\ ~FitsForReuse(m) /\ FitsAfterUnload(Need[m])

(* Mutant of ParallelAdmissible: memory is the only limit. *)
ParallelAdmissibleMemory(m) == Fits(StartNeed(m))

ParallelAdmissible(m) == active[m] < MaxConcurrent[m] /\ Fits(StartNeed(m))

ParallelNeedsUnload(m) ==
  /\ active[m] < MaxConcurrent[m]
  /\ ~Fits(StartNeed(m))
  /\ IF Loaded(m) THEN FitsWithoutOthers(m) ELSE FitsAfterUnload(StartNeed(m))

-----------------------------------------------------------------------------
(* Reservations. *)

(* reserve_if_available_or_reuse: the slot, and the warm entry becomes a hard
   reservation. *)
ReserveSingle(t, m) ==
  /\ slots' = [slots EXCEPT ![m] = @ + 1]
  /\ slotOf' = [slotOf EXCEPT ![t] = m]
  /\ used' = used + Need[m]
  /\ held' = [held EXCEPT ![t] = @ + Need[m]]
  /\ warm' = warm \ {m}
  /\ UNCHANGED <<metric, base, active>>

(* reserve_model_start: the base once, a session for every request. *)
ReserveParallel(t, m) ==
  LET first == IF base[m] > 0 THEN 0 ELSE Need[m] IN
  /\ base' = [base EXCEPT ![m] = @ + first]
  /\ used' = used + first + Session[m]
  /\ held' = [held EXCEPT ![t] = @ + Session[m]]
  /\ warm' = IF first > 0 THEN warm \ {m} ELSE warm
  /\ active' = [active EXCEPT ![m] = @ + 1]
  /\ UNCHANGED <<metric, slots, slotOf>>

Reserve(t, m) == IF Parallel(m) THEN ReserveParallel(t, m) ELSE ReserveSingle(t, m)

StartModel(m) ==
  /\ active' = [active EXCEPT ![m] = @ + 1]
  /\ UNCHANGED <<metric, used, held, base, warm, slots, slotOf>>

FinishModel(m) ==
  /\ active' = [active EXCEPT ![m] = Less(@, 1)]
  /\ UNCHANGED <<metric, used, held, base, warm, slots, slotOf>>

(* Mutant of ReleaseSingle: the used amount is not kept above zero. *)
ReleaseSingleBelowZero(t, m, retain) ==
  /\ slotOf' = [slotOf EXCEPT ![t] = NoModel]
  /\ slots' = [k \in Model |->
                 IF k = slotOf[t] THEN Less(slots[k], 1) ELSE slots[k]]
  /\ used' = used - Need[m]
  /\ held' = [held EXCEPT ![t] = Less(@, Need[m])]
  /\ warm' = IF retain THEN warm \cup {m} ELSE warm
  /\ UNCHANGED <<metric, base, active>>

(* release_for up to its first await: whatever slot the consumer id has now,
   then the memory; a model that is retained becomes warm. *)
ReleaseSingle(t, m, retain) ==
  /\ slotOf' = [slotOf EXCEPT ![t] = NoModel]
  /\ slots' = [k \in Model |->
                 IF k = slotOf[t] THEN Less(slots[k], 1) ELSE slots[k]]
  /\ used' = Less(used, Need[m])
  /\ held' = [held EXCEPT ![t] = Less(@, Need[m])]
  /\ warm' = IF retain THEN warm \cup {m} ELSE warm
  /\ UNCHANGED <<metric, base, active>>

(* Mutant of ReleaseParallel: the base leaves the consumers and stays used. *)
ReleaseParallelBaseUsed(t, m, retain) ==
  LET last == Less(active[m], 1) = 0 /\ base[m] > 0
      back == IF last THEN Need[m] ELSE 0
  IN
  /\ active' = [active EXCEPT ![m] = Less(@, 1)]
  /\ held' = [held EXCEPT ![t] = Less(@, Session[m])]
  /\ used' = Less(used, Session[m])
  /\ base' = [base EXCEPT ![m] = Less(@, back)]
  /\ warm' = IF last /\ retain THEN warm \cup {m} ELSE warm
  /\ UNCHANGED <<metric, slots, slotOf>>

(* release_model_session: the last session gives the base back. *)
ReleaseParallel(t, m, retain) ==
  LET last == Less(active[m], 1) = 0 /\ base[m] > 0
      back == IF last THEN Need[m] ELSE 0
  IN
  /\ active' = [active EXCEPT ![m] = Less(@, 1)]
  /\ held' = [held EXCEPT ![t] = Less(@, Session[m])]
  /\ used' = Less(Less(used, Session[m]), back)
  /\ base' = [base EXCEPT ![m] = Less(@, back)]
  /\ warm' = IF last /\ retain THEN warm \cup {m} ELSE warm
  /\ UNCHANGED <<metric, slots, slotOf>>

-----------------------------------------------------------------------------
(* Warm models go away. *)

(* The retention window of a model that is not managed is over. *)
Expire(m) ==
  /\ m \in warm \ Managed
  /\ warm' = warm \ {m}
  /\ UNCHANGED <<metric, used, held, base, slots, slotOf, active>>

ClearSoft(m) ==
  /\ warm' = warm \ {m}
  /\ UNCHANGED <<metric, used, held, base, slots, slotOf, active>>

(* apply_config without the metric, and with it: only the metrics that the new
   limits name keep their used amount. *)
DropMetric ==
  /\ metric
  /\ metric' = FALSE
  /\ used' = 0
  /\ UNCHANGED <<held, base, warm, slots, slotOf, active>>

AddMetric ==
  /\ ~metric
  /\ metric' = TRUE
  /\ UNCHANGED <<used, held, base, warm, slots, slotOf, active>>
=============================================================================
