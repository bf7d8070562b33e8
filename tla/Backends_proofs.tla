--------------------------- MODULE Backends_proofs ---------------------------
(***************************************************************************)
(* For any consumers, probes, sensors, candidates and records: what the    *)
(* measured resource admits follows its last probe, the reactions of an    *)
(* alert are paced, the router lets a request wait only for what could not *)
(* start anywhere, remembers where it sent the conversation, and gives up  *)
(* on a model only when the samples of its readiness say so.               *)
(***************************************************************************)
EXTENDS SmartRouter, ResourceMonitor, ModelReadiness, FoldTheorems, SequenceTheorems,
        FiniteSetTheorems, TLAPS

-----------------------------------------------------------------------------
(* The measured resource. *)

Amounts == [c \in Consumers |-> reserved[c].amount]

(* Who reserved after the latest observation. *)
Since == {c \in Consumers : reserved[c].after = generation}

(* A failed probe leaves its mark on the observation. *)
FailureShows == lastProbe = "failed" => availability.status = "error" /\ availability.source = source

(* Nobody reserves after an observation that is still to come. *)
AfterBound == \A c \in Consumers : reserved[c].after <= generation

(* An alert that follows a recovery finds no earlier reaction. *)
RecoveryForgets == recovered => lastReaction = Never

MonitorInv ==
  MonitorTypeOK /\ AfterBound /\ AdmittedFitsObservation /\ FailureShows /\ RecoveryForgets

ObservedTypes ==
  /\ source \in {"command", "peer"}
  /\ availability \in [source : {"estimated", "command", "peer"}, status : {"ok", "error"},
                       free : 0 .. Capacity]
  /\ generation \in 0 .. MaxProbes
  /\ reserved \in [Consumers -> [amount : 0 .. Capacity, after : 0 .. MaxProbes]]
  /\ probing \in [Probers -> BOOLEAN]
  /\ capability \in {"unknown", "peer", "not_peer"}
  /\ lastProbe \in {"none", "ok", "failed", "not_peer"}

SensorTypes ==
  /\ now \in 0 .. MaxReadings /\ lastReaction \in Never .. MaxReadings
  /\ recovered \in BOOLEAN /\ released \in BOOLEAN

LEMMA TypesSplit == MonitorTypeOK <=> ObservedTypes /\ SensorTypes
  BY DEF MonitorTypeOK, ObservedTypes, SensorTypes

LEMMA MonitorInitial == MonitorInit => MonitorInv
<1> SUFFICES ASSUME MonitorInit PROVE MonitorInv OBVIOUS
<1> USE ResourceMonitorAssumption DEF MonitorInit
<1>1. ObservedTypes BY DEF ObservedTypes, Estimated
<1>2. SensorTypes
  <2>1. recovered \in BOOLEAN /\ released \in BOOLEAN OBVIOUS
  <2>2. now \in 0 .. MaxReadings /\ lastReaction \in Never .. MaxReadings BY DEF Never
  <2> QED BY <2>1, <2>2 DEF SensorTypes
<1>3. AfterBound /\ FailureShows /\ RecoveryForgets /\ ~Measured
  BY DEF AfterBound, FailureShows, RecoveryForgets, Estimated, Measured
<1> QED BY <1>1, <1>2, <1>3, TypesSplit DEF MonitorInv, AdmittedFitsObservation

LEMMA AmountsType ==
  ASSUME MonitorTypeOK
  PROVE  Amounts \in [Consumers -> Nat] /\ \A S \in SUBSET Consumers : IsFiniteSet(S) /\ Total(S) \in Nat
<1>1. Amounts \in [Consumers -> Nat]
  BY ResourceMonitorAssumption DEF Amounts, MonitorTypeOK
<1>2. ASSUME NEW S \in SUBSET Consumers PROVE IsFiniteSet(S) /\ Total(S) \in Nat
  <2>1. IsFiniteSet(S) BY ResourceMonitorAssumption, FS_Subset
  <2> HIDE DEF Amounts
  <2>2. SumFunctionOnSet(Amounts, S) \in Nat BY <1>1, <2>1, SumType
  <2> QED BY <2>1, <2>2 DEF Total, Amounts
<1> QED BY <1>1, <1>2

(* One consumer's reservation changes: what the others reserved since the
   observation stays as it was. *)
LEMMA OthersStay ==
  ASSUME MonitorTypeOK, MonitorTypeOK', NEW c \in Consumers, NEW v,
         reserved' = [reserved EXCEPT ![c] = v], generation' = generation
  PROVE  /\ Total(Since) = Total(Since \ {c}) + IF c \in Since THEN reserved[c].amount ELSE 0
         /\ Total(Since)' = Total(Since \ {c}) + IF c \in Since' THEN v.amount ELSE 0
         /\ Total(Since \ {c}) \in Nat
<1> DEFINE f == Amounts
           g == Amounts'
           S == Since
           T == Since'
<1>1. S \subseteq Consumers /\ T \subseteq Consumers BY DEF Since
<1>2. f \in [Consumers -> Nat] /\ IsFiniteSet(S) BY <1>1, AmountsType
<1>3. g \in [Consumers -> Nat] /\ IsFiniteSet(T)
  BY <1>1, ResourceMonitorAssumption, FS_Subset DEF Amounts, MonitorTypeOK
<1>4. \A d \in Consumers : d # c => g[d] = f[d] BY DEF Amounts, MonitorTypeOK
<1>5. f[c] = reserved[c].amount /\ g[c] = v.amount BY DEF Amounts, MonitorTypeOK
<1>6. S \ {c} = T \ {c} BY DEF Since, MonitorTypeOK
<1>7. Total(S) = SumFunctionOnSet(f, S) /\ Total(S \ {c}) = SumFunctionOnSet(f, S \ {c})
      /\ Total(Since)' = SumFunctionOnSet(g, T)
  BY DEF Total, Amounts
<1>8. Total(S \ {c}) \in Nat BY <1>1, AmountsType
<1> HIDE DEF f, g, S, T
<1>9. SumFunctionOnSet(f, S) = SumFunctionOnSet(f, S \ {c}) + IF c \in S THEN f[c] ELSE 0
  BY <1>1, <1>2, SumWithout
<1>10. SumFunctionOnSet(g, T) = SumFunctionOnSet(g, T \ {c}) + IF c \in T THEN g[c] ELSE 0
  BY <1>1, <1>3, SumWithout
<1>11. SumFunctionOnSet(f, S \ {c}) = SumFunctionOnSet(g, S \ {c})
  <2>1. IsFiniteSet(S \ {c}) BY <1>2, FS_Subset
  <2>2. \A d \in S \ {c} : f[d] = g[d] BY <1>1, <1>4
  <2> QED BY <2>1, <2>2, SumAgree
<1>12. SumFunctionOnSet(g, T \ {c}) = SumFunctionOnSet(f, S \ {c}) BY <1>6, <1>11
<1> QED BY <1>5, <1>7, <1>8, <1>9, <1>10, <1>12 DEF S, T

LEMMA ReserveFitsObservation ==
  ASSUME MonitorInv, MonitorTypeOK', NEW c \in Consumers, NEW need \in 1 .. Capacity, Reserve(c, need)
  PROVE  AdmittedFitsObservation'
<1> USE ResourceMonitorAssumption DEF MonitorInv
<1> SUFFICES ASSUME Measured PROVE Total(Since)' <= availability.free
  BY DEF Reserve, AdmittedFitsObservation, Since, Measured
<1>1. Total(Since)' <= Total(Since) + need /\ Total(Since)' \in Nat
  <2> DEFINE v == [amount |-> need, after |-> generation]
             rest == Total(Since \ {c})
  <2>1. reserved' = [reserved EXCEPT ![c] = v] /\ generation' = generation /\ reserved[c].amount = 0
    BY DEF Reserve
  <2>2. /\ Total(Since) = rest + IF c \in Since THEN reserved[c].amount ELSE 0
        /\ Total(Since)' = rest + IF c \in Since' THEN v.amount ELSE 0
        /\ rest \in Nat
    <3> HIDE DEF v
    <3> QED BY <2>1, OthersStay
  <2>3. v.amount = need OBVIOUS
  <2> HIDE DEF rest, v
  <2>4. Total(Since) = rest /\ Total(Since)' \in {rest, rest + need} BY <2>1, <2>2, <2>3
  <2> QED BY <2>2, <2>4
<1>2. need <= availability.free - Total({d \in Consumers : reserved[d].after >= generation})
  BY DEF Reserve, IsAvailable, ObservedAvailable
<1>3. {d \in Consumers : reserved[d].after >= generation} = Since
  <2>1. generation \in Nat /\ \A d \in Consumers : reserved[d].after \in Nat BY DEF MonitorTypeOK
  <2> QED BY <2>1 DEF AfterBound, Since
<1>4. need <= availability.free - Total(Since) BY <1>2, <1>3
<1>5. Total(Since) \in Nat BY AmountsType DEF Since
<1>6. availability.free \in Nat BY DEF MonitorTypeOK
<1> QED BY <1>1, <1>4, <1>5, <1>6

LEMMA ReleaseFitsObservation ==
  ASSUME MonitorInv, MonitorTypeOK', NEW c \in Consumers, ReleaseReserved(c)
  PROVE  AdmittedFitsObservation'
<1> USE ResourceMonitorAssumption DEF MonitorInv
<1> SUFFICES ASSUME Measured PROVE Total(Since)' <= availability.free
  BY DEF ReleaseReserved, AdmittedFitsObservation, Since, Measured
<1>1. Total(Since)' <= Total(Since) /\ Total(Since)' \in Nat
  <2> DEFINE v == [amount |-> 0, after |-> 0]
             rest == Total(Since \ {c})
  <2>1. reserved' = [reserved EXCEPT ![c] = v] /\ generation' = generation BY DEF ReleaseReserved
  <2>2. /\ Total(Since) = rest + IF c \in Since THEN reserved[c].amount ELSE 0
        /\ Total(Since)' = rest + IF c \in Since' THEN v.amount ELSE 0
        /\ rest \in Nat
    <3> HIDE DEF v
    <3> QED BY <2>1, OthersStay
  <2>3. v.amount = 0 /\ reserved[c].amount \in Nat BY DEF MonitorTypeOK
  <2> HIDE DEF rest, v
  <2> QED BY <2>2, <2>3
<1>2. Total(Since) <= availability.free BY DEF AdmittedFitsObservation, Since
<1>3. Total(Since) \in Nat /\ availability.free \in Nat BY AmountsType DEF Since, MonitorTypeOK
<1> QED BY <1>1, <1>2, <1>3

LEMMA ObservationFits ==
  ASSUME MonitorInv, MonitorTypeOK', NEW p \in Probers, NEW free \in 0 .. Capacity, ProbeSucceeds(p, free)
  PROVE  AdmittedFitsObservation'
<1> USE ResourceMonitorAssumption DEF MonitorInv
<1>1. reserved' = reserved /\ generation' = generation + 1 /\ availability'.free = free
  BY DEF ProbeSucceeds, RecordObserved
<1>2. {c \in Consumers : reserved'[c].after = generation'} = {}
  BY <1>1 DEF AfterBound, MonitorTypeOK
<1>3. Total({})' = 0 BY SumEmpty DEF Total
<1> QED BY <1>1, <1>2, <1>3 DEF AdmittedFitsObservation

LEMMA MonitorTypes == MonitorTypeOK /\ [MonitorNext]_monitorVars => MonitorTypeOK'
<1> SUFFICES ASSUME ObservedTypes, SensorTypes, [MonitorNext]_monitorVars
             PROVE  ObservedTypes' /\ SensorTypes'
  BY DEF MonitorTypeOK, ObservedTypes, SensorTypes
<1> USE ResourceMonitorAssumption
<1>1. ASSUME NEW c \in Consumers, NEW need \in 1 .. Capacity, Reserve(c, need)
      PROVE  ObservedTypes' /\ SensorTypes'
  BY <1>1 DEF Reserve, ObservedTypes, SensorTypes, sensorVars
<1>2. ASSUME NEW c \in Consumers, ReleaseReserved(c) PROVE ObservedTypes' /\ SensorTypes'
  BY <1>2 DEF ReleaseReserved, ObservedTypes, SensorTypes, sensorVars
<1>3. ASSUME NEW p \in Probers, NEW free \in 0 .. Capacity, ProbeSucceeds(p, free)
      PROVE  ObservedTypes' /\ SensorTypes'
  BY <1>3 DEF ProbeSucceeds, RecordObserved, ObservedTypes, SensorTypes, sensorVars
<1>4. ASSUME NEW p \in Probers,
             StartProbe(p) \/ ProbeKnownNonPeer(p) \/ ProbeFails(p) \/ ProbeFindsNonPeer(p)
      PROVE  ObservedTypes' /\ SensorTypes'
  <2>1. SensorTypes'
    BY <1>4 DEF StartProbe, ProbeKnownNonPeer, ProbeFails, ProbeFindsNonPeer, SensorTypes, sensorVars
  <2>2. CASE StartProbe(p) BY <2>1, <2>2 DEF StartProbe, ObservedTypes
  <2>3. CASE ProbeKnownNonPeer(p)
    BY <2>1, <2>3 DEF ProbeKnownNonPeer, ClearPeerFailure, Estimated, ObservedTypes
  <2>4. CASE ProbeFails(p) BY <2>1, <2>4 DEF ProbeFails, RecordError, ObservedTypes
  <2>5. CASE ProbeFindsNonPeer(p)
    BY <2>1, <2>5 DEF ProbeFindsNonPeer, ClearPeerFailure, Estimated, ObservedTypes
  <2> QED BY <1>4, <2>1, <2>2, <2>3, <2>4, <2>5
<1>5. CASE SetFullConfig BY <1>5 DEF SetFullConfig, ObservedTypes, SensorTypes, sensorVars
<1>6. ASSUME observedVars' = observedVars PROVE ObservedTypes'
  BY <1>6 DEF observedVars, ObservedTypes
<1>7. ASSUME NEW alert \in BOOLEAN, PollSensor(alert) PROVE ObservedTypes' /\ SensorTypes'
  <2>1. ObservedTypes' BY <1>6, <1>7 DEF PollSensor
  <2>2. recovered' \in BOOLEAN /\ released' \in BOOLEAN
    <3> DEFINE due == now' - lastReaction >= Cooldown
    <3>1. recovered' = ~alert /\ (released' = FALSE \/ released' = due) BY <1>7 DEF PollSensor
    <3>2. due \in BOOLEAN OBVIOUS
    <3> HIDE DEF due
    <3>3. recovered' \in BOOLEAN BY <3>1
    <3> QED BY <3>1, <3>2, <3>3
  <2>3. now' \in 0 .. MaxReadings /\ lastReaction' \in Never .. MaxReadings
    BY <1>7 DEF PollSensor, SensorTypes, Never
  <2> QED BY <2>1, <2>2, <2>3 DEF SensorTypes
<1>8. CASE PollSensorFails
  <2>1. ObservedTypes' BY <1>6, <1>8 DEF PollSensorFails
  <2>2. recovered' \in BOOLEAN /\ released' \in BOOLEAN BY <1>8 DEF PollSensorFails, SensorTypes
  <2>3. now' \in 0 .. MaxReadings /\ lastReaction' \in Never .. MaxReadings
    BY <1>8 DEF PollSensorFails, SensorTypes
  <2> QED BY <2>1, <2>2, <2>3 DEF SensorTypes
<1>9. CASE UNCHANGED monitorVars BY <1>6, <1>9 DEF monitorVars, SensorTypes, sensorVars
<1> QED BY <1>1, <1>2, <1>3, <1>4, <1>5, <1>7, <1>8, <1>9 DEF MonitorNext

(* The observation, the reservations and who reserved when stay. *)
LEMMA QuietObservation ==
  ASSUME AdmittedFitsObservation, UNCHANGED <<generation, reserved>>,
         Measured' => availability' = availability
  PROVE  AdmittedFitsObservation'
  BY DEF AdmittedFitsObservation, Measured, Total

LEMMA MonitorStep == MonitorInv /\ [MonitorNext]_monitorVars => MonitorInv'
<1> SUFFICES ASSUME MonitorInv, [MonitorNext]_monitorVars PROVE MonitorInv' OBVIOUS
<1>1. MonitorTypeOK' BY MonitorTypes DEF MonitorInv
<1> USE ResourceMonitorAssumption DEF MonitorInv, sensorVars, observedVars
<1>2. AdmittedFitsObservation'
  <2>1. ASSUME NEW p \in Probers, StartProbe(p) \/ ProbeKnownNonPeer(p) \/ ProbeFails(p) \/ ProbeFindsNonPeer(p)
        PROVE  AdmittedFitsObservation'
    <3>1. UNCHANGED <<generation, reserved>>
      BY <2>1 DEF StartProbe, ProbeKnownNonPeer, ProbeFails, ProbeFindsNonPeer, RecordError,
                  ClearPeerFailure
    <3>2. Measured' => availability' = availability
      <4>1. CASE StartProbe(p) BY <4>1 DEF StartProbe
      <4>2. CASE ProbeFails(p)
        <5>1. availability'.status = "error"
          BY <4>2 DEF ProbeFails, RecordError, MonitorTypeOK
        <5> QED BY <5>1 DEF Measured
      <4>3. CASE ClearPeerFailure BY <4>3 DEF ClearPeerFailure, Estimated, Measured
      <4> QED BY <2>1, <4>1, <4>2, <4>3 DEF ProbeKnownNonPeer, ProbeFindsNonPeer
    <3> QED BY <3>1, <3>2, QuietObservation
  <2>2. CASE SetFullConfig BY <2>2, QuietObservation DEF SetFullConfig
  <2>3. ASSUME NEW alert \in BOOLEAN, PollSensor(alert) PROVE AdmittedFitsObservation'
    BY <2>3, QuietObservation DEF PollSensor
  <2>4. CASE PollSensorFails \/ UNCHANGED monitorVars
    BY <2>4, QuietObservation DEF PollSensorFails, monitorVars
  <2> QED BY <1>1, <2>1, <2>2, <2>3, <2>4, ReserveFitsObservation, ReleaseFitsObservation, ObservationFits
    DEF MonitorNext
<1>3. AfterBound'
  BY DEF MonitorNext, MonitorTypeOK, AfterBound, Reserve, ReleaseReserved, StartProbe, ProbeKnownNonPeer,
         ProbeFails, ProbeFindsNonPeer, ProbeSucceeds, RecordObserved, RecordError, ClearPeerFailure,
         SetFullConfig, PollSensor, PollSensorFails, monitorVars
<1>4. FailureShows'
  BY DEF MonitorNext, MonitorTypeOK, FailureShows, Reserve, ReleaseReserved, StartProbe, ProbeKnownNonPeer,
         ProbeFails, ProbeFindsNonPeer, ProbeSucceeds, RecordObserved, RecordError, ClearPeerFailure,
         SetFullConfig, PollSensor, PollSensorFails, monitorVars
<1>5. RecoveryForgets'
  BY DEF MonitorNext, RecoveryForgets, Reserve, ReleaseReserved, StartProbe, ProbeKnownNonPeer,
         ProbeFails, ProbeFindsNonPeer, ProbeSucceeds, SetFullConfig, PollSensor, PollSensorFails,
         monitorVars
<1> QED BY <1>1, <1>2, <1>3, <1>4, <1>5

LEMMA MonitorInvariance == MonitorSpec => []MonitorInv
  BY MonitorInitial, MonitorStep, PTL DEF MonitorSpec

(* Whatever order probes end in: all that was reserved on one observation fits
   into it, and nothing is reserved after a failed probe until one succeeds or
   finds no peer (resource_monitor.py:127-202, resource.py:347-369). *)
THEOREM ProbesGovernAdmission == MonitorSpec => AdmissionFollowsProbes
<1>1. MonitorInv => AdmittedFitsObservation BY DEF MonitorInv
<1>2. MonitorInv /\ [MonitorNext]_monitorVars =>
        [lastProbe = "failed" => \A c \in Consumers : reserved'[c].amount <= reserved[c].amount]_monitorVars
  <2> SUFFICES ASSUME MonitorInv, MonitorNext, lastProbe = "failed", NEW c \in Consumers
               PROVE  reserved'[c].amount <= reserved[c].amount
    OBVIOUS
  <2> USE ResourceMonitorAssumption DEF MonitorInv, MonitorTypeOK
  <2>1. \A d \in Consumers, need \in 1 .. Capacity : ~Reserve(d, need)
    BY DEF Reserve, IsAvailable, Measured, FailureShows
  <2>2. reserved[c].amount \in Nat OBVIOUS
  <2>3. (\E d \in Consumers : ReleaseReserved(d)) \/ reserved' = reserved
    BY <2>1
    DEF MonitorNext, StartProbe, ProbeKnownNonPeer, ProbeFails, ProbeFindsNonPeer, ProbeSucceeds,
        SetFullConfig, PollSensor, PollSensorFails, observedVars
  <2> QED BY <2>2, <2>3 DEF ReleaseReserved
<1> QED BY <1>1, <1>2, MonitorInvariance, PTL DEF AdmissionFollowsProbes, FailedProbeBlocks, MonitorSpec

(* An alert after a recovery reacts at once, and the reactions of one alert are
   the cooldown apart (resource_monitor.py:236-319). *)
THEOREM ReactionPace == MonitorSpec => ReactionsArePaced
<1>1. MonitorInv /\ [MonitorNext]_monitorVars =>
        [/\ released' /\ now' # now => recovered \/ now' - lastReaction >= Cooldown
         /\ recovered /\ ~recovered' => released']_monitorVars
  <2> SUFFICES ASSUME MonitorInv, MonitorNext
               PROVE  /\ released' /\ now' # now => recovered \/ now' - lastReaction >= Cooldown
                      /\ recovered /\ ~recovered' => released'
    OBVIOUS
  <2> USE ResourceMonitorAssumption DEF MonitorInv, MonitorTypeOK
  <2>1. ASSUME NEW alert \in BOOLEAN, PollSensor(alert)
        PROVE  /\ released' /\ now' # now => recovered \/ now' - lastReaction >= Cooldown
               /\ recovered /\ ~recovered' => released'
    BY <2>1 DEF PollSensor, RecoveryForgets, Never
  <2>2. CASE ~\E alert \in BOOLEAN : PollSensor(alert)
    <3>1. recovered' = recovered /\ (now' = now \/ ~released')
      BY <2>2
      DEF MonitorNext, Reserve, ReleaseReserved, StartProbe, ProbeKnownNonPeer, ProbeFails,
          ProbeFindsNonPeer, ProbeSucceeds, SetFullConfig, PollSensorFails, sensorVars
    <3> QED BY <3>1
  <2> QED BY <2>1, <2>2
<1> QED BY <1>1, MonitorInvariance, PTL DEF ReactionsArePaced, MonitorSpec

-----------------------------------------------------------------------------
(* The router. *)

LEMMA LeastBy ==
  ASSUME NEW S, S # {}, NEW f, \A c \in S : f[c] \in Nat
  PROVE  \E c \in S : \A d \in S : f[c] <= f[d]
<1> DEFINE values == {f[c] : c \in S}
<1>1. values \subseteq Nat /\ values # {} OBVIOUS
<1>2. PICK n \in values : \A k \in values : n <= k BY <1>1, LeastNumber
<1> QED BY <1>2

LEMMA BeforePair ==
  ASSUME NEW x1 \in Nat, NEW x2 \in Nat, NEW y1 \in Nat, NEW y2 \in Nat,
         x1 < y1 \/ (x1 = y1 /\ x2 < y2)
  PROVE  Before(<<x1, x2>>, <<y1, y2>>)
<1>1. CASE x1 < y1
  <2> SUFFICES \E i \in 1 .. 2 : <<x1, x2>>[i] < <<y1, y2>>[i]
                   /\ \A j \in 1 .. i - 1 : <<x1, x2>>[j] = <<y1, y2>>[j]
    BY DEF Before
  <2> WITNESS 1 \in 1 .. 2
  <2> QED BY <1>1
<1>2. CASE x1 = y1 /\ x2 < y2
  <2> SUFFICES \E i \in 1 .. 2 : <<x1, x2>>[i] < <<y1, y2>>[i]
                   /\ \A j \in 1 .. i - 1 : <<x1, x2>>[j] = <<y1, y2>>[j]
    BY DEF Before
  <2> WITNESS 2 \in 1 .. 2
  <2>1. \A j \in 1 .. 2 - 1 : j = 1 OBVIOUS
  <2> QED BY <1>2, <2>1
<1> QED BY <1>1, <1>2

LEMMA BeforeQuad ==
  ASSUME NEW x1 \in Nat, NEW x2 \in Nat, NEW x3 \in Nat, NEW x4 \in Nat,
         NEW y1 \in Nat, NEW y2 \in Nat, NEW y3 \in Nat, NEW y4 \in Nat,
         \/ x1 < y1
         \/ x1 = y1 /\ x2 < y2
         \/ x1 = y1 /\ x2 = y2 /\ x3 < y3
         \/ x1 = y1 /\ x2 = y2 /\ x3 = y3 /\ x4 < y4
  PROVE  Before(<<x1, x2, x3, x4>>, <<y1, y2, y3, y4>>)
<1> DEFINE x == <<x1, x2, x3, x4>>
           y == <<y1, y2, y3, y4>>
           k == IF x1 < y1 THEN 1 ELSE IF x2 < y2 THEN 2 ELSE IF x3 < y3 THEN 3 ELSE 4
<1>1. Len(x) = 4 OBVIOUS
<1>2. k \in 1 .. 4 OBVIOUS
<1>3. x[1] = x1 /\ x[2] = x2 /\ x[3] = x3 /\ x[4] = x4 OBVIOUS
<1>4. y[1] = y1 /\ y[2] = y2 /\ y[3] = y3 /\ y[4] = y4 OBVIOUS
<1> HIDE DEF x, y
<1>5. x[k] < y[k]
  <2>1. CASE k = 1 BY <2>1, <1>3, <1>4
  <2>2. CASE k = 2 BY <2>2, <1>3, <1>4
  <2>3. CASE k = 3 BY <2>3, <1>3, <1>4
  <2>4. CASE k = 4 BY <2>4, <1>3, <1>4
  <2> QED BY <2>1, <2>2, <2>3, <2>4
<1>6. ASSUME NEW j \in 1 .. k - 1 PROVE x[j] = y[j]
  <2>1. j = 1 \/ j = 2 \/ j = 3 OBVIOUS
  <2>2. CASE j = 1 BY <2>2, <1>3, <1>4
  <2>3. CASE j = 2 BY <2>3, <1>3, <1>4
  <2>4. CASE j = 3 BY <2>4, <1>3, <1>4
  <2> QED BY <2>1, <2>2, <2>3, <2>4
<1> HIDE DEF k
<1> QED BY <1>1, <1>2, <1>5, <1>6 DEF Before, x, y

(* The best alternative and the candidate of the smallest priority exist. *)
LEMMA BestIsThere ==
  ASSUME NEW v, NEW among, among # {}, among \subseteq Candidates
  PROVE  BestAlternative(v, among) \in among
<1> USE SmartRouterAssumption, KvAffinityAssumption
<1> DEFINE f1 == [c \in among |-> IF v[c].is = "ready" THEN 0 ELSE 1]
           f2 == [c \in among |-> IF v[c].deep THEN 1 ELSE 0]
           f3 == [c \in among |-> FallbackPrio[c]]
           f4 == [c \in among |-> c]
<1>1. \A c \in among : f1[c] \in Nat /\ f2[c] \in Nat /\ f3[c] \in Nat /\ f4[c] \in Nat OBVIOUS
<1>2. \A c \in among : Cost(v, c) = <<f1[c], f2[c], f3[c], f4[c]>> BY DEF Cost
<1>3. \A c, d \in among : c # d => f4[c] # f4[d] OBVIOUS
<1> HIDE DEF f1, f2, f3, f4
<1>4. PICK c1 \in among : \A d \in among : f1[c1] <= f1[d] BY <1>1, LeastBy
<1> DEFINE A1 == {c \in among : f1[c] = f1[c1]}
<1>5. PICK c2 \in A1 : \A d \in A1 : f2[c2] <= f2[d]
  <2>1. A1 # {} /\ \A c \in A1 : f2[c] \in Nat BY <1>1
  <2> HIDE DEF A1
  <2> QED BY <2>1, LeastBy
<1> DEFINE A2 == {c \in A1 : f2[c] = f2[c2]}
<1>6. PICK c3 \in A2 : \A d \in A2 : f3[c3] <= f3[d]
  <2>1. A2 # {} /\ \A c \in A2 : f3[c] \in Nat BY <1>1
  <2> HIDE DEF A2
  <2> QED BY <2>1, LeastBy
<1> DEFINE A3 == {c \in A2 : f3[c] = f3[c3]}
<1>7. PICK c4 \in A3 : \A d \in A3 : f4[c4] <= f4[d]
  <2>1. A3 # {} /\ \A c \in A3 : f4[c] \in Nat BY <1>1
  <2> HIDE DEF A3
  <2> QED BY <2>1, LeastBy
<1>8. ASSUME NEW d \in among \ {c4} PROVE Before(Cost(v, c4), Cost(v, d))
  <2>1. /\ f1[c4] \in Nat /\ f2[c4] \in Nat /\ f3[c4] \in Nat /\ f4[c4] \in Nat
        /\ f1[d] \in Nat /\ f2[d] \in Nat /\ f3[d] \in Nat /\ f4[d] \in Nat
    BY <1>1
  <2>2. \/ f1[c4] < f1[d]
        \/ f1[c4] = f1[d] /\ f2[c4] < f2[d]
        \/ f1[c4] = f1[d] /\ f2[c4] = f2[d] /\ f3[c4] < f3[d]
        \/ f1[c4] = f1[d] /\ f2[c4] = f2[d] /\ f3[c4] = f3[d] /\ f4[c4] < f4[d]
    <3>1. f1[c4] = f1[c1] /\ f2[c4] = f2[c2] /\ f3[c4] = f3[c3] OBVIOUS
    <3>2. f1[c4] <= f1[d] BY <1>4, <3>1
    <3>3. f1[d] = f1[c4] => f2[c4] <= f2[d] BY <1>5, <3>1
    <3>4. f1[d] = f1[c4] /\ f2[d] = f2[c4] => f3[c4] <= f3[d] BY <1>6, <3>1
    <3>5. f1[d] = f1[c4] /\ f2[d] = f2[c4] /\ f3[d] = f3[c4] => f4[c4] <= f4[d] BY <1>7, <3>1
    <3>6. f4[c4] # f4[d] BY <1>3
    <3> QED BY <2>1, <3>2, <3>3, <3>4, <3>5, <3>6
  <2>3. Before(<<f1[c4], f2[c4], f3[c4], f4[c4]>>, <<f1[d], f2[d], f3[d], f4[d]>>)
    BY <2>1, <2>2, BeforeQuad
  <2> QED BY <1>2, <2>3
<1>9. c4 \in among OBVIOUS
<1> HIDE DEF A1, A2, A3
<1> QED BY <1>8, <1>9 DEF BestAlternative

LEMMA FirstByPriority ==
  ASSUME NEW among, among # {}, among \subseteq Candidates
  PROVE  \E c \in among : \A d \in among \ {c} : Before(<<FallbackPrio[c], c>>, <<FallbackPrio[d], d>>)
<1> USE SmartRouterAssumption, KvAffinityAssumption
<1>1. \A c \in among : FallbackPrio[c] \in Nat /\ c \in Nat OBVIOUS
<1>2. PICK c1 \in among : \A d \in among : FallbackPrio[c1] <= FallbackPrio[d] BY <1>1, LeastBy
<1> DEFINE A1 == {c \in among : FallbackPrio[c] = FallbackPrio[c1]}
<1>3. PICK c2 \in A1 : \A d \in A1 : c2 <= d
  <2>1. A1 # {} /\ A1 \subseteq Nat BY <1>1
  <2> HIDE DEF A1
  <2> QED BY <2>1, LeastNumber
<1>4. ASSUME NEW d \in among \ {c2} PROVE Before(<<FallbackPrio[c2], c2>>, <<FallbackPrio[d], d>>)
  <2>1. FallbackPrio[c2] < FallbackPrio[d] \/ (FallbackPrio[c2] = FallbackPrio[d] /\ c2 < d)
    BY <1>1, <1>2, <1>3
  <2> QED BY <1>1, <2>1, BeforePair
<1> QED BY <1>3, <1>4

(* What a decision promises, whatever was probed and recorded. *)
Sound(v, decided) ==
  decided # NoChoice =>
    /\ decided.to \in Eligible(v)
    /\ v[decided.to].is = "memory" /\ decided.reason # "affinity_queue_diverted" => CanRun(v) = {}

LEMMA OrAlternativeSound ==
  ASSUME NEW v, DOMAIN v \subseteq Candidates, NEW p \in Eligible(v), NEW diverted, NEW kept,
         CanRun(v) = {} \/ (diverted = "affinity_queue_diverted" /\ v[p].is # "memory")
  PROVE  Sound(v, OrAlternative(v, p, diverted, kept))
<1> DEFINE among == Eligible(v) \ {p}
           other == BestAlternative(v, among)
<1>1. CASE among = {}
  <2>1. other = 0 BY <1>1 DEF BestAlternative
  <2>2. OrAlternative(v, p, diverted, kept) = Chosen(p, kept) BY <2>1 DEF OrAlternative
  <2> QED BY <2>2 DEF Sound, Chosen, Eligible
<1>2. CASE among # {}
  <2>1. among \subseteq Candidates BY DEF Eligible
  <2>2. other \in among
    <3> HIDE DEF among
    <3> QED BY <1>2, <2>1, BestIsThere
  <2>3. other # 0 BY <2>1, <2>2, KvAffinityAssumption
  <2>4. OrAlternative(v, p, diverted, kept) = Chosen(other, diverted) BY <2>3 DEF OrAlternative
  <2> HIDE DEF other
  <2> QED BY <2>2, <2>4 DEF Sound, Chosen
<1> QED BY <1>1, <1>2

LEMMA AffinitySound ==
  ASSUME NEW v, DOMAIN v \subseteq Candidates, NEW p \in Eligible(v), NEW expired
  PROVE  Sound(v, SelectWithAffinity(v, p, expired))
<1>1. Sound(v, NoChoice) BY DEF Sound
<1>2. CASE v[p].is \in {"ready", "queued"}
  <2>1. SelectWithAffinity(v, p, expired)
          = IF ~QueueOverloaded(v, p) THEN Chosen(p, "affinity")
            ELSE IF overImmediate THEN OrAlternative(v, p, "affinity_queue_diverted", "affinity")
            ELSE NoChoice
    BY <1>2 DEF SelectWithAffinity
  <2>2. Sound(v, Chosen(p, "affinity")) BY <1>2 DEF Sound, Chosen
  <2>3. Sound(v, OrAlternative(v, p, "affinity_queue_diverted", "affinity"))
    BY <1>2, OrAlternativeSound
  <2> QED BY <1>1, <2>1, <2>2, <2>3
<1>3. CASE v[p].is = "concurrency"
  <2>1. SelectWithAffinity(v, p, expired)
          = IF ~overImmediate THEN NoChoice
            ELSE IF ~QueueOverloaded(v, p) THEN Chosen(p, "affinity_wait_queue")
            ELSE OrAlternative(v, p, "affinity_queue_diverted", "affinity_wait_queue")
    BY <1>3 DEF SelectWithAffinity
  <2>2. Sound(v, Chosen(p, "affinity_wait_queue")) BY <1>3 DEF Sound, Chosen
  <2>3. Sound(v, OrAlternative(v, p, "affinity_queue_diverted", "affinity_wait_queue"))
    BY <1>3, OrAlternativeSound
  <2> QED BY <1>1, <2>1, <2>2, <2>3
<1>4. CASE v[p].is \notin {"ready", "queued", "concurrency"}
  <2>1. SelectWithAffinity(v, p, expired)
          = IF CanRun(v) # {} THEN Chosen(BestAlternative(v, CanRun(v)), "affinity_resource_diverted")
            ELSE IF ~overImmediate THEN NoChoice
            ELSE IF ~expired THEN Chosen(p, "affinity_wait_resource")
            ELSE OrAlternative(v, p, "affinity_resource_timeout", "affinity_wait_no_alternative")
    BY <1>4 DEF SelectWithAffinity
  <2>2. CASE CanRun(v) # {}
    <3>1. CanRun(v) \subseteq Candidates BY DEF CanRun
    <3>2. BestAlternative(v, CanRun(v)) \in CanRun(v) BY <2>2, <3>1, BestIsThere
    <3>3. BestAlternative(v, CanRun(v)) \in Eligible(v) /\ v[BestAlternative(v, CanRun(v))].is = "ready"
      BY <3>2 DEF CanRun, Eligible
    <3> QED BY <2>1, <2>2, <3>3 DEF Sound, Chosen
  <2>3. CASE CanRun(v) = {}
    <3>1. Sound(v, Chosen(p, "affinity_wait_resource")) BY <2>3 DEF Sound, Chosen
    <3>2. Sound(v, OrAlternative(v, p, "affinity_resource_timeout", "affinity_wait_no_alternative"))
      BY <2>3, OrAlternativeSound
    <3> QED BY <1>1, <2>1, <2>3, <3>1, <3>2
  <2> QED BY <2>2, <2>3
<1> QED BY <1>2, <1>3, <1>4

LEMMA OrderSound ==
  ASSUME NEW v, DOMAIN v \subseteq Candidates PROVE Sound(v, SelectInOrder(v))
<1> USE KvAffinityAssumption
<1>1. CASE CanRun(v) # {}
  <2>1. CanRun(v) \subseteq Nat BY DEF CanRun
  <2>2. PICK n \in CanRun(v) : \A k \in CanRun(v) : n <= k BY <1>1, <2>1, LeastNumber
  <2>3. Min(CanRun(v)) \in CanRun(v) BY <2>2 DEF Min
  <2>4. Min(CanRun(v)) \in Eligible(v) /\ v[Min(CanRun(v))].is = "ready"
    BY <2>3 DEF CanRun, Eligible
  <2>5. SelectInOrder(v) = Chosen(Min(CanRun(v)), "immediate") BY <1>1 DEF SelectInOrder
  <2> QED BY <2>4, <2>5 DEF Sound, Chosen
<1>2. CASE CanRun(v) = {} /\ Eligible(v) = {}
  BY <1>2 DEF SelectInOrder, Sound
<1>3. CASE CanRun(v) = {} /\ Eligible(v) # {}
  <2> DEFINE c == CHOOSE c \in Eligible(v) : \A d \in Eligible(v) \ {c} :
                    Before(<<FallbackPrio[c], c>>, <<FallbackPrio[d], d>>)
  <2>1. Eligible(v) \subseteq Candidates BY DEF Eligible
  <2>2. c \in Eligible(v) BY <1>3, <2>1, FirstByPriority
  <2>3. SelectInOrder(v) = Chosen(c, "busy_fallback") BY <1>3 DEF SelectInOrder
  <2> HIDE DEF c
  <2> QED BY <1>3, <2>2, <2>3 DEF Sound, Chosen
<1> QED BY <1>1, <1>2, <1>3

LEMMA DecisionSound ==
  ASSUME NEW v, DOMAIN v \subseteq Candidates, NEW record, NEW expired
  PROVE  Sound(v, Decide(v, record, expired))
<1>1. Usable(v, record) => record.to \in Eligible(v) BY DEF Usable
<1>2. Usable(v, record) => Sound(v, SelectWithAffinity(v, record.to, expired)) BY <1>1, AffinitySound
<1> QED BY <1>2, OrderSound DEF Decide

(* The choice just made. *)
LEMMA ChoiceWaits ==
  ASSUME WaitsOnlyWhenNothingStarts, [RouterNext]_routerVars
  PROVE  WaitsOnlyWhenNothingStarts'
<1>1. ASSUME NEW r \in Requests, NEW v \in [Candidates \ routing[r].excluded -> Verdicts],
             NEW expired \in BOOLEAN, Select(r, v, expired)
      PROVE  WaitsOnlyWhenNothingStarts'
  <2> DEFINE decided == Decide(v, routing[r].record, expired)
  <2>1. DOMAIN v \subseteq Candidates OBVIOUS
  <2>2. Sound(v, decided) BY <2>1, DecisionSound
  <2>3. /\ choice'.to = decided.to /\ choice'.reason = decided.reason
        /\ choice'.probed = [c \in DOMAIN v |-> v[c].is]
    BY <1>1 DEF Select
  <2> HIDE DEF decided
  <2>4. decided.reason # "none" => decided # NoChoice BY DEF NoChoice
  <2> QED BY <2>2, <2>3, <2>4 DEF WaitsOnlyWhenNothingStarts, Sound, Eligible, CanRun
<1>2. CASE choice' = NoChoice BY <1>2 DEF NoChoice, WaitsOnlyWhenNothingStarts
<1>3. CASE UNCHANGED routerVars BY <1>3 DEF routerVars, WaitsOnlyWhenNothingStarts
<1> QED BY <1>1, <1>2, <1>3 DEF RouterNext, Resolve, LookupRemote, ReloadGroup

(* For any candidates, verdicts, records and order of lookups: a request waits
   for memory only when no candidate could start, unless it is diverted from a
   long queue, and it never goes to a candidate that is down
   (smart_router.py:172-439). *)
THEOREM WaitsForNothingElse == RouterSpec => []WaitsOnlyWhenNothingStarts
<1>1. RouterInit => WaitsOnlyWhenNothingStarts
  BY DEF RouterInit, NoChoice, WaitsOnlyWhenNothingStarts
<1>2. WaitsOnlyWhenNothingStarts /\ [RouterNext]_routerVars => WaitsOnlyWhenNothingStarts'
  BY ChoiceWaits
<1> QED BY <1>1, <1>2, PTL DEF RouterSpec

-----------------------------------------------------------------------------
(* The anchor of a context is a number of bytes. *)
LEMMA MinMaxOfTwo ==
  ASSUME NEW a \in Int, NEW b \in Int
  PROVE  /\ Min({a, b}) \in {a, b}
         /\ Max({a, b}) \in {a, b} /\ Max({a, b}) >= a
<1>1. \E x \in {a, b} : \A y \in {a, b} : x <= y
  <2>1. CASE a <= b BY <2>1
  <2>2. CASE b <= a BY <2>2
  <2> QED BY <2>1, <2>2
<1>2. \E x \in {a, b} : \A y \in {a, b} : x >= y
  <2>1. CASE a >= b BY <2>1
  <2>2. CASE b >= a BY <2>2
  <2> QED BY <2>1, <2>2
<1> QED BY <1>1, <1>2 DEF Min, Max

LEMMA QuantizeType == ASSUME NEW value \in Nat PROVE Quantize(value) \in Nat
<1> DEFINE steps == {step \in Policy.ladder : step <= value}
<1>1. CASE steps = {} BY <1>1 DEF Quantize
<1>2. CASE steps # {}
  <2>1. IsFiniteSet(steps) /\ steps \subseteq Nat BY PolicyAssumption, FS_Subset
  <2> HIDE DEF steps
  <2>2. LastOf(steps) \in steps /\ \A k \in steps : k <= LastOf(steps) BY <1>2, <2>1, LastIn
  <2>3. \E x \in steps : \A y \in steps : x >= y
    <3> DEFINE last == LastOf(steps)
    <3>1. last \in steps /\ last \in Nat /\ \A y \in steps : y \in Nat /\ y <= last BY <2>1, <2>2
    <3> HIDE DEF last
    <3> QED BY <3>1
  <2>4. Max(steps) \in steps BY <2>3 DEF Max
  <2>5. Quantize(value) = Max(steps) BY <1>2 DEF Quantize, steps
  <2> QED BY <2>1, <2>4, <2>5
<1> QED BY <1>1, <1>2

LEMMA RatioType == ASSUME NEW total \in Nat PROVE Ratio(total) \in Int
<1>1. /\ Policy.short \in Nat /\ Policy.medium \in Nat /\ Policy.long \in Nat
      /\ Policy.shortRatio \in Nat /\ Policy.mediumRatio \in Nat /\ Policy.longRatio \in Nat
  BY PolicyAssumption
<1> DEFINE span == Max({1, Policy.long - Policy.medium})
           drop == (Policy.mediumRatio - Policy.longRatio) * (total - Policy.medium)
<1>2. span \in Int /\ span >= 1 BY <1>1, MinMaxOfTwo
<1>3. drop \in Int BY <1>1
<1> HIDE DEF span, drop
<1>4. drop \div span \in Int BY <1>2, <1>3
<1>5. \/ Ratio(total) = Policy.shortRatio
      \/ Ratio(total) = Policy.mediumRatio
      \/ Ratio(total) = Policy.mediumRatio - (drop \div span)
      \/ Ratio(total) = Policy.longRatio
  BY <1>1 DEF Ratio, span, drop
<1> QED BY <1>1, <1>4, <1>5

LEMMA AnchorBytesType == ASSUME NEW total \in Nat PROVE AnchorBytes(total) \in Nat
<1> DEFINE raw == (total * Ratio(total)) \div 1000
           capped == Min({Policy.max, raw})
           raised == Max({Policy.min, capped})
           value == Min({total, raised})
<1>1. Policy.min \in Nat /\ Policy.max \in Nat BY PolicyAssumption
<1>2. raw \in Int
  <2>1. Ratio(total) \in Int BY RatioType
  <2>2. total * Ratio(total) \in Int BY <2>1
  <2> QED BY <2>2
<1>3. AnchorBytes(total) = Quantize(value) BY DEF AnchorBytes
<1> HIDE DEF raw
<1>4. capped \in Int
  <2>1. capped \in {Policy.max, raw} BY <1>1, <1>2, MinMaxOfTwo
  <2> QED BY <1>1, <1>2, <2>1
<1> HIDE DEF capped
<1>5. raised \in Nat
  <2>1. raised \in {Policy.min, capped} /\ raised >= Policy.min BY <1>1, <1>4, MinMaxOfTwo
  <2> QED BY <1>1, <1>4, <2>1
<1> HIDE DEF raised
<1>6. value \in Nat
  <2>1. value \in {total, raised} BY <1>5, MinMaxOfTwo
  <2> QED BY <1>5, <2>1
<1> HIDE DEF value
<1> QED BY <1>3, <1>6, QuantizeType

LEMMA AnchorsAreNumbers == Anchors \subseteq Nat
  BY AnchorBytesType, KvAffinityAssumption DEF Anchors

-----------------------------------------------------------------------------
(* The stored records. *)

AnchorsDiffer(s) == \A i, j \in DOMAIN s : s[i].anchor = s[j].anchor => i = j

(* What Live, OtherAnchors and Without share: some of the records, in their order. *)
LEMMA KeptRecords ==
  ASSUME NEW recs \in Seq(Record), NEW K
  PROVE  /\ Kept(recs, K) \in Seq(Record) /\ Len(Kept(recs, K)) <= Len(recs)
         /\ Range(Kept(recs, K)) = Range(recs) \cap K
         /\ AnchorsDiffer(recs) => AnchorsDiffer(Kept(recs, K))
<1> DEFINE I == {i \in DOMAIN recs : recs[i] \in K}
           kept == Kept(recs, K)
<1>1. kept \in Seq(Record) BY KeptType
<1>2. Range(kept) = Range(recs) \cap K BY KeptElements
<1>3. Len(kept) <= Len(recs) BY KeptLength
<1>4. ASSUME AnchorsDiffer(recs) PROVE AnchorsDiffer(kept)
  <2>1. DOMAIN recs = 1 .. Len(recs) /\ Len(recs) \in Nat OBVIOUS
  <2>2. IsFiniteSet(I) /\ I \subseteq Nat
    <3>1. IsFiniteSet(1 .. Len(recs)) BY <2>1, FS_Interval
    <3>2. I \subseteq 1 .. Len(recs) BY <2>1
    <3> QED BY <2>1, <3>1, <3>2, FS_Subset
  <2>3. \A i, j \in I : recs[i] = recs[j] => i = j BY <1>4 DEF AnchorsDiffer
  <2>4. kept = Subsequence(recs, I) BY DEF Kept
  <2> HIDE DEF I
  <2>5. NoneTwice(kept) BY <2>2, <2>3, <2>4, SubNoneTwice
  <2> HIDE DEF kept
  <2> SUFFICES ASSUME NEW i \in DOMAIN kept, NEW j \in DOMAIN kept, kept[i].anchor = kept[j].anchor
               PROVE  i = j
    BY DEF AnchorsDiffer
  <2>6. kept[i] \in Range(recs) /\ kept[j] \in Range(recs) BY <1>2 DEF Range
  <2>7. PICK k \in DOMAIN recs : recs[k] = kept[i] BY <2>6 DEF Range
  <2>8. PICK l \in DOMAIN recs : recs[l] = kept[j] BY <2>6 DEF Range
  <2>9. k = l BY <1>4, <2>7, <2>8 DEF AnchorsDiffer
  <2> QED BY <2>5, <2>7, <2>8, <2>9 DEF NoneTwice
<1> QED BY <1>1, <1>2, <1>3, <1>4

LEMMA KeptForms ==
  ASSUME NEW recs \in Seq(Record)
  PROVE  /\ Live(recs) = Kept(recs, {r \in Record : r.expires > kvNow})
         /\ \A a : OtherAnchors(recs, a) = Kept(recs, {r \in Record : r.anchor # a})
         /\ \A c : Without(recs, c) = Kept(recs, {r \in Record : r.to # c})
<1>1. \A i \in DOMAIN recs : recs[i] \in Record OBVIOUS
<1>2. {i \in DOMAIN recs : recs[i].expires > kvNow}
        = {i \in DOMAIN recs : recs[i] \in {r \in Record : r.expires > kvNow}}
  BY <1>1
<1>3. ASSUME NEW a PROVE {i \in DOMAIN recs : recs[i].anchor # a}
                           = {i \in DOMAIN recs : recs[i] \in {r \in Record : r.anchor # a}}
  BY <1>1
<1>4. ASSUME NEW c PROVE {i \in DOMAIN recs : recs[i].to # c}
                           = {i \in DOMAIN recs : recs[i] \in {r \in Record : r.to # c}}
  BY <1>1
<1> QED BY <1>2, <1>3, <1>4 DEF Live, OtherAnchors, Without, Kept

(* A store within its bound, one record per anchor. *)
Stored(recs) == recs \in Seq(Record) /\ Len(recs) <= MaxEntries /\ AnchorsDiffer(recs)

LEMMA StillStored ==
  ASSUME NEW recs, Stored(recs)
  PROVE  /\ Stored(Live(recs)) /\ \A c : Stored(Without(recs, c))
         /\ Range(Live(recs)) = {r \in Range(recs) : r.expires > kvNow}
<1> USE KvAffinityAssumption
<1>1. recs \in Seq(Record) /\ Len(recs) \in Nat BY DEF Stored
<1>2. ASSUME NEW K PROVE Stored(Kept(recs, K))
  <2>1. /\ Kept(recs, K) \in Seq(Record) /\ Len(Kept(recs, K)) <= Len(recs)
        /\ AnchorsDiffer(recs) => AnchorsDiffer(Kept(recs, K))
    BY <1>1, KeptRecords
  <2>2. Len(Kept(recs, K)) \in Nat BY <2>1
  <2> QED BY <1>1, <2>1, <2>2 DEF Stored
<1>3. Range(Live(recs)) = Range(recs) \cap {r \in Record : r.expires > kvNow}
  BY <1>1, KeptForms, KeptRecords
<1>4. Range(recs) \subseteq Record BY <1>1 DEF Range
<1>5. Live(recs) = Kept(recs, {r \in Record : r.expires > kvNow}) BY <1>1, KeptForms
<1>6. \A c : Without(recs, c) = Kept(recs, {r \in Record : r.to # c}) BY <1>1, KeptForms
<1> QED BY <1>2, <1>3, <1>4, <1>5, <1>6

(* The new record is the only one of its anchor, and the bound is kept: the
   record that is dropped is another one. *)
LEMMA UpsertStores ==
  ASSUME NEW recs, Stored(recs), NEW r \in Record
  PROVE  /\ Stored(Upsert(recs, r)) /\ r \in Range(Upsert(recs, r))
         /\ \A q \in Range(Upsert(recs, r)) : q.anchor = r.anchor => q = r
<1> USE KvAffinityAssumption
<1> DEFINE other == OtherAnchors(recs, r.anchor)
           all == Append(other, r)
           n == Len(other) + 1
<1>1. recs \in Seq(Record) /\ Len(recs) \in Nat BY DEF Stored
<1>2. /\ other \in Seq(Record) /\ Len(other) <= Len(recs) /\ AnchorsDiffer(other)
      /\ Range(other) = Range(recs) \cap {q \in Record : q.anchor # r.anchor}
  <2>1. other = Kept(recs, {q \in Record : q.anchor # r.anchor}) BY <1>1, KeptForms
  <2> HIDE DEF other
  <2> QED BY <1>1, <2>1, KeptRecords DEF Stored
<1>3. \A i \in DOMAIN other : other[i].anchor # r.anchor BY <1>2 DEF Range
<1> HIDE DEF other
<1>4. Upsert(recs, r) = IF Len(all) > MaxEntries THEN Tail(all) ELSE all BY DEF Upsert, other
<1>5. /\ all \in Seq(Record) /\ Len(all) = n /\ n \in Nat \ {0}
      /\ DOMAIN all = 1 .. n /\ DOMAIN other = 1 .. n - 1
      /\ all[n] = r /\ \A i \in 1 .. n - 1 : all[i] = other[i]
  BY <1>2
<1> HIDE DEF all
<1>6. AnchorsDiffer(all)
  <2> SUFFICES ASSUME NEW i \in 1 .. n, NEW j \in 1 .. n, all[i].anchor = all[j].anchor PROVE i = j
    BY <1>5 DEF AnchorsDiffer
  <2>1. CASE i = n /\ j = n BY <2>1
  <2>2. CASE i = n /\ j # n
    <3>1. j \in DOMAIN other BY <1>5, <2>2
    <3> QED BY <1>3, <1>5, <2>2, <3>1
  <2>3. CASE i # n /\ j = n
    <3>1. i \in DOMAIN other BY <1>5, <2>3
    <3> QED BY <1>3, <1>5, <2>3, <3>1
  <2>4. CASE i # n /\ j # n
    <3>1. i \in DOMAIN other /\ j \in DOMAIN other BY <1>5, <2>4
    <3> QED BY <1>2, <1>5, <3>1 DEF AnchorsDiffer
  <2> QED BY <2>1, <2>2, <2>3, <2>4
<1>7. n <= MaxEntries + 1 BY <1>1, <1>2, <1>5 DEF Stored
<1>8. CASE n <= MaxEntries
  <2>1. Upsert(recs, r) = all BY <1>4, <1>5, <1>8
  <2>2. Stored(all) BY <1>5, <1>6, <1>8 DEF Stored
  <2>3. r \in Range(all) BY <1>5 DEF Range
  <2>4. \A q \in Range(all) : q.anchor = r.anchor => q = r BY <1>5, <1>6 DEF Range, AnchorsDiffer
  <2> QED BY <2>1, <2>2, <2>3, <2>4
<1>9. CASE n > MaxEntries
  <2> DEFINE t == Tail(all)
  <2>1. Upsert(recs, r) = t BY <1>4, <1>5, <1>9
  <2>2. n >= 2 BY <1>5, <1>9
  <2>3. all # <<>> BY <1>5
  <2>4. t \in Seq(Record) /\ Len(t) = n - 1 /\ \A i \in 1 .. n - 1 : t[i] = all[i + 1]
    BY <1>5, <2>2, <2>3, HeadTailProperties
  <2>5. DOMAIN t = 1 .. n - 1 BY <1>5, <2>4
  <2> HIDE DEF t
  <2>6. AnchorsDiffer(t)
    <3> SUFFICES ASSUME NEW i \in 1 .. n - 1, NEW j \in 1 .. n - 1, t[i].anchor = t[j].anchor PROVE i = j
      BY <2>5 DEF AnchorsDiffer
    <3>1. i + 1 \in DOMAIN all /\ j + 1 \in DOMAIN all BY <1>5
    <3>2. i + 1 = j + 1 BY <1>6, <2>4, <3>1 DEF AnchorsDiffer
    <3> QED BY <3>2
  <2>7. Stored(t) BY <1>5, <1>7, <2>4, <2>6 DEF Stored
  <2>8. n - 1 \in 1 .. n - 1 /\ t[n - 1] = r
    <3>1. n - 1 \in 1 .. n - 1 /\ (n - 1) + 1 = n BY <1>5, <2>2
    <3> QED BY <1>5, <2>4, <3>1
  <2>9. r \in Range(t) BY <2>5, <2>8 DEF Range
  <2>10. \A q \in Range(t) : q.anchor = r.anchor => q = r BY <2>6, <2>9 DEF Range, AnchorsDiffer
  <2> QED BY <2>1, <2>7, <2>9, <2>10
<1> QED BY <1>5, <1>7, <1>8, <1>9

(* What is found is one of the records, or none. *)
LEMMA BestIsFound ==
  ASSUME NEW found, found \subseteq Record, NEW anchor \in Nat
  PROVE  LET usable == {r \in found : r.anchor <= anchor}
         IN IF usable = {} THEN BestOf(found, anchor) = NoRecord
            ELSE /\ BestOf(found, anchor) \in usable
                 /\ \A q \in usable : q.anchor <= BestOf(found, anchor).anchor
<1> DEFINE usable == {r \in found : r.anchor <= anchor}
           f == [r \in usable |-> anchor - r.anchor]
<1>1. CASE usable = {} BY <1>1 DEF BestOf
<1>2. CASE usable # {}
  <2>1. \A r \in usable : r.anchor \in Nat /\ r.anchor <= anchor BY AnchorsAreNumbers DEF Record
  <2>2. \A r \in usable : f[r] = anchor - r.anchor /\ f[r] \in Nat BY <2>1
  <2>3. BestOf(found, anchor) = CHOOSE r \in usable : \A q \in usable : q.anchor <= r.anchor
    BY <1>2 DEF BestOf
  <2> HIDE DEF usable, f
  <2>4. PICK best \in usable : \A q \in usable : f[best] <= f[q] BY <1>2, <2>2, LeastBy
  <2>5. \A q \in usable : q.anchor <= best.anchor BY <2>1, <2>2, <2>4
  <2> QED BY <1>2, <2>3, <2>5 DEF usable
<1> QED BY <1>1, <1>2

LEMMA LookupType ==
  ASSUME NEW recs, Stored(recs), NEW anchor \in Nat
  PROVE  Lookup(recs, anchor) \in Record \cup {NoRecord}
<1>1. Stored(Live(recs)) BY StillStored
<1>2. Range(Live(recs)) \subseteq Record BY <1>1 DEF Stored, Range
<1> QED BY <1>2, BestIsFound DEF Lookup

(* The one record of an anchor that is alive is found for that anchor. *)
LEMMA LookupFinds ==
  ASSUME NEW recs, Stored(recs), NEW r \in Record, r \in Range(recs), r.expires > kvNow,
         \A q \in Range(recs) : q.anchor = r.anchor => q = r
  PROVE  Lookup(recs, r.anchor) = r
<1> DEFINE found == Range(Live(recs))
           usable == {q \in found : q.anchor <= r.anchor}
           best == BestOf(found, r.anchor)
<1>1. found = {q \in Range(recs) : q.expires > kvNow} BY StillStored
<1>2. found \subseteq Record BY <1>1 DEF Stored, Range
<1>3. r.anchor \in Nat BY AnchorsAreNumbers DEF Record
<1>4. r \in usable BY <1>1, <1>3
<1>5. best \in usable /\ \A q \in usable : q.anchor <= best.anchor BY <1>2, <1>3, <1>4, BestIsFound
<1>6. best.anchor \in Nat BY <1>2, <1>5, AnchorsAreNumbers DEF Record
<1>7. Lookup(recs, r.anchor) = best BY DEF Lookup
<1>8. best \in Range(recs) BY <1>1, <1>5
<1>9. best.anchor <= r.anchor /\ r.anchor <= best.anchor BY <1>4, <1>5
<1> HIDE DEF best
<1>10. best.anchor = r.anchor BY <1>3, <1>6, <1>9
<1> QED BY <1>7, <1>8, <1>10

-----------------------------------------------------------------------------
(* The router's state. *)

(* A request that is being routed has a size. *)
SizeKnown == \A r \in Requests : routing[r].at # "idle" => routing[r].size \in Sizes

RouterInv == RouterTypeOK /\ SizeKnown

LEMMA RouterParts ==
  RouterTypeOK <=>
    /\ kvNow \in 0 .. Horizon /\ forgets \in 0 .. MaxForgets /\ routes \in 0 .. MaxRoutes
    /\ Stored(records)
    /\ mirror \in [Anchors -> Record \cup {NoRecord}]
    /\ writers \subseteq Writers
    /\ affinityOn \in BOOLEAN /\ overImmediate \in BOOLEAN
    /\ cacheGroup \in [Candidates -> {1, 2}]
    /\ routing \in [Requests -> [at : {"idle", "remote", "probing"}, size : Sizes \cup {0},
                                 excluded : SUBSET Candidates, record : Record \cup {NoRecord}]]
  BY DEF RouterTypeOK, KvTypeOK, Stored, AnchorsDiffer

LEMMA RouterInitial == RouterInit => RouterInv
<1> SUFFICES ASSUME RouterInit PROVE RouterInv OBVIOUS
<1> USE KvAffinityAssumption, SmartRouterAssumption DEF RouterInit, KvInit
<1>1. Stored(records) BY EmptySeq DEF Stored, AnchorsDiffer
<1>2. SizeKnown BY DEF SizeKnown, AtRest
<1>3. RouterTypeOK BY <1>1, RouterParts DEF AtRest
<1> QED BY <1>2, <1>3 DEF RouterInv

LEMMA NewRecordType ==
  ASSUME RouterInv, NEW size \in Sizes, NEW c \in Candidates, NEW g \in {1, 2}
  PROVE  /\ NewRecord(size, c, g) \in Record /\ NewRecord(size, c, g).expires > kvNow
         /\ NewRecord(size, c, g).anchor = AnchorBytes(size)
<1>1. AnchorBytes(size) \in Anchors BY DEF Anchors
<1>2. kvNow + Ttl \in 0 .. Horizon + Ttl /\ kvNow + Ttl > kvNow
  BY KvAffinityAssumption, RouterParts DEF RouterInv
<1> QED BY <1>1, <1>2 DEF NewRecord, Record

(* A detached coroutine is begun for a candidate that is forgotten. *)
LEMMA ForgetType ==
  ASSUME RouterInv, NEW c \in Candidates
  PROVE  /\ [op |-> "forget", to |-> c, anchors |-> {}] \in Writers
         /\ Forget(c) => forgets' \in 0 .. MaxForgets /\ writers' \subseteq Writers
<1>1. [op |-> "forget", to |-> c, anchors |-> {}] \in Writers BY DEF Writers
<1>2. forgets \in 0 .. MaxForgets /\ MaxForgets \in Nat /\ writers \subseteq Writers
  BY RouterParts, KvAffinityAssumption DEF RouterInv
<1> QED BY <1>1, <1>2 DEF Forget

LEMMA ResolveKeepsTypes ==
  ASSUME RouterInv, NEW r \in Requests, NEW size \in Sizes, NEW excluded \in SUBSET Candidates,
         NEW failed \in BOOLEAN, Resolve(r, size, excluded, failed)
  PROVE  RouterInv'
<1> DEFINE c    == CHOOSE c \in excluded : TRUE
           kept == IF failed THEN Without(records, c) ELSE records
           hit  == IF affinityOn THEN Lookup(kept, AnchorBytes(size)) ELSE NoRecord
           state == [at |-> IF affinityOn /\ hit = NoRecord THEN "remote" ELSE "probing",
                     size |-> size, excluded |-> excluded, record |-> hit]
<1>1. RouterTypeOK /\ Stored(records) BY RouterParts DEF RouterInv
<1>2. failed => c \in Candidates BY DEF Resolve
<1>3. /\ records' = IF affinityOn THEN Touched(kept, hit) ELSE kept
      /\ routing' = [routing EXCEPT ![r] = state]
      /\ IF failed THEN Forget(c) ELSE UNCHANGED <<forgets, writers>>
      /\ routes' = routes + 1 /\ routes < MaxRoutes
      /\ UNCHANGED <<kvNow, mirror, configVars>>
  BY DEF Resolve
<1>4. Stored(kept) BY <1>1, StillStored
<1>5. AnchorBytes(size) \in Nat BY AnchorBytesType, KvAffinityAssumption
<1> HIDE DEF c, kept
<1>6. hit \in Record \cup {NoRecord} BY <1>4, <1>5, LookupType
<1> HIDE DEF hit
<1>7. Stored(records')
  <2>1. Stored(Live(kept)) BY <1>4, StillStored
  <2>2. hit \in Record => Stored(Upsert(Live(kept), hit)) BY <2>1, UpsertStores
  <2> QED BY <1>3, <1>4, <1>6, <2>1, <2>2 DEF Touched
<1>8. forgets' \in 0 .. MaxForgets /\ writers' \subseteq Writers
  BY <1>1, <1>2, <1>3, ForgetType, RouterParts
<1>9. routes' \in 0 .. MaxRoutes BY <1>1, <1>3, RouterParts, SmartRouterAssumption
<1>10. state \in [at : {"idle", "remote", "probing"}, size : Sizes \cup {0},
                   excluded : SUBSET Candidates, record : Record \cup {NoRecord}]
  BY <1>6
<1>11. state.size \in Sizes OBVIOUS
<1> HIDE DEF state
<1>12. SizeKnown' BY <1>1, <1>3, <1>11, RouterParts DEF SizeKnown, RouterInv
<1>13. RouterTypeOK'
  BY <1>1, <1>3, <1>7, <1>8, <1>9, <1>10, RouterParts DEF configVars, RouterTypeOK, KvTypeOK, Stored, AnchorsDiffer
<1> QED BY <1>12, <1>13 DEF RouterInv

LEMMA RemoteKeepsTypes ==
  ASSUME RouterInv, NEW r \in Requests, LookupRemote(r)
  PROVE  RouterInv'
<1>1. RouterTypeOK /\ Stored(records) BY RouterParts DEF RouterInv
<1>2. routing[r].size \in Nat
  BY <1>1, KvAffinityAssumption DEF RouterInv, SizeKnown, LookupRemote
<1>3. LookupMirror(AnchorBytes(routing[r].size)) \in Record \cup {NoRecord}
  <2> DEFINE found == {mirror[a] : a \in Anchors} \ {NoRecord}
             anchor == AnchorBytes(routing[r].size)
  <2>1. found \subseteq Record BY <1>1, RouterParts
  <2>2. anchor \in Nat BY <1>2, AnchorBytesType
  <2>3. LookupMirror(anchor) = BestOf(found, anchor) BY DEF LookupMirror
  <2> HIDE DEF found, anchor
  <2>4. BestOf(found, anchor) \in Record \cup {NoRecord} BY <2>1, <2>2, BestIsFound
  <2> QED BY <2>3, <2>4 DEF anchor
<1>4. PICK hit \in Record \cup {NoRecord} :
        /\ records' = IF hit = NoRecord THEN records ELSE Upsert(records, hit)
        /\ routing' = [routing EXCEPT ![r].at = "probing", ![r].record = hit]
  BY <1>3 DEF LookupRemote
<1>5. UNCHANGED <<kvNow, mirror, writers, forgets, configVars, routes>> BY DEF LookupRemote
<1>6. Stored(records') BY <1>1, <1>4, UpsertStores
<1>7. SizeKnown' BY <1>1, <1>4, RouterParts DEF SizeKnown, RouterInv, LookupRemote
<1>8. routing' \in [Requests -> [at : {"idle", "remote", "probing"}, size : Sizes \cup {0},
                                excluded : SUBSET Candidates, record : Record \cup {NoRecord}]]
  <2> DEFINE T == [at : {"idle", "remote", "probing"}, size : Sizes \cup {0},
                   excluded : SUBSET Candidates, record : Record \cup {NoRecord}]
  <2>1. routing \in [Requests -> T] BY <1>1, RouterParts
  <2>2. [routing[r] EXCEPT !.at = "probing", !.record = hit] \in T BY <2>1
  <2>3. routing' = [routing EXCEPT ![r] = [routing[r] EXCEPT !.at = "probing", !.record = hit]]
    BY <1>4, <2>1
  <2> HIDE DEF T
  <2>4. routing' \in [Requests -> T] BY <2>1, <2>2, <2>3
  <2> QED BY <2>4 DEF T
<1>9. RouterTypeOK'
  BY <1>1, <1>5, <1>6, <1>8, RouterParts DEF configVars, RouterTypeOK, KvTypeOK, Stored, AnchorsDiffer
<1> QED BY <1>7, <1>9 DEF RouterInv

(* What a selection leaves: a store in which the same context is led to the
   candidate that was chosen, and a mirror's write under way. *)
LEMMA SelectStores ==
  ASSUME RouterInv, NEW r \in Requests, NEW v \in [Candidates \ routing[r].excluded -> Verdicts],
         NEW expired \in BOOLEAN, Select(r, v, expired)
  PROVE  RouterInv' /\ RecordFollowsChoice'
<1> DEFINE record == routing[r].record
           lost   == affinityOn /\ record # NoRecord /\ ~Usable(v, record)
           kept   == IF lost THEN Without(records, record.to) ELSE records
           decided == Decide(v, record, expired)
           fresh  == NewRecord(routing[r].size, decided.to, cacheGroup[decided.to])
           store  == affinityOn /\ decided # NoChoice
           forget == [op |-> "forget", to |-> record.to, anchors |-> {}]
           write  == [op |-> "write", record |-> fresh]
<1>1. RouterTypeOK /\ Stored(records) BY RouterParts DEF RouterInv
<1>2. /\ lost => forgets < MaxForgets
      /\ forgets' = IF lost THEN forgets + 1 ELSE forgets
      /\ records' = IF store THEN Upsert(Live(kept), fresh) ELSE kept
      /\ writers' = writers \cup (IF lost THEN {forget} ELSE {})
                            \cup IF store THEN {write} ELSE {}
      /\ routing' = [routing EXCEPT ![r] = AtRest]
  BY DEF Select
<1>3. /\ choice'.to = decided.to /\ choice'.reason = decided.reason
      /\ choice'.group = (IF store THEN fresh.group ELSE 0) /\ choice'.size = routing[r].size
      /\ UNCHANGED <<kvNow, mirror, configVars, routes>>
  BY DEF Select
<1>4. routing[r].size \in Sizes BY DEF RouterInv, SizeKnown, Select
<1>5. record \in Record \cup {NoRecord} BY <1>1, RouterParts
<1>6. decided # NoChoice => decided.to \in Candidates
  <2>1. DOMAIN v \subseteq Candidates OBVIOUS
  <2>2. Sound(v, decided) BY <2>1, DecisionSound
  <2> HIDE DEF decided
  <2> QED BY <2>1, <2>2 DEF Sound, Eligible
<1> HIDE DEF decided
<1>7. store => /\ fresh \in Record /\ fresh.expires > kvNow
               /\ fresh.anchor = AnchorBytes(routing[r].size)
               /\ fresh.to = decided.to
  <2> SUFFICES ASSUME store PROVE /\ fresh \in Record /\ fresh.expires > kvNow
                                  /\ fresh.anchor = AnchorBytes(routing[r].size)
                                  /\ fresh.to = decided.to
    OBVIOUS
  <2>1. decided.to \in Candidates BY <1>6
  <2>2. cacheGroup[decided.to] \in {1, 2} BY <1>1, <2>1, RouterParts
  <2>3. fresh.to = decided.to BY DEF NewRecord
  <2> QED BY <1>4, <2>1, <2>2, <2>3, NewRecordType
<1>8. Stored(kept) BY <1>1, StillStored
<1>9. lost => forget \in Writers
  <2> SUFFICES ASSUME lost PROVE forget \in Writers OBVIOUS
  <2>1. record.to \in Candidates BY <1>5 DEF Record
  <2> QED BY <2>1, ForgetType
<1>10. store => write \in Writers BY <1>7 DEF Writers
<1> HIDE DEF fresh, forget, write, kept
<1>11. Stored(Live(kept)) BY <1>8, StillStored
<1>12. store => /\ Stored(Upsert(Live(kept), fresh)) /\ fresh \in Range(Upsert(Live(kept), fresh))
                /\ \A q \in Range(Upsert(Live(kept), fresh)) : q.anchor = fresh.anchor => q = fresh
  BY <1>7, <1>11, UpsertStores
<1>13. Stored(records') BY <1>2, <1>8, <1>12
<1>14. forgets' \in 0 .. MaxForgets /\ writers' \subseteq Writers
  <2>1. forgets' \in 0 .. MaxForgets BY <1>1, <1>2, RouterParts, KvAffinityAssumption
  <2>2. writers' \subseteq Writers BY <1>1, <1>2, <1>9, <1>10, RouterParts
  <2> QED BY <2>1, <2>2
<1>15. RouterInv'
  <2>1. AtRest \in [at : {"idle", "remote", "probing"}, size : Sizes \cup {0},
                    excluded : SUBSET Candidates, record : Record \cup {NoRecord}]
    BY DEF AtRest
  <2>2. SizeKnown' BY <1>1, <1>2, RouterParts DEF SizeKnown, RouterInv, AtRest
  <2>3. routing' \in [Requests -> [at : {"idle", "remote", "probing"}, size : Sizes \cup {0},
                                 excluded : SUBSET Candidates, record : Record \cup {NoRecord}]]
    BY <1>1, <1>2, <2>1, RouterParts
  <2>4. RouterTypeOK'
    BY <1>1, <1>3, <1>13, <1>14, <2>3, RouterParts
       DEF configVars, RouterTypeOK, KvTypeOK, Stored, AnchorsDiffer
  <2> QED BY <2>2, <2>4 DEF RouterInv
<1>16. RecordFollowsChoice'
  <2> SUFFICES ASSUME affinityOn', choice'.reason # "none"
               PROVE  LET found == Lookup(records, AnchorBytes(choice.size))'
                      IN  found # NoRecord /\ found.to = choice'.to /\ found.group = choice'.group
    BY DEF RecordFollowsChoice
  <2>1. store
    <3>1. affinityOn BY <1>3 DEF configVars
    <3>2. decided # NoChoice BY <1>3 DEF NoChoice
    <3> QED BY <3>1, <3>2
  <2>2. Lookup(records', fresh.anchor) = fresh
    <3>1. /\ Stored(records') /\ fresh \in Record /\ fresh \in Range(records')
          /\ fresh.expires > kvNow /\ \A q \in Range(records') : q.anchor = fresh.anchor => q = fresh
      BY <1>2, <1>7, <1>12, <1>13, <2>1
    <3> QED BY <3>1, LookupFinds
  <2>3. fresh # NoRecord BY <1>7, <2>1, NoRecordAssumption
  <2>4. kvNow' = kvNow BY <1>3
  <2> DEFINE anchor == AnchorBytes(choice'.size)
  <2>5. anchor = fresh.anchor BY <1>3, <1>7, <2>1
  <2>6. Lookup(records, AnchorBytes(choice.size))' = Lookup(records', anchor) BY <2>4 DEF Lookup, Live
  <2> HIDE DEF anchor
  <2>7. Lookup(records, AnchorBytes(choice.size))' = fresh BY <2>2, <2>5, <2>6
  <2> QED BY <1>3, <1>7, <2>1, <2>3, <2>7
<1> QED BY <1>15, <1>16

LEMMA ReloadKeepsTypes ==
  ASSUME RouterInv, NEW c \in Candidates, ReloadGroup(c) PROVE RouterInv'
<1>1. RouterTypeOK /\ SizeKnown BY DEF RouterInv
<1>2. SizeKnown' BY <1>1 DEF SizeKnown, ReloadGroup
<1>3. cacheGroup' \in [Candidates -> {1, 2}] BY <1>1 DEF RouterTypeOK, ReloadGroup
<1>4. KvTypeOK' BY <1>1 DEF RouterTypeOK, KvTypeOK, ReloadGroup, kvVars
<1> QED BY <1>1, <1>2, <1>3, <1>4 DEF RouterTypeOK, RouterInv, ReloadGroup

(* The detached coroutines, an unload and the clock. *)
LEMMA StoreStepKeepsTypes ==
  ASSUME RouterInv, KvStep, UNCHANGED <<configVars, routing, routes>>
  PROVE  RouterInv'
<1> USE KvAffinityAssumption
<1>1. RouterTypeOK /\ SizeKnown BY DEF RouterInv
<1>2. /\ kvNow \in 0 .. Horizon /\ forgets \in 0 .. MaxForgets /\ writers \subseteq Writers
      /\ Stored(records) /\ mirror \in [Anchors -> Record \cup {NoRecord}]
  BY <1>1, RouterParts
<1> SUFFICES /\ kvNow' \in 0 .. Horizon /\ forgets' \in 0 .. MaxForgets /\ writers' \subseteq Writers
             /\ Stored(records') /\ mirror' \in [Anchors -> Record \cup {NoRecord}]
  <2> SUFFICES RouterTypeOK' /\ SizeKnown' BY DEF RouterInv
  <2>1. SizeKnown' BY <1>1 DEF SizeKnown
  <2>2. RouterTypeOK' BY <1>1 DEF configVars, RouterTypeOK, KvTypeOK, Stored, AnchorsDiffer
  <2> QED BY <2>1, <2>2
<1>3. CASE \E c \in Candidates : InvalidateCandidate(c)
  <2> PICK c \in Candidates : InvalidateCandidate(c) BY <1>3
  <2>1. forgets' \in 0 .. MaxForgets /\ writers' \subseteq Writers
    BY ForgetType DEF InvalidateCandidate
  <2>2. Stored(records') BY <1>2, StillStored DEF InvalidateCandidate
  <2> QED BY <1>2, <2>1, <2>2 DEF InvalidateCandidate
<1>4. ASSUME NEW w \in writers, WriteMirror(w)
      PROVE  mirror' \in [Anchors -> Record \cup {NoRecord}]
  <2>1. w.op = "write" /\ w \in Writers BY <1>2, <1>4 DEF WriteMirror
  <2>2. w.record \in Record BY <2>1 DEF Writers
  <2> QED BY <1>2, <1>4, <2>2 DEF WriteMirror
<1>5. ASSUME NEW w \in writers, ForgetMirrorRead(w)
      PROVE  writers' \subseteq Writers
  <2> DEFINE stale == {a \in Anchors : mirror[a] # NoRecord /\ mirror[a].to = w.to}
  <2>1. w.op = "forget" /\ w \in Writers BY <1>2, <1>5 DEF ForgetMirrorRead
  <2>2. w.to \in Candidates BY <2>1 DEF Writers
  <2>3. [op |-> "delete", to |-> w.to, anchors |-> stale] \in Writers BY <2>2 DEF Writers
  <2>4. writers' = (writers \ {w})
          \cup IF stale = {} THEN {} ELSE {[op |-> "delete", to |-> w.to, anchors |-> stale]}
    BY <1>5 DEF ForgetMirrorRead
  <2> HIDE DEF stale
  <2> QED BY <1>2, <2>3, <2>4
<1>6. CASE \E w \in writers : WriteMirror(w) \/ ForgetMirrorRead(w)
  BY <1>2, <1>4, <1>5, <1>6 DEF WriteMirror, ForgetMirrorRead
<1>7. CASE \E w \in writers : ForgetMirrorDelete(w) \/ MirrorFails(w)
  BY <1>2, <1>7 DEF ForgetMirrorDelete, MirrorFails
<1>8. CASE KvTick
  BY <1>2, <1>8 DEF KvTick
<1> QED BY <1>3, <1>6, <1>7, <1>8 DEF KvStep

LEMMA RouterStepKeeps ==
  ASSUME RouterInv, RecordFollowsChoice, [RouterNext]_routerVars
  PROVE  RouterInv' /\ RecordFollowsChoice'
<1>1. ASSUME choice' = NoChoice PROVE RecordFollowsChoice'
  BY <1>1 DEF NoChoice, RecordFollowsChoice
<1>2. ASSUME NEW r \in Requests, NEW size \in Sizes, NEW excluded \in SUBSET Candidates,
             NEW failed \in BOOLEAN, Resolve(r, size, excluded, failed)
      PROVE  RouterInv' /\ RecordFollowsChoice'
  BY <1>1, <1>2, ResolveKeepsTypes DEF Resolve
<1>3. ASSUME NEW r \in Requests, LookupRemote(r) PROVE RouterInv' /\ RecordFollowsChoice'
  BY <1>1, <1>3, RemoteKeepsTypes DEF LookupRemote
<1>4. ASSUME NEW r \in Requests, NEW v \in [Candidates \ routing[r].excluded -> Verdicts],
             NEW expired \in BOOLEAN, Select(r, v, expired)
      PROVE  RouterInv' /\ RecordFollowsChoice'
  BY <1>4, SelectStores
<1>5. ASSUME NEW c \in Candidates, ReloadGroup(c) PROVE RouterInv' /\ RecordFollowsChoice'
  BY <1>1, <1>5, ReloadKeepsTypes DEF ReloadGroup
<1>6. ASSUME KvStep, choice' = NoChoice, UNCHANGED <<configVars, routing, routes>>
      PROVE  RouterInv' /\ RecordFollowsChoice'
  BY <1>1, <1>6, StoreStepKeepsTypes
<1>7. CASE UNCHANGED routerVars
  BY <1>7 DEF routerVars, kvVars, configVars, RouterInv, RouterTypeOK, KvTypeOK, SizeKnown,
       RecordFollowsChoice, Lookup, Live, AnchorBytes
<1> QED BY <1>2, <1>3, <1>4, <1>5, <1>6, <1>7 DEF RouterNext

LEMMA RouterKeeps == RouterSpec => []RouterInv /\ []RecordFollowsChoice
<1>1. RouterInit => RouterInv /\ RecordFollowsChoice
  BY RouterInitial DEF RouterInit, NoChoice, RecordFollowsChoice
<1>2. RouterInv /\ RecordFollowsChoice /\ [RouterNext]_routerVars
        => RouterInv' /\ RecordFollowsChoice'
  BY RouterStepKeeps
<1> QED BY <1>1, <1>2, PTL DEF RouterSpec

(* For any candidates, sizes, policy and bound: the store never holds more than
   its entries, nor two records for one anchor (kv_affinity.py:522-531). *)
THEOREM StoreIsBounded == RouterSpec => []RouterTypeOK
<1>1. RouterInv => RouterTypeOK BY DEF RouterInv
<1> QED BY <1>1, RouterKeeps, PTL

(* The record of a choice is found again by the same context, on a diversion
   and with a full store too, whatever coroutines write to the mirror and
   whatever they bring back (smart_router.py:172-439). *)
THEOREM ChoiceIsRemembered == RouterSpec => []RecordFollowsChoice
  BY RouterKeeps, PTL

-----------------------------------------------------------------------------
(* The readiness history. *)

Transition == [ts : 0 .. LastMoment, reason : Reasons]
States == {"blocked", "ready", "other", "none"}

InOrder(t) == \A i, j \in DOMAIN t : i < j => t[i].ts < t[j].ts

(* Between a transition and the next, the model was as the transition says. *)
Tells(t) ==
  \A i \in DOMAIN t, u \in 1 .. moment :
    t[i].ts < u /\ (\A j \in DOMAIN t : i < j => u <= t[j].ts) => past[u] = StateOf(t[i].reason)

(* What is kept ends with the last sample. *)
KeptTells(t) ==
  /\ t \in Seq(Transition) /\ t # <<>> /\ t[Len(t)].reason = entry.reason
  /\ entry.sampled <= moment /\ \A i \in DOMAIN t : t[i].ts <= entry.sampled
  /\ InOrder(t) /\ Tells(t)

(* It begins with the first sample, or before the window of the last one. *)
KeptBegins(t) ==
  streak <= t[1].ts /\ (t[1].ts = streak \/ t[1].ts < entry.sampled - Window)

(* How long the model has been blocked without a break. *)
SinceTells ==
  /\ (entry.since = NotBlocked) <=> (StateOf(entry.reason) # "blocked")
  /\ entry.since # NotBlocked =>
       /\ streak <= entry.since /\ entry.since <= moment
       /\ \A u \in 1 .. moment : u > entry.since => past[u] = "blocked"
       /\ (entry.since = streak \/ past[entry.since] # "blocked")

ReadinessTypes ==
  /\ moment \in 0 .. LastMoment /\ streak \in 0 .. LastMoment
  /\ past \in Seq(States) /\ Len(past) = moment
  /\ entry.transitions \in Seq(Transition)
  /\ entry.since \in {NotBlocked} \cup 0 .. LastMoment
  /\ entry.sampled \in 0 .. LastMoment /\ entry.reason \in Reasons \cup {"none"}

LEMMA ReadinessTypesAre == ReadinessTypes <=> ReadinessTypeOK
  BY DEF ReadinessTypes, ReadinessTypeOK, Transition, States

ReadinessInv ==
  /\ ReadinessTypes
  /\ entry.reason = "none" => entry = NoEntry
  /\ entry.reason # "none" =>
       KeptTells(entry.transitions) /\ KeptBegins(entry.transitions) /\ SinceTells

LEMMA ReadinessInitial == ReadinessInit => ReadinessInv
  BY EmptySeq, ModelReadinessAssumption
     DEF ReadinessInit, ReadinessInv, ReadinessTypes, NoEntry, NotBlocked

LEMMA PruneKeeps ==
  ASSUME ReadinessTypes, NEW t \in Seq(Transition), t # <<>>
  PROVE  \E d \in 0 .. Len(t) - 1 :
           /\ Prune(t) \in Seq(Transition) /\ Len(Prune(t)) = Len(t) - d
           /\ \A i \in 1 .. Len(t) - d : Prune(t)[i] = t[i + d]
           /\ d = 0 \/ t[1 + d].ts < moment - Window
<1> USE ModelReadinessAssumption
<1> DEFINE n == Len(t)
           inside == {i \in DOMAIN t : t[i].ts >= moment - Window}
           from == IF inside = {} THEN n ELSE Max({1, Min(inside) - 1})
<1>1. n \in Nat \ {0} /\ DOMAIN t = 1 .. n BY EmptySeq
<1>2. moment \in Nat /\ Window \in Nat /\ \A i \in 1 .. n : t[i].ts \in Nat
  <2>1. \A i \in 1 .. n : t[i] \in Transition BY <1>1
  <2> QED BY <2>1 DEF ReadinessTypes, Transition
<1>3. Prune(t) = SubSeq(t, from, n) BY DEF Prune
<1>4. from \in 1 .. n /\ (from = 1 \/ t[from].ts < moment - Window)
  <2>1. CASE inside = {}
    <3>1. from = n /\ n \notin inside /\ n \in DOMAIN t BY <1>1, <2>1
    <3> QED BY <1>1, <1>2, <3>1
  <2>2. CASE inside # {}
    <3>1. inside \subseteq 1 .. n /\ inside \subseteq Nat BY <1>1
    <3>2. \A i \in 1 .. n : i \notin inside => t[i].ts < moment - Window BY <1>1, <1>2
    <3> HIDE DEF inside
    <3>3. PICK k \in inside : \A i \in inside : k <= i BY <2>2, <3>1, LeastNumber
    <3>4. Min(inside) \in inside /\ \A i \in inside : Min(inside) <= i BY <3>3 DEF Min
    <3> DEFINE m == Min(inside)
    <3>5. m \in 1 .. n /\ \A i \in inside : m <= i BY <3>1, <3>4
    <3>6. from = Max({1, m - 1}) BY <2>2
    <3> HIDE DEF m
    <3>7. from \in {1, m - 1} /\ from >= 1 BY <3>5, <3>6, MinMaxOfTwo
    <3> HIDE DEF from
    <3>8. from \in 1 .. n BY <1>1, <3>5, <3>7
    <3>9. from = m - 1 => from \notin inside BY <3>5, <3>8
    <3> QED BY <3>2, <3>7, <3>8, <3>9
  <2> QED BY <2>1, <2>2
<1> HIDE DEF from
<1> DEFINE d == from - 1
<1>5. d \in 0 .. n - 1 /\ from = d + 1 BY <1>1, <1>4
<1>6. /\ Prune(t) \in Seq(Transition) /\ Len(Prune(t)) = n - d
      /\ \A i \in 1 .. n - d : Prune(t)[i] = t[i + d]
  <2>1. SubSeq(t, from, n) \in Seq(Transition)
    <3>1. \A i \in from .. n : t[i] \in Transition BY <1>1, <1>4
    <3> QED BY <1>1, <1>4, <3>1, SubSeqProperties
  <2>2. /\ Len(SubSeq(t, from, n)) = n - from + 1
        /\ \A i \in 1 .. n - from + 1 : SubSeq(t, from, n)[i] = t[from + i - 1]
    BY <1>1, <1>4, SubSeqProperties
  <2>3. n - from + 1 = n - d /\ \A i \in 1 .. n - d : from + i - 1 = i + d BY <1>1, <1>4, <1>5
  <2> QED BY <1>3, <2>1, <2>2, <2>3
<1>7. d = 0 \/ t[1 + d].ts < moment - Window
  <2>1. 1 + d = from BY <1>5
  <2> QED BY <1>4, <2>1
<1> HIDE DEF d
<1> QED BY <1>5, <1>6, <1>7

(* What pruning drops is before what it keeps. *)
LEMMA SuffixTells ==
  ASSUME ReadinessTypes, NEW t \in Seq(Transition), NEW d \in 0 .. Len(t) - 1,
         NEW s \in Seq(Transition), Len(s) = Len(t) - d,
         \A i \in 1 .. Len(t) - d : s[i] = t[i + d]
  PROVE  /\ s # <<>> /\ s[Len(s)] = t[Len(t)] /\ s[1] = t[1 + d]
         /\ \A i \in DOMAIN s : i + d \in DOMAIN t /\ s[i] = t[i + d]
         /\ InOrder(t) => InOrder(s) /\ t[1].ts <= s[1].ts
         /\ Tells(t) => Tells(s)
<1> DEFINE n == Len(t)
<1>1. n \in Nat \ {0} /\ DOMAIN t = 1 .. n /\ d \in 0 .. n - 1 OBVIOUS
<1>2. Len(s) = n - d /\ DOMAIN s = 1 .. n - d /\ n - d \in 1 .. n BY <1>1
<1>3. \A i \in 1 .. n - d : i + d \in 1 .. n /\ s[i] = t[i + d] BY <1>1
<1>4. \A i \in DOMAIN t : t[i].ts \in Nat
  <2>1. \A i \in DOMAIN t : t[i] \in Transition BY <1>1
  <2> QED BY <2>1, ModelReadinessAssumption DEF Transition
<1> HIDE DEF n
<1>5. s # <<>> BY <1>2
<1>6. s[Len(s)] = t[n]
  <2>1. (n - d) + d = n BY <1>1
  <2> QED BY <1>2, <1>3, <2>1
<1>7. s[1] = t[1 + d] BY <1>2, <1>3
<1>8. ASSUME InOrder(t) PROVE InOrder(s) /\ t[1].ts <= s[1].ts
  <2>1. InOrder(s)
    <3> SUFFICES ASSUME NEW i \in 1 .. n - d, NEW j \in 1 .. n - d, i < j PROVE s[i].ts < s[j].ts
      BY <1>2 DEF InOrder
    <3>1. i + d \in DOMAIN t /\ j + d \in DOMAIN t /\ i + d < j + d BY <1>1, <1>3
    <3> QED BY <1>3, <1>8, <3>1 DEF InOrder
  <2>2. CASE d = 0 BY <1>1, <1>4, <1>7, <2>1, <2>2
  <2>3. CASE d # 0
    <3>1. 1 \in DOMAIN t /\ 1 + d \in DOMAIN t /\ 1 < 1 + d BY <1>1, <2>3
    <3>2. t[1].ts < t[1 + d].ts BY <1>8, <3>1 DEF InOrder
    <3> QED BY <1>4, <1>7, <2>1, <3>1, <3>2
  <2> QED BY <2>1, <2>2, <2>3
<1>9. ASSUME Tells(t) PROVE Tells(s)
  <2> SUFFICES ASSUME NEW i \in 1 .. n - d, NEW u \in 1 .. moment, s[i].ts < u,
                      \A j \in 1 .. n - d : i < j => u <= s[j].ts
               PROVE  past[u] = StateOf(s[i].reason)
    BY <1>2 DEF Tells
  <2>1. i + d \in DOMAIN t /\ s[i] = t[i + d] BY <1>1, <1>3
  <2>2. ASSUME NEW j \in DOMAIN t, i + d < j PROVE u <= t[j].ts
    <3> DEFINE k == j - d
    <3>1. k \in 1 .. n - d /\ i < k /\ k + d = j BY <1>1, <2>2
    <3> HIDE DEF k
    <3> QED BY <1>3, <3>1
  <2> QED BY <1>9, <2>1, <2>2 DEF Tells
<1> QED BY <1>1, <1>2, <1>3, <1>5, <1>6, <1>7, <1>8, <1>9 DEF n

(* The transitions of a history that goes on, before they are pruned. *)
LEMMA AppendTells ==
  ASSUME ReadinessInv, entry.reason # "none", entry.sampled < moment, NEW reason \in Reasons,
         NEW t, t = IF entry.reason = reason THEN entry.transitions
                    ELSE Append(entry.transitions, [ts |-> moment, reason |-> reason])
  PROVE  /\ t \in Seq(Transition) /\ t # <<>> /\ t[Len(t)].reason = reason
         /\ \A i \in DOMAIN t : t[i].ts <= moment
         /\ InOrder(t) /\ Tells(t) /\ t[1] = entry.transitions[1]
<1> DEFINE old == entry.transitions
           new == [ts |-> moment, reason |-> reason]
           n == Len(old)
<1>1. KeptTells(old) BY DEF ReadinessInv
<1>2. old \in Seq(Transition) /\ n \in Nat \ {0} /\ DOMAIN old = 1 .. n
  BY <1>1, EmptySeq DEF KeptTells
<1>3. moment \in 0 .. LastMoment /\ entry.sampled \in Nat /\ new \in Transition
  BY ModelReadinessAssumption DEF ReadinessInv, ReadinessTypes, Transition
<1>4. \A i \in 1 .. n : old[i].ts \in Nat /\ old[i].ts < moment
  <2>1. \A i \in 1 .. n : old[i] \in Transition BY <1>2
  <2>2. \A i \in 1 .. n : old[i].ts \in Nat BY <2>1, ModelReadinessAssumption DEF Transition
  <2> QED BY <1>1, <1>2, <1>3, <2>2 DEF KeptTells
<1>5. CASE entry.reason = reason
  <2>1. t = old BY <1>5
  <2>2. \A i \in 1 .. n : old[i].ts <= moment BY <1>3, <1>4
  <2> HIDE DEF old
  <2> QED BY <1>1, <1>2, <1>5, <2>1, <2>2 DEF KeptTells
<1>6. CASE entry.reason # reason
  <2>1. t = Append(old, new) BY <1>6
  <2> HIDE DEF old, new
  <2>2. /\ t \in Seq(Transition) /\ Len(t) = n + 1 /\ DOMAIN t = 1 .. n + 1
        /\ t[n + 1] = new /\ \A i \in 1 .. n : t[i] = old[i]
    <3>1. old \in Seq(Transition) /\ new \in Transition BY <1>2, <1>3
    <3>2. /\ Append(old, new) \in Seq(Transition) /\ Len(Append(old, new)) = n + 1
          /\ \A i \in 1 .. n : Append(old, new)[i] = old[i]
          /\ Append(old, new)[n + 1] = new
      BY <3>1, AppendProperties
    <3>3. t \in Seq(Transition) /\ Len(t) = n + 1 BY <2>1, <3>2
    <3>4. DOMAIN t = 1 .. n + 1 BY <3>3
    <3>5. t[n + 1] = new /\ \A i \in 1 .. n : t[i] = old[i] BY <2>1, <3>2
    <3> QED BY <3>3, <3>4, <3>5
  <2>3. new.ts = moment /\ new.reason = reason BY DEF new
  <2>4. \A i \in 1 .. n + 1 : i \in 1 .. n \/ i = n + 1 BY <1>2
  <2>5. InOrder(t)
    <3> SUFFICES ASSUME NEW i \in 1 .. n + 1, NEW j \in 1 .. n + 1, i < j PROVE t[i].ts < t[j].ts
      BY <2>2 DEF InOrder
    <3>1. i \in 1 .. n BY <1>2
    <3>2. CASE j \in 1 .. n BY <1>1, <1>2, <2>2, <3>1, <3>2 DEF KeptTells, InOrder
    <3>3. CASE j = n + 1 BY <1>4, <2>2, <2>3, <3>1, <3>3
    <3> QED BY <2>4, <3>2, <3>3
  <2>6. Tells(t)
    <3> SUFFICES ASSUME NEW i \in 1 .. n + 1, NEW u \in 1 .. moment, t[i].ts < u,
                        \A j \in 1 .. n + 1 : i < j => u <= t[j].ts
                 PROVE  past[u] = StateOf(t[i].reason)
      BY <2>2 DEF Tells
    <3>1. i # n + 1 BY <1>3, <2>2, <2>3
    <3>2. i \in 1 .. n BY <2>4, <3>1
    <3>3. \A j \in 1 .. n : i < j => u <= old[j].ts BY <1>2, <2>2
    <3> QED BY <1>1, <1>2, <2>2, <3>2, <3>3 DEF KeptTells, Tells
  <2>7. \A i \in 1 .. n + 1 : t[i].ts <= moment BY <1>3, <1>4, <2>2, <2>3, <2>4
  <2>8. t # <<>> /\ 1 \in 1 .. n BY <1>2, <2>2
  <2> QED BY <2>2, <2>3, <2>5, <2>6, <2>7, <2>8 DEF old
<1> QED BY <1>5, <1>6

LEMMA SampleKeepsHistory ==
  ASSUME ReadinessInv, NEW reason \in Reasons, Sample(reason)
  PROVE  ReadinessInv'
<1> USE ModelReadinessAssumption
<1> DEFINE expired == entry.reason # "none" /\ moment - entry.sampled > Window
           old == IF expired THEN NoEntry ELSE entry
           t == IF old.reason = reason THEN old.transitions
                ELSE Append(old.transitions, [ts |-> moment, reason |-> reason])
           since == IF StateOf(reason) # "blocked" THEN NotBlocked
                    ELSE IF old.since = NotBlocked THEN moment ELSE old.since
<1>1. /\ entry'.transitions = Prune(t) /\ entry'.since = since
      /\ entry'.sampled = moment /\ entry'.reason = reason
      /\ streak' = (IF old.reason = "none" THEN moment ELSE streak)
      /\ UNCHANGED <<moment, past>>
  BY DEF Sample
<1>2. /\ moment \in 0 .. LastMoment /\ streak \in 0 .. LastMoment /\ entry.sampled \in 0 .. LastMoment
      /\ past \in Seq(States) /\ Len(past) = moment
      /\ entry.since \in {NotBlocked} \cup 0 .. LastMoment
      /\ ReadinessTypes
  BY DEF ReadinessInv, ReadinessTypes
<1>3. reason # "none" BY DEF Reasons
<1>4. /\ t \in Seq(Transition) /\ t # <<>> /\ t[Len(t)].reason = reason
      /\ \A i \in DOMAIN t : t[i].ts <= moment
      /\ InOrder(t) /\ Tells(t)
      /\ streak' <= t[1].ts /\ (t[1].ts = streak' \/ t[1].ts < moment - Window)
      /\ streak' \in 0 .. LastMoment
  <2>1. CASE old.reason = "none"
    <3> DEFINE new == [ts |-> moment, reason |-> reason]
               e == <<>>
    <3>1. old = NoEntry BY <2>1 DEF ReadinessInv
    <3>2. t = Append(e, new)
      <4>1. old.reason # reason BY <1>3, <2>1
      <4>2. t = Append(old.transitions, new) BY <4>1
      <4>3. old.transitions = e BY <3>1 DEF NoEntry
      <4> QED BY <4>2, <4>3
    <3>3. new \in Transition /\ e \in Seq(Transition) BY <1>2, EmptySeq DEF Transition
    <3>4. new.ts = moment /\ new.reason = reason OBVIOUS
    <3>5. streak' = moment BY <1>1, <2>1
    <3>6. Len(e) = 0 OBVIOUS
    <3> HIDE DEF t, new, e
    <3>7. t \in Seq(Transition) /\ Len(t) = 0 + 1 /\ t[0 + 1] = new BY <3>2, <3>3, <3>6, AppendProperties
    <3>8. Len(t) = 1 /\ DOMAIN t = {1} /\ t[1] = new BY <3>7
    <3>9. t # <<>> /\ t[Len(t)].reason = reason /\ \A i \in DOMAIN t : t[i].ts <= moment
      <4>1. t # <<>> BY <3>8
      <4>2. t[Len(t)].reason = reason BY <3>4, <3>8
      <4>3. \A i \in DOMAIN t : t[i].ts = moment BY <3>4, <3>8
      <4>4. moment <= moment BY <1>2
      <4> QED BY <4>1, <4>2, <4>3, <4>4
    <3>10. InOrder(t) BY <3>8 DEF InOrder
    <3>11. Tells(t) BY <1>2, <3>4, <3>8 DEF Tells
    <3> QED BY <1>2, <3>4, <3>5, <3>7, <3>8, <3>9, <3>10, <3>11
  <2>2. CASE old.reason # "none"
    <3>1. old = entry /\ entry.reason # "none" BY <2>2 DEF NoEntry
    <3>2. entry.sampled < moment BY <3>1 DEF Sample
    <3>3. streak' = streak BY <1>1, <2>2
    <3>4. KeptBegins(entry.transitions) BY <3>1 DEF ReadinessInv
    <3>5. t = IF entry.reason = reason THEN entry.transitions
              ELSE Append(entry.transitions, [ts |-> moment, reason |-> reason])
      BY <3>1
    <3> HIDE DEF t
    <3>6. /\ t \in Seq(Transition) /\ t # <<>> /\ t[Len(t)].reason = reason
          /\ \A i \in DOMAIN t : t[i].ts <= moment
          /\ InOrder(t) /\ Tells(t) /\ t[1] = entry.transitions[1]
      BY <3>1, <3>2, <3>5, AppendTells
    <3>7. t[1].ts \in Nat
      <4>1. 1 \in DOMAIN t BY <3>6, EmptySeq
      <4>2. t[1] \in Transition BY <3>6, <4>1
      <4> QED BY <4>2 DEF Transition
    <3> QED BY <1>2, <3>2, <3>3, <3>4, <3>6, <3>7 DEF KeptBegins
  <2> QED BY <2>1, <2>2
<1> DEFINE s == Prune(t)
<1> HIDE DEF t
<1>5. PICK d \in 0 .. Len(t) - 1 :
        /\ s \in Seq(Transition) /\ Len(s) = Len(t) - d
        /\ \A i \in 1 .. Len(t) - d : s[i] = t[i + d]
        /\ d = 0 \/ t[1 + d].ts < moment - Window
  BY <1>2, <1>4, PruneKeeps
<1> HIDE DEF s
<1>6. /\ s # <<>> /\ s[Len(s)] = t[Len(t)] /\ s[1] = t[1 + d]
      /\ \A i \in DOMAIN s : i + d \in DOMAIN t /\ s[i] = t[i + d]
      /\ InOrder(s) /\ t[1].ts <= s[1].ts /\ Tells(s)
  BY <1>2, <1>4, <1>5, SuffixTells
<1>7. entry'.transitions = s BY <1>1 DEF s
<1>8. KeptTells(entry.transitions)'
  <2>1. \A i \in DOMAIN s : s[i].ts <= moment BY <1>4, <1>6
  <2>2. Tells(entry.transitions)' BY <1>1, <1>6, <1>7 DEF Tells
  <2>3. InOrder(entry.transitions)' BY <1>6, <1>7 DEF InOrder
  <2>4. s[Len(s)].reason = reason BY <1>4, <1>6
  <2> QED BY <1>1, <1>2, <1>5, <1>6, <1>7, <2>1, <2>2, <2>3, <2>4 DEF KeptTells
<1>9. KeptBegins(entry.transitions)'
  <2>1. 1 \in DOMAIN t /\ 1 \in DOMAIN s /\ t[1].ts \in Nat /\ s[1].ts \in Nat
    <3>1. 1 \in DOMAIN t /\ 1 \in DOMAIN s BY <1>4, <1>5, <1>6, EmptySeq
    <3>2. t[1] \in Transition /\ s[1] \in Transition BY <1>4, <1>5, <3>1
    <3> QED BY <3>1, <3>2 DEF Transition
  <2>2. d = 0 => s[1] = t[1] BY <1>6
  <2>3. s[1].ts = streak' \/ s[1].ts < moment - Window BY <1>4, <1>5, <1>6, <2>2
  <2>4. streak' <= s[1].ts BY <1>4, <1>6, <2>1
  <2> QED BY <1>1, <1>7, <2>3, <2>4 DEF KeptBegins
<1>10. since \in {NotBlocked} \cup 0 .. LastMoment BY <1>2 DEF NoEntry
<1>11. SinceTells'
  <2>1. (since = NotBlocked) <=> (StateOf(reason) # "blocked") BY <1>2 DEF NotBlocked, NoEntry
  <2>2. ASSUME since # NotBlocked
        PROVE  /\ streak' <= since /\ since <= moment
               /\ \A u \in 1 .. moment : u > since => past[u] = "blocked"
               /\ (since = streak' \/ past[since] # "blocked")
    <3>1. CASE old.reason = "none"
      <4>1. old.since = NotBlocked BY <3>1 DEF ReadinessInv, NoEntry
      <4>2. since = moment /\ streak' = moment BY <1>1, <2>1, <2>2, <3>1, <4>1
      <4> QED BY <1>2, <4>2
    <3>2. CASE old.reason # "none" /\ old.since # NotBlocked
      <4>1. old = entry /\ entry.reason # "none" BY <3>2 DEF NoEntry
      <4>2. SinceTells BY <4>1 DEF ReadinessInv
      <4>3. since = entry.since /\ streak' = streak BY <1>1, <2>1, <2>2, <3>2, <4>1
      <4> QED BY <3>2, <4>1, <4>2, <4>3 DEF SinceTells
    <3>3. CASE old.reason # "none" /\ old.since = NotBlocked
      <4>1. old = entry /\ entry.reason # "none" BY <3>3 DEF NoEntry
      <4>2. since = moment /\ streak' = streak BY <1>1, <2>1, <2>2, <3>3
      <4>3. StateOf(entry.reason) # "blocked" BY <3>3, <4>1 DEF ReadinessInv, SinceTells
      <4>4. entry.sampled < moment BY <4>1 DEF Sample
      <4>5. KeptTells(entry.transitions) /\ KeptBegins(entry.transitions) BY <4>1 DEF ReadinessInv
      <4> DEFINE k == entry.transitions
                 n == Len(k)
      <4>6. k \in Seq(Transition) /\ n \in Nat \ {0} /\ DOMAIN k = 1 .. n
        BY <4>5, EmptySeq DEF KeptTells
      <4> HIDE DEF k
      <4>7. k[n].ts <= entry.sampled /\ k[n].reason = entry.reason /\ k[1].ts <= entry.sampled
        BY <4>5, <4>6 DEF KeptTells, k
      <4>8. k[n].ts \in Nat /\ k[1].ts \in Nat
        <5>1. k[n] \in Transition /\ k[1] \in Transition BY <4>6
        <5> QED BY <5>1 DEF Transition
      <4>9. moment \in 1 .. moment /\ k[n].ts < moment BY <1>2, <4>4, <4>7, <4>8
      <4>10. past[moment] = StateOf(entry.reason)
        <5>1. Tells(k) BY <4>5 DEF KeptTells, k
        <5>2. n \in DOMAIN k /\ \A j \in DOMAIN k : ~(n < j) BY <4>6
        <5> QED BY <4>7, <4>9, <5>1, <5>2 DEF Tells
      <4>11. streak <= moment BY <1>2, <4>4, <4>5, <4>7, <4>8 DEF KeptBegins, k
      <4> QED BY <1>2, <4>2, <4>3, <4>10, <4>11
    <3> QED BY <3>1, <3>2, <3>3
  <2> HIDE DEF since
  <2> QED BY <1>1, <2>1, <2>2 DEF SinceTells
<1>12. ReadinessTypes' BY <1>1, <1>2, <1>4, <1>5, <1>7, <1>10 DEF ReadinessTypes
<1> QED BY <1>1, <1>3, <1>8, <1>9, <1>11, <1>12 DEF ReadinessInv

LEMMA TickKeepsHistory ==
  ASSUME ReadinessInv, ReadinessTick PROVE ReadinessInv'
<1> USE ModelReadinessAssumption
<1> DEFINE state == IF entry.reason = "none" THEN "none" ELSE StateOf(entry.reason)
           t == entry.transitions
<1>1. /\ moment \in Nat /\ moment < LastMoment /\ moment' = moment + 1
      /\ past \in Seq(States) /\ Len(past) = moment
      /\ past' = Append(past, state) /\ UNCHANGED <<entry, streak>>
  BY DEF ReadinessInv, ReadinessTypes, ReadinessTick
<1>2. state \in States BY DEF States, StateOf
<1>3. /\ past' \in Seq(States) /\ Len(past') = moment' /\ past'[moment'] = state
      /\ \A u \in 1 .. moment : past'[u] = past[u]
  <2> HIDE DEF state
  <2>1. /\ Append(past, state) \in Seq(States) /\ Len(Append(past, state)) = moment + 1
        /\ \A u \in 1 .. moment : Append(past, state)[u] = past[u]
        /\ Append(past, state)[moment + 1] = state
    BY <1>1, <1>2, AppendProperties
  <2> QED BY <1>1, <2>1
<1>4. ReadinessTypes'
  <2>1. moment' \in 0 .. LastMoment BY <1>1
  <2> QED BY <1>1, <1>3, <2>1 DEF ReadinessInv, ReadinessTypes
<1>5. ASSUME entry.reason # "none"
      PROVE  KeptTells(t)' /\ KeptBegins(t)' /\ SinceTells'
  <2>1. KeptTells(t) /\ KeptBegins(t) /\ SinceTells BY <1>5 DEF ReadinessInv
  <2>2. state = StateOf(entry.reason) BY <1>5
  <2>3. t' = t BY <1>1
  <2>4. t \in Seq(Transition) /\ Len(t) \in DOMAIN t /\ DOMAIN t = 1 .. Len(t) /\ Len(t) \in Nat
    BY <2>1, EmptySeq DEF KeptTells
  <2> HIDE DEF t, state
  <2>5. ASSUME NEW i \in DOMAIN t, NEW u \in 1 .. moment', t[i].ts < u,
               \A j \in DOMAIN t : i < j => u <= t[j].ts
        PROVE  past'[u] = StateOf(t[i].reason)
    <3>1. CASE u \in 1 .. moment BY <1>3, <2>1, <2>5, <3>1 DEF KeptTells, Tells
    <3>2. CASE u = moment'
      <4>1. t[Len(t)].ts \in Nat
        <5>1. t[Len(t)] \in Transition BY <2>4
        <5> QED BY <5>1 DEF Transition
      <4>2. t[Len(t)].ts <= moment
        <5>1. entry.sampled \in Nat BY DEF ReadinessInv, ReadinessTypes
        <5> QED BY <1>1, <2>1, <2>4, <4>1, <5>1 DEF KeptTells
      <4>3. ~(i < Len(t)) BY <1>1, <2>4, <2>5, <3>2, <4>1, <4>2
      <4>4. i = Len(t) BY <2>4, <4>3
      <4> QED BY <1>3, <2>1, <2>2, <3>2, <4>4 DEF KeptTells
    <3> QED BY <1>1, <3>1, <3>2
  <2>6. Tells(t)' BY <2>3, <2>5 DEF Tells
  <2>7. KeptTells(t)'
    <3>1. entry.sampled \in Nat BY DEF ReadinessInv, ReadinessTypes
    <3>2. entry.sampled <= moment' BY <1>1, <2>1, <3>1 DEF KeptTells
    <3> QED BY <1>1, <2>1, <2>3, <2>6, <3>2 DEF KeptTells, InOrder
  <2>8. KeptBegins(t)' BY <1>1, <2>1, <2>3 DEF KeptBegins
  <2>9. SinceTells'
    <3> SUFFICES ASSUME entry.since # NotBlocked
                 PROVE  /\ streak <= entry.since /\ entry.since <= moment'
                        /\ \A u \in 1 .. moment' : u > entry.since => past'[u] = "blocked"
                        /\ (entry.since = streak \/ past'[entry.since] # "blocked")
      BY <1>1, <2>1 DEF SinceTells
    <3>1. /\ streak <= entry.since /\ entry.since <= moment
          /\ \A u \in 1 .. moment : u > entry.since => past[u] = "blocked"
          /\ (entry.since = streak \/ past[entry.since] # "blocked")
          /\ StateOf(entry.reason) = "blocked"
      BY <2>1 DEF SinceTells
    <3>2. entry.since \in Nat /\ streak \in Nat
      BY DEF ReadinessInv, ReadinessTypes, NotBlocked
    <3>3. entry.since # streak => entry.since \in 1 .. moment BY <1>1, <3>1, <3>2
    <3>4. ASSUME NEW u \in 1 .. moment', u > entry.since PROVE past'[u] = "blocked"
      <4>1. CASE u \in 1 .. moment BY <1>3, <3>1, <3>4, <4>1
      <4>2. CASE u = moment' BY <1>3, <2>2, <3>1, <4>2
      <4> QED BY <1>1, <4>1, <4>2
    <3> QED BY <1>1, <1>3, <3>1, <3>2, <3>3, <3>4
  <2> QED BY <2>7, <2>8, <2>9
<1> QED BY <1>1, <1>4, <1>5 DEF ReadinessInv

LEMMA ReadinessKept ==
  ASSUME ReadinessInv, [ReadinessNext]_readinessVars PROVE ReadinessInv'
<1>1. CASE ClearCandidate
  <2>1. entry' = NoEntry /\ UNCHANGED <<moment, past, streak>> BY <1>1 DEF ClearCandidate
  <2>2. entry'.reason = "none" BY <2>1 DEF NoEntry
  <2>3. ReadinessTypes'
    BY <2>1, EmptySeq, ModelReadinessAssumption DEF ReadinessInv, ReadinessTypes, NoEntry, NotBlocked
  <2> QED BY <2>1, <2>2, <2>3 DEF ReadinessInv, NoEntry
<1>2. CASE UNCHANGED readinessVars
  BY <1>2 DEF readinessVars, ReadinessInv, ReadinessTypes, KeptTells, KeptBegins, SinceTells, InOrder, Tells
<1> QED BY <1>1, <1>2, SampleKeepsHistory, TickKeepsHistory DEF ReadinessNext

LEMMA MaxAtLeast ==
  ASSUME NEW a \in Int, NEW b \in Int
  PROVE  Max({a, b}) \in {a, b} /\ Max({a, b}) >= a /\ Max({a, b}) >= b
<1>1. \E x \in {a, b} : \A y \in {a, b} : x >= y
  <2>1. CASE a >= b BY <2>1
  <2>2. CASE b >= a BY <2>2
  <2> QED BY <2>1, <2>2
<1>2. Max({a, b}) \in {a, b} /\ \A y \in {a, b} : Max({a, b}) >= y BY <1>1 DEF Max
<1> QED BY <1>2

(* Until when what a transition says holds. *)
End(i) == IF i < Len(entry.transitions) THEN entry.transitions[i + 1].ts ELSE moment

Seen == {u \in 1 .. moment : u > streak /\ u > moment - Window}
Units(i) == {u \in Seen : entry.transitions[i].ts < u /\ u <= End(i)}
BlockedRuns == {i \in DOMAIN entry.transitions : StateOf(entry.transitions[i].reason) = "blocked"}

LEMMA HistoryTypes ==
  ASSUME ReadinessInv, entry.reason # "none"
  PROVE  LET t == entry.transitions
         IN /\ Len(t) \in Nat \ {0} /\ DOMAIN t = 1 .. Len(t)
            /\ \A i \in DOMAIN t : t[i].ts \in Nat /\ t[i].ts <= moment /\ streak <= t[i].ts
            /\ \A i \in DOMAIN t : End(i) \in Nat /\ End(i) <= moment /\ t[i].ts <= End(i)
            /\ \A i, j \in DOMAIN t : i < j => End(i) <= t[j].ts
            /\ moment \in Nat /\ streak \in Nat /\ streak <= moment
            /\ t[1].ts = streak \/ t[1].ts < moment - Window
<1> USE ModelReadinessAssumption
<1> DEFINE t == entry.transitions
           n == Len(t)
<1>1. KeptTells(t) /\ KeptBegins(t) BY DEF ReadinessInv
<1>2. n \in Nat \ {0} /\ DOMAIN t = 1 .. n BY <1>1, EmptySeq DEF KeptTells
<1>3. moment \in Nat /\ streak \in Nat /\ entry.sampled \in Nat BY DEF ReadinessInv, ReadinessTypes
<1> HIDE DEF n
<1>4. \A i \in 1 .. n : t[i].ts \in Nat
  <2>1. \A i \in 1 .. n : t[i] \in Transition BY <1>1, <1>2 DEF KeptTells
  <2> QED BY <2>1 DEF Transition
<1>5. \A i \in 1 .. n : t[i].ts <= moment BY <1>1, <1>2, <1>3, <1>4 DEF KeptTells
<1> HIDE DEF t
<1>6. \A i, j \in 1 .. n : i < j => t[i].ts < t[j].ts BY <1>1, <1>2 DEF KeptTells, InOrder
<1>7. \A i \in 1 .. n : t[1].ts <= t[i].ts
  <2> SUFFICES ASSUME NEW i \in 1 .. n PROVE t[1].ts <= t[i].ts OBVIOUS
  <2>1. 1 \in 1 .. n BY <1>2
  <2>2. CASE i = 1 BY <1>4, <2>2
  <2>3. CASE i # 1 BY <1>2, <1>4, <1>6, <2>1, <2>3
  <2> QED BY <2>2, <2>3
<1>8. \A i \in 1 .. n : streak <= t[i].ts
  <2>1. 1 \in 1 .. n BY <1>2
  <2>2. streak <= t[1].ts BY <1>1 DEF KeptBegins
  <2> QED BY <1>3, <1>4, <1>7, <2>1, <2>2
<1>9. \A i \in 1 .. n : End(i) = IF i < n THEN t[i + 1].ts ELSE moment BY DEF End, t, n
<1>10. \A i \in 1 .. n : End(i) \in Nat /\ End(i) <= moment /\ t[i].ts <= End(i)
  <2> SUFFICES ASSUME NEW i \in 1 .. n PROVE End(i) \in Nat /\ End(i) <= moment /\ t[i].ts <= End(i)
    OBVIOUS
  <2>1. CASE i < n
    <3>1. i + 1 \in 1 .. n BY <1>2, <2>1
    <3>2. t[i].ts < t[i + 1].ts BY <1>6, <3>1
    <3> QED BY <1>4, <1>5, <1>9, <2>1, <3>1, <3>2
  <2>2. CASE ~(i < n) BY <1>3, <1>5, <1>9, <2>2
  <2> QED BY <2>1, <2>2
<1>11. ASSUME NEW i \in 1 .. n, NEW j \in 1 .. n, i < j PROVE End(i) <= t[j].ts
  <2>1. i + 1 \in 1 .. n /\ i < n BY <1>2, <1>11
  <2>2. CASE j = i + 1 BY <1>4, <1>9, <2>1, <2>2
  <2>3. CASE j # i + 1
    <3>1. i + 1 < j BY <1>2, <1>11, <2>3
    <3>2. t[i + 1].ts < t[j].ts BY <1>6, <2>1, <3>1
    <3>3. End(i) = t[i + 1].ts BY <1>9, <2>1
    <3> QED BY <1>4, <2>1, <3>2, <3>3
  <2> QED BY <2>2, <2>3
<1>12. streak <= moment /\ (t[1].ts = streak \/ t[1].ts < moment - Window)
  <2>1. 1 \in 1 .. n BY <1>2
  <2>2. entry.sampled <= moment BY <1>1 DEF KeptTells
  <2>3. t[1].ts = streak \/ t[1].ts < entry.sampled - Window BY <1>1 DEF KeptBegins
  <2> QED BY <1>3, <1>4, <1>5, <1>8, <2>1, <2>2, <2>3
<1> QED BY <1>2, <1>3, <1>4, <1>5, <1>8, <1>10, <1>11, <1>12 DEF t, n

LEMMA BlockedTimeIsTrue ==
  ASSUME ReadinessInv, entry.reason # "none"
  PROVE  BlockedTime = Cardinality({u \in Seen : past[u] = "blocked"})
<1> USE ModelReadinessAssumption
<1> DEFINE t == entry.transitions
           n == Len(t)
           start == moment - Window
           part == [i \in BlockedRuns |-> Units(i)]
           inside == [i \in BlockedRuns |-> Max({0, End(i) - Max({t[i].ts, start})})]
<1>1. BlockedTime = SumFunctionOnSet(inside, BlockedRuns) BY DEF BlockedTime, BlockedRuns, End
<1>2. /\ n \in Nat \ {0} /\ DOMAIN t = 1 .. n
      /\ \A i \in DOMAIN t : t[i].ts \in Nat /\ t[i].ts <= moment /\ streak <= t[i].ts
      /\ \A i \in DOMAIN t : End(i) \in Nat /\ End(i) <= moment /\ t[i].ts <= End(i)
      /\ \A i, j \in DOMAIN t : i < j => End(i) <= t[j].ts
      /\ moment \in Nat /\ streak \in Nat /\ streak <= moment
      /\ t[1].ts = streak \/ t[1].ts < start
  BY HistoryTypes
<1>3. Tells(t) BY DEF ReadinessInv, KeptTells
<1>4. BlockedRuns \subseteq 1 .. n /\ IsFiniteSet(BlockedRuns)
  <2>1. IsFiniteSet(1 .. n) BY <1>2, FS_Interval
  <2>2. BlockedRuns \subseteq 1 .. n BY <1>2 DEF BlockedRuns
  <2> QED BY <2>1, <2>2, FS_Subset
<1>5. ASSUME NEW i \in 1 .. n
      PROVE  IsFiniteSet(Units(i)) /\ Cardinality(Units(i)) = Max({0, End(i) - Max({t[i].ts, start})})
  <2> DEFINE e == End(i)
             x == t[i].ts
             m == Max({x, start})
  <2>1. x \in Nat /\ start \in Int /\ e \in Nat /\ e <= moment /\ streak <= x BY <1>2
  <2>3. Units(i) = {u \in 1 .. moment : u > streak /\ u > start /\ x < u /\ u <= e}
    BY DEF Units, Seen
  <2> HIDE DEF e, x, start
  <2>2. m \in {x, start} /\ m >= x /\ m >= start
    <3>1. x \in Int /\ start \in Int BY <2>1
    <3> QED BY <3>1, MaxAtLeast, Zenon
  <2> HIDE DEF m
  <2>4. m \in Nat /\ \A u \in Int : m < u <=> start < u /\ x < u BY <2>1, <2>2
  <2>5. Units(i) = (m + 1) .. e
    <3>1. ASSUME NEW u \in 1 .. moment, u > streak, u > start, x < u, u <= e PROVE u \in (m + 1) .. e
      <4>1. u \in Int /\ start < u /\ x < u BY <1>2, <2>1, <3>1
      <4>2. m < u BY <2>4, <4>1
      <4> QED BY <2>1, <2>4, <3>1, <4>1, <4>2
    <3>2. ASSUME NEW u \in (m + 1) .. e
          PROVE  u \in 1 .. moment /\ u > streak /\ u > start /\ x < u /\ u <= e
      <4>1. u \in Int /\ m < u /\ u <= e BY <2>1, <2>4
      <4>2. start < u /\ x < u BY <2>4, <4>1
      <4> QED BY <1>2, <2>1, <2>4, <4>1, <4>2
    <3> QED BY <2>3, <3>1, <3>2
  <2>6. IsFiniteSet(Units(i)) /\ Cardinality(Units(i)) = IF m + 1 > e THEN 0 ELSE e - (m + 1) + 1
    BY <2>1, <2>4, <2>5, FS_Interval
  <2>7. Max({0, e - m}) = IF m + 1 > e THEN 0 ELSE e - (m + 1) + 1
    <3> DEFINE top == Max({0, e - m})
               low == e - m
    <3>1. low \in Int BY <2>1, <2>4
    <3> HIDE DEF low
    <3>2. 0 \in Int OBVIOUS
    <3>3. Max({0, low}) \in {0, low} /\ Max({0, low}) >= 0 /\ Max({0, low}) >= low
      BY <3>1, <3>2, MaxAtLeast, Zenon
    <3>4. top \in {0, e - m} /\ top >= 0 /\ top >= e - m BY <3>3 DEF low
    <3> HIDE DEF top
    <3>5. top = IF m + 1 > e THEN 0 ELSE e - (m + 1) + 1 BY <2>1, <2>4, <3>4
    <3> QED BY <3>5 DEF top
  <2> QED BY <2>6, <2>7 DEF m, e, x, start
<1>6. \A i \in BlockedRuns : IsFiniteSet(part[i]) /\ inside[i] = Cardinality(part[i])
  BY <1>4, <1>5
<1>7. \A i, j \in BlockedRuns : i # j => part[i] \cap part[j] = {}
  <2>1. ASSUME NEW i \in 1 .. n, NEW j \in 1 .. n, i < j PROVE Units(i) \cap Units(j) = {}
    <3> SUFFICES ASSUME NEW u \in Units(i), u \in Units(j) PROVE FALSE OBVIOUS
    <3>1. u \in Nat /\ u <= End(i) /\ t[j].ts < u BY DEF Units, Seen
    <3>2. End(i) <= t[j].ts /\ End(i) \in Nat /\ t[j].ts \in Nat BY <1>2, <2>1
    <3> QED BY <3>1, <3>2
  <2> SUFFICES ASSUME NEW i \in BlockedRuns, NEW j \in BlockedRuns, i # j
               PROVE  Units(i) \cap Units(j) = {}
    OBVIOUS
  <2>2. i < j \/ j < i BY <1>2, <1>4
  <2> QED BY <1>4, <2>1, <2>2
<1>8. \A u : u \in {v \in Seen : past[v] = "blocked"} <=> \E i \in BlockedRuns : u \in part[i]
  <2>1. ASSUME NEW i \in 1 .. n, NEW u \in Units(i) PROVE past[u] = StateOf(t[i].reason)
    <3>1. u \in 1 .. moment /\ t[i].ts < u /\ u <= End(i) BY DEF Units, Seen
    <3>2. ASSUME NEW j \in 1 .. n, i < j PROVE u <= t[j].ts
      <4>1. End(i) <= t[j].ts /\ End(i) \in Nat /\ t[j].ts \in Nat BY <1>2, <3>2
      <4> QED BY <3>1, <4>1
    <3> QED BY <1>2, <1>3, <3>1, <3>2 DEF Tells
  <2>2. ASSUME NEW i \in BlockedRuns, NEW u \in Units(i) PROVE u \in Seen /\ past[u] = "blocked"
    BY <1>4, <2>1, <2>2 DEF Units, BlockedRuns
  <2>3. ASSUME NEW u \in Seen, past[u] = "blocked" PROVE \E i \in BlockedRuns : u \in Units(i)
    <3> DEFINE J == {i \in 1 .. n : t[i].ts < u}
               i == LastOf(J)
    <3>1. u \in 1 .. moment /\ u > streak /\ u > start BY DEF Seen
    <3>2. 1 \in J
      <4>1. 1 \in 1 .. n /\ t[1].ts \in Nat BY <1>2
      <4> QED BY <1>2, <3>1, <4>1
    <3>3. IsFiniteSet(J) /\ J \subseteq Nat
      <4>1. IsFiniteSet(1 .. n) BY <1>2, FS_Interval
      <4> QED BY <1>2, <4>1, FS_Subset
    <3>4. i \in J /\ \A k \in J : k <= i
      <4> HIDE DEF J
      <4> QED BY <3>2, <3>3, LastIn
    <3> HIDE DEF i
    <3>5. i \in 1 .. n /\ t[i].ts < u BY <3>4
    <3>6. u <= End(i)
      <4>1. CASE i < n
        <5>1. i + 1 \in 1 .. n /\ End(i) = t[i + 1].ts BY <1>2, <3>5, <4>1 DEF End
        <5>2. ~(t[i + 1].ts < u)
          <6> SUFFICES ASSUME t[i + 1].ts < u PROVE FALSE OBVIOUS
          <6>1. i + 1 <= i BY <3>4, <5>1
          <6> QED BY <3>5, <6>1
        <5>3. t[i + 1].ts \in Nat BY <1>2, <5>1
        <5> QED BY <3>1, <5>1, <5>2, <5>3
      <4>2. CASE ~(i < n)
        <5>1. End(i) = moment BY <4>2 DEF End
        <5> QED BY <1>2, <3>1, <5>1
      <4> QED BY <4>1, <4>2
    <3>7. u \in Units(i) BY <3>5, <3>6 DEF Units
    <3>8. StateOf(t[i].reason) = "blocked" BY <2>1, <2>3, <3>5, <3>7
    <3>9. i \in BlockedRuns BY <1>2, <3>5, <3>8 DEF BlockedRuns
    <3> QED BY <3>7, <3>9
  <2> QED BY <2>2, <2>3
<1> HIDE DEF part, inside
<1> DEFINE whole == {u \in Seen : past[u] = "blocked"}
<1>9. SumFunctionOnSet(inside, BlockedRuns) = Cardinality(whole)
  <2>1. \A u : u \in whole <=> \E x \in BlockedRuns : u \in part[x] BY <1>8
  <2> HIDE DEF whole
  <2>2. IsFiniteSet(BlockedRuns) BY <1>4
  <2>3. Partition(BlockedRuns, part, inside, whole) BY <1>6, <1>7, <2>1 DEF Partition
  <2> QED BY <2>2, <2>3, SumOfParts
<1> QED BY <1>1, <1>9

(* What is taken for observed is what was seen within the window. *)
LEMMA ObservedSpanIsTrue ==
  ASSUME ReadinessInv, entry.reason # "none"
  PROVE  ObservedSpan = Cardinality(Seen)
<1> USE ModelReadinessAssumption
<1> DEFINE first == entry.transitions[1].ts
           start == moment - Window
           low == IF streak >= start THEN streak ELSE start
           age == moment - first
<1>1. /\ moment \in Nat /\ streak \in Nat /\ streak <= moment
      /\ first \in Nat /\ first <= moment /\ streak <= first /\ (first = streak \/ first < start)
  <2>1. 1 \in DOMAIN entry.transitions BY HistoryTypes
  <2> QED BY <2>1, HistoryTypes
<1>2. ObservedSpan = Min({Window, age}) BY DEF ObservedSpan
<1>3. Seen = {u \in 1 .. moment : u > streak /\ u > start} BY DEF Seen
<1>4. start \in Int /\ start = moment - Window /\ start < moment BY <1>1
<1> HIDE DEF first, start
<1>5. low \in Nat /\ low <= moment /\ \A u \in Int : low < u <=> streak < u /\ start < u
  BY <1>1, <1>4
<1> HIDE DEF low
<1>6. Seen = (low + 1) .. moment
  <2>1. ASSUME NEW u \in 1 .. moment, u > streak, u > start PROVE u \in (low + 1) .. moment
    BY <1>1, <1>5, <2>1
  <2>2. ASSUME NEW u \in (low + 1) .. moment PROVE u \in 1 .. moment /\ u > streak /\ u > start
    <3>1. u \in Int /\ low < u BY <1>1, <1>5
    <3>2. streak < u /\ start < u BY <1>5, <3>1
    <3> QED BY <1>1, <1>4, <1>5, <3>1, <3>2
  <2> QED BY <1>3, <2>1, <2>2
<1>7. Cardinality(Seen) = moment - low
  <2>1. Cardinality((low + 1) .. moment) = IF low + 1 > moment THEN 0 ELSE moment - (low + 1) + 1
    BY <1>1, <1>5, FS_Interval
  <2> QED BY <1>1, <1>5, <1>6, <2>1
<1>8. moment - low \in {Window, age} /\ moment - low <= Window /\ moment - low <= age
  BY <1>1, <1>4 DEF low
<1>9. Min({Window, age}) = moment - low
  <2> DEFINE w == Window
             x == moment - low
  <2>1. w \in Int /\ x \in Int /\ age \in Int BY <1>1, <1>5
  <2>2. x \in {w, age} /\ x <= w /\ x <= age BY <1>8
  <2> HIDE DEF age, w, x
  <2>3. \A y \in {w, age} : y \in Int /\ (y # x => ~(\A z \in {w, age} : y <= z)) BY <2>1, <2>2
  <2>4. \A z \in {w, age} : x <= z BY <2>2
  <2>5. Min({w, age}) = x BY <2>2, <2>3, <2>4 DEF Min
  <2> QED BY <2>5 DEF w, x
<1> QED BY <1>2, <1>7, <1>9

(* Blocked without a break for the limit is what the last run of samples says. *)
LEMMA SinceIsTrue ==
  ASSUME ReadinessInv, entry.reason = "session_memory"
  PROVE  /\ entry.since # NotBlocked
         /\ moment - entry.since >= WarmLimit
              <=> /\ \A u \in 1 .. moment : u > moment - WarmLimit => u > streak /\ past[u] = "blocked"
                  /\ moment >= WarmLimit
<1> USE ModelReadinessAssumption
<1> DEFINE since == entry.since
           unbroken == \A u \in 1 .. moment : u > moment - WarmLimit => u > streak /\ past[u] = "blocked"
<1>1. SinceTells BY DEF ReadinessInv
<1>2. StateOf(entry.reason) = "blocked" BY DEF StateOf
<1>3. since # NotBlocked BY <1>1, <1>2 DEF SinceTells
<1>4. moment \in Nat /\ since \in Nat /\ streak \in Nat /\ WarmLimit \in Nat
  BY <1>3 DEF ReadinessInv, ReadinessTypes
<1>5. /\ streak <= since /\ since <= moment
      /\ \A u \in 1 .. moment : u > since => past[u] = "blocked"
      /\ (since = streak \/ past[since] # "blocked")
  BY <1>1, <1>3 DEF SinceTells
<1> HIDE DEF since
<1>6. ASSUME moment - since >= WarmLimit PROVE unbroken /\ moment >= WarmLimit
  <2>1. moment >= WarmLimit BY <1>4, <1>6
  <2>2. ASSUME NEW u \in 1 .. moment, u > moment - WarmLimit PROVE u > streak /\ past[u] = "blocked"
    <3>1. u > since BY <1>4, <1>6, <2>2
    <3> QED BY <1>4, <1>5, <3>1
  <2> QED BY <2>1, <2>2
<1>7. ASSUME unbroken, moment >= WarmLimit PROVE moment - since >= WarmLimit
  <2> SUFFICES ASSUME moment - since < WarmLimit PROVE FALSE BY <1>4
  <2>1. since \in 1 .. moment /\ since > moment - WarmLimit BY <1>4, <1>5, <1>7
  <2>2. since > streak /\ past[since] = "blocked" BY <1>7, <2>1
  <2> QED BY <1>4, <1>5, <2>2
<1> QED BY <1>3, <1>6, <1>7 DEF since

LEMMA DivertsAsSeen ==
  ASSUME ReadinessInv PROVE DivertsOnTrueHistory
<1> SUFFICES ASSUME entry.reason = "session_memory"
             PROVE  LET seen == {u \in 1 .. moment : u > streak /\ u > moment - Window}
                        blocked == {u \in seen : past[u] = "blocked"}
                        unbroken == \A u \in 1 .. moment :
                                      u > moment - WarmLimit => u > streak /\ past[u] = "blocked"
                    IN ShouldDivert <=>
                         \/ unbroken /\ moment >= WarmLimit
                         \/ Cardinality(seen) >= Max({1, WarmLimit})
                               /\ Cardinality(blocked) * 100 >= RatioPercent * Cardinality(seen)
  BY DEF DivertsOnTrueHistory
<1> DEFINE blocked == {u \in Seen : past[u] = "blocked"}
           unbroken == \A u \in 1 .. moment :
                         u > moment - WarmLimit => u > streak /\ past[u] = "blocked"
<1>1. ObservedSpan = Cardinality(Seen) BY ObservedSpanIsTrue
<1>2. BlockedTime = Cardinality(blocked) BY BlockedTimeIsTrue
<1>3. entry.since # NotBlocked /\ (moment - entry.since >= WarmLimit <=> unbroken /\ moment >= WarmLimit)
  BY SinceIsTrue
<1>4. WaitLimit = WarmLimit BY DEF WaitLimit
<1> HIDE DEF blocked, unbroken
<1>5. ShouldDivert <=>
        \/ unbroken /\ moment >= WarmLimit
        \/ Cardinality(Seen) >= Max({1, WarmLimit})
              /\ Cardinality(blocked) * 100 >= RatioPercent * Cardinality(Seen)
  BY <1>1, <1>2, <1>3, <1>4 DEF ShouldDivert
<1> QED BY <1>5 DEF Seen, blocked, unbroken

(* The record of a warm model's readiness keeps its type. *)
THEOREM RecordIsTyped == ReadinessSpec => []ReadinessTypeOK
<1>1. ReadinessInv /\ [ReadinessNext]_readinessVars => ReadinessInv' BY ReadinessKept
<1>2. ReadinessInv => ReadinessTypeOK BY ReadinessTypesAre DEF ReadinessInv
<1> QED BY <1>1, <1>2, ReadinessInitial, PTL DEF ReadinessSpec

(* For any window, limits and history of samples, however far apart: the router
   gives up on a warm model that is short of memory exactly when the samples say
   so, whatever pruning has dropped (kv_affinity.py:534-719). *)
THEOREM HistoryIsTrue == ReadinessSpec => []DivertsOnTrueHistory
<1>1. ReadinessInv /\ [ReadinessNext]_readinessVars => ReadinessInv' BY ReadinessKept
<1>2. ReadinessInv => DivertsOnTrueHistory BY DivertsAsSeen
<1> QED BY <1>1, <1>2, ReadinessInitial, PTL DEF ReadinessSpec
==============================================================================
