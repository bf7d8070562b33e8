-------------------------- MODULE ResourceMonitor --------------------------
(***************************************************************************)
(* One resource whose free capacity is measured, by a command or by        *)
(* asking the peer that owns it (core/resource_monitor.py,                 *)
(* core/peer_resources.py, core/resource.py 90-297 and 347-369), with its  *)
(* reservations, and one sensor with a threshold.  The periodic poll and   *)
(* the refresh before a dispatch each await their own probe, so probes of  *)
(* one resource overlap and reservations are made meanwhile.               *)
(***************************************************************************)
EXTENDS Integers, FiniteSets, Functions

CONSTANTS
    Consumers,   \* consumer ids that reserve
    Capacity,    \* the limit of the metric
    Probers,     \* "poll", "dispatch": concurrent refreshes
    MaxProbes,   \* bound: observations recorded
    Cooldown,    \* of the sensor's reaction, in readings' time
    MaxReadings      \* bound: sensor readings

ASSUME ResourceMonitorAssumption ==
    /\ Capacity \in Nat /\ MaxProbes \in Nat /\ Cooldown \in Nat /\ MaxReadings \in Nat
    /\ IsFiniteSet(Consumers)

VARIABLES
    source,       \* how this resource is configured: "command" or "peer"
    availability, \* last observation: its source, status and free capacity
    generation,   \* observations recorded so far
    reserved,     \* per consumer: its amount and the generation it followed
    probing,      \* per prober: a probe is awaited
    capability,   \* the cached answer to "is this provider a peer"
    lastProbe,    \* history: how the last probe that completed went
    now, lastReaction, recovered, \* the sensor's clock, reaction and history
    released      \* history: the last reading triggered the reactions

observedVars == <<source, availability, generation, reserved, probing, capability, lastProbe>>
sensorVars   == <<now, lastReaction, recovered, released>>
monitorVars  == <<observedVars, sensorVars>>

Never == -Cooldown
Estimated == [source |-> "estimated", status |-> "ok", free |-> 0]

MonitorTypeOK ==
    /\ source \in {"command", "peer"}
    /\ availability \in [source : {"estimated", "command", "peer"}, status : {"ok", "error"},
                         free : 0 .. Capacity]
    /\ generation \in 0 .. MaxProbes
    /\ reserved \in [Consumers -> [amount : 0 .. Capacity, after : 0 .. MaxProbes]]
    /\ probing \in [Probers -> BOOLEAN]
    /\ capability \in {"unknown", "peer", "not_peer"}
    /\ lastProbe \in {"none", "ok", "failed", "not_peer"}
    /\ now \in 0 .. MaxReadings /\ lastReaction \in Never .. MaxReadings
    /\ recovered \in BOOLEAN /\ released \in BOOLEAN

MonitorInit ==
    /\ source \in {"command", "peer"}
    /\ availability = Estimated
    /\ generation = 0
    /\ reserved = [c \in Consumers |-> [amount |-> 0, after |-> 0]]
    /\ probing = [p \in Probers |-> FALSE]
    /\ capability = "unknown" /\ lastProbe = "none"
    /\ now = 0 /\ lastReaction = Never /\ recovered = FALSE /\ released = FALSE

-----------------------------------------------------------------------------
\* What a reservation may count on.

Total(S) == SumFunctionOnSet([c \in Consumers |-> reserved[c].amount], S)

\* Observed capacity less the reservations made after that observation.
ObservedAvailable ==
    availability.free - Total({c \in Consumers : reserved[c].after >= generation})

Measured == availability.source \in {"command", "peer"} /\ availability.status = "ok"

IsAvailable(need) ==
    IF Measured THEN need <= ObservedAvailable
    ELSE source # "command" /\ availability.source # "peer" /\ Total(Consumers) + need <= Capacity

\* An amount is added under the generation of the latest observation.
Reserve(c, need) ==
    /\ need > 0 /\ reserved[c].amount = 0
    /\ IsAvailable(need)
    /\ reserved' = [reserved EXCEPT ![c] = [amount |-> need, after |-> generation]]
    /\ UNCHANGED <<source, availability, generation, probing, capability, lastProbe, sensorVars>>

ReleaseReserved(c) ==
    /\ reserved[c].amount > 0
    /\ reserved' = [reserved EXCEPT ![c] = [amount |-> 0, after |-> 0]]
    /\ UNCHANGED <<source, availability, generation, probing, capability, lastProbe, sensorVars>>

-----------------------------------------------------------------------------
\* A refresh of the availability, by the poll loop or before a dispatch.

RecordObserved(free) ==
    /\ generation < MaxProbes
    /\ generation' = generation + 1
    /\ availability' = [source |-> source, status |-> "ok", free |-> free]
    /\ lastProbe' = "ok"

\* Mutant of RecordError: the old reading still counts.
RecordErrorKeepsOk ==
    /\ lastProbe' = "failed"
    /\ UNCHANGED <<availability, generation>>

\* The previous reading is kept for display.
RecordError ==
    /\ availability' = [availability EXCEPT !.source = source, !.status = "error"]
    /\ lastProbe' = "failed"
    /\ UNCHANGED generation

\* Back to the estimate, when what failed was a probe of a peer.
ClearPeerFailure ==
    /\ availability' = IF availability.status = "error" /\ availability.source = "peer"
                       THEN Estimated ELSE availability
    /\ lastProbe' = "not_peer"
    /\ UNCHANGED generation

\* refresh_required_availability, run before a dispatch, skips peers; a metric
\* or unit that does not match the limits is an error without a command run.
StartProbe(p) ==
    /\ ~probing[p]
    /\ p = "dispatch" => source = "command"
    /\ \/ source = "command" \/ capability # "not_peer"
    /\ probing' = [probing EXCEPT ![p] = TRUE]
    /\ UNCHANGED <<source, availability, generation, reserved, capability, lastProbe, sensorVars>>

\* A provider cached as no peer is not asked again.
ProbeKnownNonPeer(p) ==
    /\ ~probing[p] /\ p # "dispatch"
    /\ source = "peer" /\ capability = "not_peer"
    /\ ClearPeerFailure
    /\ UNCHANGED <<source, reserved, probing, capability, sensorVars>>

\* The probe's command printed a reading per device, or the peer answered 200
\* with the schema and matching units; the number is as old as the probe.
ProbeSucceeds(p, free) ==
    /\ probing[p]
    /\ probing' = [probing EXCEPT ![p] = FALSE]
    /\ RecordObserved(free)
    /\ capability' = IF source = "peer" THEN "peer" ELSE capability
    /\ UNCHANGED <<source, reserved, sensorVars>>

\* Timeout, exit status, unreadable output; a peer's 401, 5xx, bad units (those
\* after the schema matched).
ProbeFails(p) ==
    /\ probing[p]
    /\ probing' = [probing EXCEPT ![p] = FALSE]
    /\ RecordError
    /\ capability' \in IF source = "peer" THEN {capability, "peer"} ELSE {capability}
    /\ UNCHANGED <<source, reserved, sensorVars>>

\* 404 on both routes, no JSON, or another schema.
ProbeFindsNonPeer(p) ==
    /\ probing[p] /\ source = "peer"
    /\ probing' = [probing EXCEPT ![p] = FALSE]
    /\ ClearPeerFailure
    /\ capability' = "not_peer"
    /\ UNCHANGED <<source, reserved, sensorVars>>

\* A new configuration forgets who is no peer.
SetFullConfig ==
    /\ capability # "unknown"
    /\ capability' = "unknown"
    /\ UNCHANGED <<source, availability, generation, reserved, probing, lastProbe, sensorVars>>

-----------------------------------------------------------------------------
\* The sensor.

\* Mutant of PollSensor: no cooldown.
PollSensorEagerly(alert) ==
    /\ now < MaxReadings
    /\ now' = now + 1
    /\ recovered' = ~alert
    /\ released' = alert
    /\ lastReaction' = IF alert THEN now' ELSE Never
    /\ UNCHANGED observedVars

\* A reading at or past the threshold triggers the reactions unless the last
\* ones are more recent than the cooldown; one within it ends the alert.
PollSensor(alert) ==
    /\ now < MaxReadings
    /\ now' = now + 1
    /\ recovered' = ~alert
    /\ IF ~alert THEN lastReaction' = Never /\ released' = FALSE
       ELSE LET due == now' - lastReaction >= Cooldown
            IN /\ lastReaction' = IF due THEN now' ELSE lastReaction
               /\ released' = due
    /\ UNCHANGED observedVars

\* The command failed: the sensor's state becomes an error, no reaction.
PollSensorFails ==
    /\ now < MaxReadings
    /\ now' = now + 1
    /\ released' = FALSE
    /\ UNCHANGED <<observedVars, lastReaction, recovered>>

MonitorNext ==
    \/ \E c \in Consumers, need \in 1 .. Capacity : Reserve(c, need)
    \/ \E c \in Consumers : ReleaseReserved(c)
    \/ \E p \in Probers :
          \/ StartProbe(p) \/ ProbeKnownNonPeer(p) \/ ProbeFails(p) \/ ProbeFindsNonPeer(p)
          \/ \E free \in 0 .. Capacity : ProbeSucceeds(p, free)
    \/ SetFullConfig
    \/ \E alert \in BOOLEAN : PollSensor(alert)
    \/ PollSensorFails

MonitorSpec == MonitorInit /\ [][MonitorNext]_monitorVars

-----------------------------------------------------------------------------
\* Properties.

\* All that was admitted against one observation fits into it, whatever was
\* reserved, released or observed before.
AdmittedFitsObservation ==
    Measured => Total({c \in Consumers : reserved[c].after = generation}) <= availability.free

\* Nothing is admitted on an old reading after a probe has failed, until a
\* probe succeeds or finds that there is no peer to ask.
FailedProbeBlocks ==
    [][lastProbe = "failed" => \A c \in Consumers : reserved'[c].amount <= reserved[c].amount]_monitorVars

\* What is admitted rests on the last probe, in whatever order probes end.
AdmissionFollowsProbes == []AdmittedFitsObservation /\ FailedProbeBlocks

\* The reactions of an alert start at once after a recovery and are then at
\* least the cooldown apart.
ReactionsArePaced ==
    [][/\ released' /\ now' # now => recovered \/ now' - lastReaction >= Cooldown
       /\ recovered /\ ~recovered' => released']_monitorVars
=============================================================================
