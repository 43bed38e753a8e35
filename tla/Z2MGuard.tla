------------------------------ MODULE Z2MGuard ------------------------------
(***************************************************************************)
(* The Zigbee2MQTT recovery guard of a dedicated Coordinator hub           *)
(* (z2m_guard.py with rcp_readiness.py), together with everything it acts  *)
(* on: the Supervisor add-on, the relay that owns the radio, the broker's  *)
(* <base_topic>/bridge/state topic and Home Assistant restarts.            *)
(*                                                                         *)
(* async_tick holds one lock over many awaits.  pc names the await the     *)
(* tick is suspended at, so the add-on, the hub, the broker and the user   *)
(* may all move between two steps of one tick; what the tick read earlier  *)
(* (info, snap) may then be stale.  A step runs from one await to the      *)
(* next.  The except branch of _loop ("hstop", "hpublish") runs without    *)
(* the lock.  async_configure holds the same lock over its own awaits,     *)
(* which dialog names: what it has set in memory, stored and shown differs *)
(* from one to the next.                                                   *)
(*                                                                         *)
(* A command whose answer nobody waits for any more - it timed out, or the *)
(* task that sent it was cancelled by a reload - may still be obeyed: it   *)
(* is in late until it is, or for ever.                                    *)
(*                                                                         *)
(* Bounds: MaxFaults caps the number of environment faults and operator    *)
(* interventions of a behaviour, FaultKinds says which kinds occur, and    *)
(* MaxInbox caps the undelivered bridge/state messages.                    *)
(***************************************************************************)
EXTENDS Naturals, Sequences

CONSTANTS
  MaxAttempts,  \* MAX_ATTEMPTS, the RCP restarts of one series
  FaultKinds,   \* the kinds of fault this instance lets happen
  MaxFaults,    \* bound on the number of faults
  MaxInbox      \* bound on undelivered bridge/state messages

AllFaultKinds ==
  {"hub", "relay", "mqtt", "crash", "start", "stop", "client", "command",
   "configure", "reload"}

ASSUME GuardConstants ==
  /\ MaxAttempts \in Nat \ {0}
  /\ FaultKinds \subseteq AllFaultKinds
  /\ MaxFaults \in Nat
  /\ MaxInbox \in Nat \ {0}

NoRuntime == 0          \* Python's None for a relay identity
NoSnapshot == [runtime |-> NoRuntime, connections |-> 0]

VARIABLES
  enabled, paused,      \* settings, in memory
  stored,               \* the settings in the HA store
  phase,                \* the published phase
  bridge_online, allow_online, online_since_start,
  pending, reset_done, probe_runtime_id, candidate,
  settled,              \* POLL_SECONDS have passed since _candidate_since
  started_at,           \* "none", "waiting" or "expired" (START_TIMEOUT passed)
  attempts,
  retry_at,             \* TRUE while now < _retry_at
  runtime_id,
  fresh_boot,           \* boot_id differs from the boot the hub is in
  validated,            \* _validated_slug is the configured add-on
  subscribed,           \* _unsubscribe is set
  dialog                \* the await async_configure is suspended at

VARIABLES
  pc,                   \* the await the loop is suspended at
  why,                  \* which caller of _ensure_stopped is waiting
  info,                 \* add-on state in the tick's info record
  snap                  \* [runtime, connections] of the tick's snapshot

VARIABLES
  addon,                \* Supervisor's add-on state
  z2m,                  \* "down", "linked" (TCP session on the relay), "online"
  other,                \* another client has one
  probe_socket,         \* the closed probe still counts as one
  hub_ready,            \* the hub answers and meets every prerequisite
  relay,                \* identity of the running relay, never reused
  mqtt_up,              \* HA is connected to the broker
  retained,             \* retained bridge/state: "none", "online", "offline"
  inbox,                \* bridge/state messages on their way to HA, in order
  late,                 \* commands nobody waits for that may yet be obeyed
  faults                \* faults left

VARIABLES               \* history, read by properties only
  probed,               \* relay this guard's last successful probe talked to
  spent,                \* FALSE after an RCP restart of this guard, until it
                        \* issues a start
  announced,            \* Zigbee2MQTT published online since seen stopped
  user_stop,            \* the user stopped a verified Zigbee2MQTT
  stray                 \* a start the guard did not wait for: "on" from the
                        \* start to the stop, then "over" until the radio is
                        \* restarted with the add-on stopped, else "no"

settings == <<enabled, paused, stored>>
flow     == <<subscribed, dialog>>
ack      == <<bridge_online, allow_online, online_since_start>>
recovery == <<pending, reset_done, probe_runtime_id, candidate, settled,
              started_at>>
series   == <<attempts, retry_at, runtime_id, fresh_boot>>
tick     == <<why, info, snap>>
hub      == <<z2m, other, probe_socket, hub_ready, relay>>
broker   == <<mqtt_up, retained, inbox>>
config   == <<settings, validated, flow>>
memory   == <<ack, recovery, series>>
world    == <<addon, hub, broker, late>>
history  == <<probed, spent, announced, user_stop, stray>>

vars == <<settings, phase, ack, recovery, series, validated, flow, pc, tick,
          addon, hub, broker, late, faults, history>>

Phases == {"disabled", "fault", "paused", "waiting", "stopping", "running",
           "starting", "preparing", "stabilizing", "probing", "handover"}
Places == {"idle", "own", "snapshot", "save_pause", "publish", "stop", "verify",
           "reset", "recheck", "probe", "after", "start", "hstop", "hpublish"}
Dialogs == {"none", "check", "save", "subscribe", "own", "undo"}
Callers == {"none", "mqtt", "paused", "hub_lost", "transport", "bridge",
            "timeout", "prepare", "user_stop"}
Messages == {"online", "online_retained", "offline"}
Settings == [enabled : BOOLEAN, paused : BOOLEAN]

Connections == (IF z2m # "down" THEN 1 ELSE 0) + (IF other THEN 1 ELSE 0)
                 + (IF probe_socket THEN 1 ELSE 0)

Ready == phase = "running" /\ bridge_online

\* The lock of async_tick and async_configure is free.
LockFree == pc \in {"idle", "hstop", "hpublish"} /\ dialog = "none"

Fault(kind) == /\ kind \in FaultKinds
               /\ faults > 0
               /\ faults' = faults - 1

\* What a new subscription delivers: the retained message, marked as such.
Retained == IF retained = "none" THEN <<>>
            ELSE IF retained = "online" THEN <<"online_retained">>
            ELSE <<"offline">>
Redelivery == IF mqtt_up THEN Retained ELSE <<>>

Init ==
  /\ enabled = TRUE /\ paused = FALSE
  /\ stored = [enabled |-> TRUE, paused |-> FALSE]
  /\ phase = "disabled"
  /\ bridge_online = FALSE /\ allow_online = FALSE /\ online_since_start = FALSE
  /\ pending = TRUE /\ reset_done = FALSE
  /\ probe_runtime_id = NoRuntime /\ candidate = NoRuntime
  /\ settled = FALSE /\ started_at = "none"
  /\ attempts = 0 /\ retry_at = FALSE
  /\ runtime_id = NoRuntime /\ fresh_boot = TRUE /\ validated = FALSE
  /\ pc = "idle" /\ why = "none" /\ info = "stopped"
  /\ snap = NoSnapshot
  /\ addon \in {"stopped", "started"}
  /\ z2m = "down" /\ other = FALSE /\ probe_socket = FALSE
  /\ hub_ready \in BOOLEAN /\ relay = 1
  /\ mqtt_up = TRUE /\ retained \in {"none", "online"}
  /\ inbox = Redelivery
  /\ subscribed = TRUE /\ dialog = "none" /\ late = {}
  /\ faults = MaxFaults
  /\ probed = NoRuntime /\ spent = TRUE /\ announced = FALSE
  /\ user_stop = FALSE /\ stray = "no"

-----------------------------------------------------------------------------
(* Pieces of handlers.                                                     *)

\* Mutant of Invalidate.
KeepStartTime ==
  /\ pending' = TRUE /\ reset_done' = FALSE
  /\ probe_runtime_id' = NoRuntime /\ candidate' = NoRuntime
  /\ settled' = FALSE /\ UNCHANGED started_at

\* _invalidate, all but allow_online.
Invalidate ==
  /\ pending' = TRUE /\ reset_done' = FALSE
  /\ probe_runtime_id' = NoRuntime /\ candidate' = NoRuntime
  /\ settled' = FALSE /\ started_at' = "none"

\* _ensure_stopped up to its first await.
EnsureStopped(caller) ==
  /\ allow_online' = FALSE /\ bridge_online' = FALSE
  /\ UNCHANGED online_since_start
  /\ pc' = "publish" /\ why' = caller

\* What the tick has read ends with it.
Forget == info' = "stopped" /\ why' = "none" /\ snap' = NoSnapshot

\* An exception leaves async_tick: the except branch of _loop begins.
Raise ==
  /\ allow_online' = FALSE /\ bridge_online' = FALSE
  /\ UNCHANGED online_since_start
  /\ IF enabled /\ validated
       THEN pc' = "hstop" /\ UNCHANGED phase
       ELSE pc' = "idle" /\ phase' = "fault"
  /\ Forget

Done(newPhase) == pc' = "idle" /\ phase' = newPhase /\ Forget

\* bridge/state published by somebody: retained, and routed to HA if connected.
Publish(value) ==
  /\ retained' = value
  /\ IF mqtt_up /\ subscribed THEN /\ Len(inbox) < MaxInbox
                                   /\ inbox' = Append(inbox, value)
                              ELSE inbox' = inbox

\* The Supervisor stops the add-on, and the last will of a running one is
\* published; an add-on in state error may stay there.
StopAddon ==
  /\ addon' \in (IF addon = "error" THEN {"error", "stopped"} ELSE {"stopped"})
  /\ z2m' = "down"
  /\ UNCHANGED <<other, probe_socket, hub_ready, relay, mqtt_up>>
  /\ IF addon = "started" THEN Publish("offline")
                          ELSE UNCHANGED <<retained, inbox>>
  /\ stray' = (IF stray = "on" /\ addon' = "stopped" THEN "over" ELSE stray)

\* The command failed: refused, or its answer lost and the command obeyed later.
Unanswered(command) == late' \in {late, late \union {command}}

\* Every TCP session on the relay ends with the relay.
DropSessions == z2m' = "down" /\ other' = FALSE /\ probe_socket' = FALSE

-----------------------------------------------------------------------------
(* async_tick.                                                             *)

\* _loop calls async_tick; a disabled guard returns at once.
TickBegin ==
  /\ pc = "idle" /\ dialog = "none" /\ enabled
  /\ pc' = "own"
  /\ UNCHANGED <<config, phase, memory, tick, world, faults, history>>

\* _take_ownership returned the info record; the tick reads MQTT and pause.
OwnershipTaken ==
  /\ pc = "own"
  /\ info' = addon
  /\ validated' = TRUE
  /\ announced' = (announced /\ addon # "stopped")
  /\ \/ /\ ~mqtt_up
        /\ Invalidate /\ EnsureStopped("mqtt")
     \/ /\ mqtt_up /\ paused
        /\ EnsureStopped("paused")
        /\ UNCHANGED recovery
     \/ /\ mqtt_up /\ ~paused
        /\ pc' = "snapshot"
        /\ UNCHANGED <<ack, recovery, why>>
  /\ UNCHANGED <<settings, flow, phase, series, snap, world, faults, probed,
                  spent, user_stop, stray>>

\* _take_ownership raises: before the slug is validated (Supervisor unreachable),
\* because it is not Zigbee2MQTT, or after (a policy that cannot be confirmed).
OwnershipFails ==
  /\ pc = "own" /\ Fault("command")
  /\ validated' \in BOOLEAN
  /\ allow_online' = FALSE /\ bridge_online' = FALSE
  /\ IF validated' THEN pc' = "hstop" /\ UNCHANGED <<phase, tick>>
                   ELSE Done("fault")
  /\ UNCHANGED <<settings, flow, online_since_start, recovery, series, world,
                  history>>

\* Mutant of SnapshotFails.
HubLossNoStop ==
  /\ pc = "snapshot"
  /\ IF hub_ready THEN Fault("command") ELSE UNCHANGED faults
  /\ Invalidate /\ Done("waiting")
  /\ allow_online' = FALSE /\ bridge_online' = FALSE
  /\ UNCHANGED <<config, online_since_start, series, world, history>>

\* read_snapshot raised.
SnapshotFails ==
  /\ pc = "snapshot"
  /\ IF hub_ready THEN Fault("command") ELSE UNCHANGED faults
  /\ Invalidate /\ EnsureStopped("hub_lost")
  /\ UNCHANGED <<config, phase, series, info, snap, world, history>>

RuntimeForgotten == FALSE              \* mutant of RuntimeChanged

\* The relay is another one than the guard knew.
RuntimeChanged == runtime_id # NoRuntime /\ runtime_id # relay

\* A snapshot was parsed: what every branch that follows has done first.
Observe ==
  /\ pc = "snapshot" /\ hub_ready
  /\ runtime_id' = relay
  /\ fresh_boot' = FALSE
  /\ retry_at' = (retry_at /\ ~fresh_boot)
  /\ UNCHANGED <<validated, flow, world, faults, history>>

AttemptsSeen == IF fresh_boot THEN 0 ELSE attempts

\* Not pending: verified before, so check that nothing has changed.
TickVerified ==
  /\ Observe
  /\ ~pending /\ ~RuntimeChanged
  /\ UNCHANGED stored
  /\ \/ /\ info # "started"
        /\ paused' = TRUE
        /\ pc' = "save_pause"
        /\ attempts' = AttemptsSeen
        /\ UNCHANGED <<enabled, phase, ack, recovery, tick>>
     \/ /\ info = "started"
        /\ UNCHANGED <<enabled, paused>>
        /\ \/ /\ Connections # 1
              /\ Invalidate /\ EnsureStopped("transport")
              /\ attempts' = AttemptsSeen
              /\ UNCHANGED <<phase, info, snap>>
           \/ /\ Connections = 1 /\ ~bridge_online
              /\ Invalidate /\ EnsureStopped("bridge")
              /\ attempts' = AttemptsSeen
              /\ UNCHANGED <<phase, info, snap>>
           \/ /\ Connections = 1 /\ bridge_online
              /\ attempts' = 0
              /\ Done("running")
              /\ UNCHANGED <<ack, recovery>>

\* The condition that ends a startup.
StartConfirmed == /\ info = "started" /\ Connections = 1
                  /\ online_since_start /\ bridge_online

\* Pending with a start issued: confirmed, still waiting, or timed out.
TickStarting ==
  /\ Observe
  /\ pending /\ ~RuntimeChanged /\ started_at # "none"
  /\ attempts' = AttemptsSeen
  /\ \/ /\ StartConfirmed
        /\ pending' = FALSE /\ started_at' = "none"
        /\ Done("running")
        /\ UNCHANGED <<ack, reset_done, probe_runtime_id, candidate, settled>>
     \/ /\ ~StartConfirmed /\ started_at = "waiting"
        /\ Done("starting")
        /\ UNCHANGED <<ack, recovery>>
     \/ /\ ~StartConfirmed /\ started_at = "expired"
        /\ Invalidate /\ EnsureStopped("timeout")
        /\ UNCHANGED <<phase, info, snap>>
  /\ UNCHANGED settings

\* Pending with no start issued (or just invalidated): prepare the radio.
TickPrepare ==
  /\ Observe
  /\ RuntimeChanged \/ (pending /\ started_at = "none")
  /\ snap' = [runtime |-> relay, connections |-> Connections]
  /\ IF RuntimeChanged THEN Invalidate ELSE UNCHANGED recovery
  /\ attempts' = AttemptsSeen
  /\ EnsureStopped("prepare")
  /\ UNCHANGED <<settings, phase, info>>

\* Mutant of SavePause.
PauseNotSaved ==
  /\ pc = "save_pause"
  /\ bridge_online' = FALSE
  /\ pc' = "publish" /\ why' = "user_stop"
  /\ UNCHANGED <<config, phase, allow_online, online_since_start, recovery,
                  series, info, snap, world, faults, history>>

\* The pause found by TickVerified is saved, then _offline() is called.
SavePause ==
  /\ pc = "save_pause"
  /\ stored' = [enabled |-> enabled, paused |-> paused]
  /\ bridge_online' = FALSE
  /\ pc' = "publish" /\ why' = "user_stop"
  /\ UNCHANGED <<enabled, paused, phase, allow_online, online_since_start,
                  recovery, series, validated, flow, info, snap, world, faults,
                  history>>

-----------------------------------------------------------------------------
(* _ensure_stopped, and what its callers do with the result.               *)

RetryLimit == attempts >= MaxAttempts

\* The rest of the tick that prepares the radio; ok: the add-on is stopped.
Prepare(ok) ==
  \/ /\ ~ok /\ Done("stopping")
     /\ UNCHANGED <<attempts, candidate, settled>>
  \/ /\ ok /\ retry_at /\ Done("waiting")
     /\ UNCHANGED <<attempts, candidate, settled>>
  \/ /\ ok /\ ~retry_at /\ ~reset_done /\ RetryLimit
     /\ Done("fault")
     /\ UNCHANGED <<attempts, candidate, settled>>
  \/ /\ ok /\ ~retry_at /\ (reset_done \/ ~RetryLimit)
     /\ \/ /\ snap.connections # 0
           /\ Done("waiting")
           /\ UNCHANGED <<attempts, candidate, settled>>
        \/ /\ snap.connections = 0 /\ ~reset_done
           /\ attempts' = attempts + 1 /\ candidate' = NoRuntime
           /\ phase' = "preparing" /\ pc' = "reset"
           /\ UNCHANGED <<settled, tick>>
        \/ /\ snap.connections = 0 /\ reset_done /\ candidate # snap.runtime
           /\ candidate' = snap.runtime /\ settled' = FALSE
           /\ Done("stabilizing")
           /\ UNCHANGED attempts
        \/ /\ snap.connections = 0 /\ reset_done /\ candidate = snap.runtime
           /\ IF settled THEN phase' = "probing" /\ pc' = "recheck" /\ UNCHANGED tick
                         ELSE Done(phase)
           /\ UNCHANGED <<attempts, candidate, settled>>

Continue(ok) ==
  /\ \/ /\ why = "prepare" /\ Prepare(ok)
        /\ UNCHANGED retry_at
     \/ /\ why # "prepare"
        /\ Done(IF why \in {"paused", "user_stop"} THEN "paused"
                ELSE IF why = "hub_lost" /\ ~ok THEN "stopping" ELSE "waiting")
        /\ retry_at' = (retry_at \/ why = "timeout")
        /\ UNCHANGED <<attempts, candidate, settled>>
  /\ UNCHANGED <<pending, reset_done, probe_runtime_id, started_at, runtime_id,
                  fresh_boot>>

\* _offline() returned.  The broker acknowledges a QoS 1 publish behind every
\* message it has already routed to HA, so those have been delivered by then.
PublishOk ==
  /\ pc = "publish"
  /\ IF mqtt_up THEN inbox = <<>> /\ Publish("offline")
                ELSE UNCHANGED <<retained, inbox>>
  /\ IF why = "user_stop" \/ info = "stopped"
       THEN Continue(TRUE)
       ELSE pc' = "stop" /\ UNCHANGED <<phase, recovery, series, tick>>
  /\ UNCHANGED <<config, ack, addon, hub, mqtt_up, late, faults, history>>

\* The publish, or the read that verifies the stop, fails.
CommandFails ==
  /\ pc = "verify" \/ (pc = "publish" /\ mqtt_up)
  /\ Fault("command") /\ Raise
  /\ UNCHANGED <<config, recovery, series, world, history>>

StopOk ==
  /\ pc = "stop"
  /\ StopAddon
  /\ pc' = "verify"
  /\ UNCHANGED <<config, phase, memory, tick, late, faults, probed, spent,
                  announced, user_stop>>

\* The Supervisor's answer to the stop is an error or is lost.
StopFails ==
  /\ pc = "stop" /\ Fault("command")
  /\ Unanswered("stop")
  /\ Raise
  /\ UNCHANGED <<config, recovery, series, addon, hub, broker, history>>

\* The state read back after the stop command.
StopConfirmed == addon = "stopped"

VerifyOk ==
  /\ pc = "verify"
  /\ Continue(StopConfirmed)
  /\ UNCHANGED <<config, ack, world, faults, history>>

-----------------------------------------------------------------------------
(* The radio runtime: restart, preflight probe and the add-on's start.     *)

\* restart_runtime acknowledged: coordinator_on.sh started a new relay.
ResetOk ==
  /\ pc = "reset" /\ hub_ready
  /\ relay' = relay + 1 /\ DropSessions
  /\ reset_done' = TRUE /\ runtime_id' = NoRuntime
  /\ spent' = FALSE
  /\ stray' = (IF addon = "stopped" THEN "no" ELSE stray)
  /\ pc' = "idle" /\ Forget
  /\ UNCHANGED <<config, phase, ack, pending, probe_runtime_id, candidate,
                  settled, started_at, attempts, retry_at, fresh_boot, addon,
                  hub_ready, broker, late, faults, probed, announced,
                  user_stop>>

\* It was not acknowledged, whether or not the script runs.
ResetFails ==
  /\ pc = "reset"
  /\ IF hub_ready THEN Fault("command") /\ Unanswered("reset")
                  ELSE UNCHANGED <<faults, late>>
  /\ retry_at' = TRUE
  /\ Raise
  /\ UNCHANGED <<config, recovery, attempts, runtime_id, fresh_boot, addon, hub,
                  broker, history>>

\* An exception between the recheck and the start: all progress is dropped.
PreflightAborts ==
  /\ Invalidate /\ Raise
  /\ retry_at' = TRUE
  /\ UNCHANGED <<config, attempts, runtime_id, fresh_boot>>

RecheckOk ==
  /\ pc = "recheck" /\ addon = "stopped"
  /\ pc' = (IF probe_runtime_id # snap.runtime THEN "probe" ELSE "after")
  /\ UNCHANGED <<config, phase, memory, tick, world, faults, history>>

RecheckFails ==
  /\ pc = "recheck"
  /\ IF addon = "stopped" THEN Fault("command") ELSE UNCHANGED faults
  /\ PreflightAborts
  /\ UNCHANGED <<world, history>>

\* probe_rcp talks to whatever relay listens now; it needs the only session.
ProbeOk ==
  /\ pc = "probe" /\ hub_ready /\ Connections = 0
  /\ probe_runtime_id' = snap.runtime
  /\ probed' = relay /\ probe_socket' = TRUE
  /\ pc' = "after"
  /\ UNCHANGED <<config, phase, ack, pending, reset_done, candidate, settled,
                  started_at, series, tick, addon, z2m, other, hub_ready,
                  relay, broker, late, faults, spent, announced, user_stop,
                  stray>>

ProbeFails ==
  /\ pc = "probe"
  /\ IF hub_ready /\ Connections = 0 THEN Fault("command")
                                     ELSE UNCHANGED faults
  /\ probe_socket' \in {probe_socket, hub_ready}
  /\ PreflightAborts
  /\ UNCHANGED <<addon, z2m, other, hub_ready, relay, broker, late, history>>

AnyRuntime == TRUE                     \* mutant of SameRuntime

\* The second snapshot shows the runtime of the first.
SameRuntime == relay = snap.runtime

\* The snapshot after the probe: the same relay, and its port free again.
AfterOk ==
  /\ pc = "after" /\ hub_ready /\ SameRuntime
  /\ \/ /\ Connections # 0
        /\ Done("handover")
        /\ UNCHANGED <<ack, started_at, announced>>
     \/ /\ Connections = 0
        /\ online_since_start' = FALSE /\ bridge_online' = FALSE
        /\ allow_online' = TRUE
        /\ started_at' = "waiting"
        /\ announced' = FALSE
        /\ pc' = "start"
        /\ UNCHANGED <<phase, tick>>
  /\ UNCHANGED <<config, pending, reset_done, probe_runtime_id, candidate,
                  settled, series, world, faults, probed, spent, user_stop,
                  stray>>

AfterFails ==
  /\ pc = "after"
  /\ IF hub_ready /\ SameRuntime THEN Fault("command")
                                 ELSE UNCHANGED faults
  /\ PreflightAborts
  /\ UNCHANGED <<world, history>>

StartOk ==
  /\ pc = "start"
  /\ addon' = "started"
  /\ spent' = TRUE
  /\ Done("starting")
  /\ UNCHANGED <<config, memory, hub, broker, late, faults, probed,
                  announced, user_stop, stray>>

\* The start was refused, or its answer lost.
StartFails ==
  /\ pc = "start" /\ Fault("command")
  /\ Unanswered("start")
  /\ spent' = TRUE
  /\ PreflightAborts
  /\ UNCHANGED <<addon, hub, broker, probed, announced, user_stop, stray>>

-----------------------------------------------------------------------------
(* The except branch of _loop, outside the lock.                           *)

HandlerStopOk ==
  /\ pc = "hstop"
  /\ StopAddon
  /\ bridge_online' = FALSE
  /\ pc' = "hpublish"
  /\ UNCHANGED <<config, phase, allow_online, online_since_start, recovery,
                  series, tick, late, faults, probed, spent, announced,
                  user_stop>>

HandlerStopFails ==
  /\ pc = "hstop" /\ Fault("command")
  /\ Unanswered("stop")
  /\ Done("fault")
  /\ UNCHANGED <<config, memory, addon, hub, broker, history>>

HandlerPublish ==
  /\ pc = "hpublish"
  /\ \/ /\ IF mqtt_up THEN inbox = <<>> /\ Publish("offline")
                      ELSE UNCHANGED <<retained, inbox>>
        /\ UNCHANGED faults
     \/ /\ mqtt_up /\ Fault("command")
        /\ UNCHANGED <<retained, inbox>>
  /\ Done("fault")
  /\ UNCHANGED <<config, memory, addon, hub, mqtt_up, late, history>>

-----------------------------------------------------------------------------
(* MQTT callbacks, timers, Configure and a Home Assistant restart.         *)

\* receive(message): the head of inbox reaches the subscription.  An online
\* nobody waits for starts _offline(), whose publish is handed over at once.
Receive ==
  /\ inbox # <<>>
  /\ LET message == Head(inbox)
         online  == message # "offline"
     IN \/ /\ ~enabled
           /\ inbox' = Tail(inbox)
           /\ UNCHANGED <<ack, retained>>
        \/ /\ enabled /\ online /\ ~allow_online
           /\ bridge_online' = FALSE
           /\ inbox' = Append(Tail(inbox), "offline") /\ retained' = "offline"
           /\ UNCHANGED <<allow_online, online_since_start>>
        \/ /\ enabled /\ allow_online /\ message = "online_retained"
           /\ inbox' = Tail(inbox)
           /\ UNCHANGED <<ack, retained>>
        \/ /\ enabled /\ (message = "online" => allow_online)
           /\ message # "online_retained"
           /\ bridge_online' = online
           /\ online_since_start' = (online_since_start \/ online)
           /\ inbox' = Tail(inbox)
           /\ UNCHANGED <<allow_online, retained>>
  /\ UNCHANGED <<config, phase, recovery, series, pc, tick, addon, hub,
                  mqtt_up, late, faults, history>>

BackoffElapses ==
  /\ retry_at /\ retry_at' = FALSE
  /\ UNCHANGED <<config, phase, ack, recovery, attempts, runtime_id,
                  fresh_boot, pc, tick, world, faults, history>>

CandidateSettles ==
  /\ candidate # NoRuntime /\ ~settled /\ settled' = TRUE
  /\ UNCHANGED <<config, phase, ack, pending, reset_done, probe_runtime_id,
                  candidate, started_at, series, pc, tick, world, faults,
                  history>>

StartDeadline ==
  /\ started_at = "waiting" /\ started_at' = "expired"
  /\ UNCHANGED <<config, phase, ack, pending, reset_done, probe_runtime_id,
                  candidate, settled, series, pc, tick, world, faults,
                  history>>

\* Mutants of NewSeries.
KeepResetDone ==
  /\ pending' = TRUE
  /\ probe_runtime_id' = NoRuntime /\ candidate' = NoRuntime
  /\ started_at' = "none" /\ attempts' = 0 /\ retry_at' = FALSE
  /\ allow_online' = FALSE
  /\ UNCHANGED <<reset_done, settled, runtime_id, fresh_boot, bridge_online,
                  online_since_start>>

KeepOnlineGrant ==
  /\ pending' = TRUE /\ reset_done' = FALSE
  /\ probe_runtime_id' = NoRuntime /\ candidate' = NoRuntime
  /\ started_at' = "none" /\ attempts' = 0 /\ retry_at' = FALSE
  /\ UNCHANGED <<settled, runtime_id, fresh_boot, bridge_online, allow_online,
                  online_since_start>>

\* What async_configure resets before it saves.
NewSeries ==
  /\ pending' = TRUE /\ reset_done' = FALSE
  /\ probe_runtime_id' = NoRuntime /\ candidate' = NoRuntime
  /\ started_at' = "none" /\ attempts' = 0 /\ retry_at' = FALSE
  /\ allow_online' = FALSE
  /\ UNCHANGED <<settled, runtime_id, fresh_boot, bridge_online,
                  online_since_start>>

\* async_configure has the lock (its failures are part of the one fault counted
\* here).  Until it adopts the new settings it reads the
\* add-on's info and, if it gives one up, restores that one's policy.
Configure ==
  /\ LockFree /\ Fault("configure")
  /\ dialog' = "check"
  /\ UNCHANGED <<settings, validated, subscribed, phase, memory, pc, tick, world,
                  history>>

\* What a step of the dialog leaves alone.
outside == <<memory, pc, tick, addon, hub, late, probed, spent, announced, stray>>

\* One of the two raises: nothing has been adopted.
ConfigureRefused ==
  /\ dialog = "check" /\ dialog' = "none"
  /\ UNCHANGED <<settings, validated, subscribed, phase, broker, faults,
                  user_stop, outside>>

\* The new settings are adopted and everything is reset, up to the save.
Adopt ==
  /\ dialog = "check"
  /\ enabled' \in BOOLEAN /\ paused' \in BOOLEAN
  /\ validated' = FALSE /\ NewSeries /\ user_stop' = FALSE
  /\ dialog' = "save"
  /\ UNCHANGED <<stored, subscribed, phase, pc, tick, world, faults, probed,
                  spent, announced, stray>>

\* Saved; the old subscription ends.  Disabled settings need nothing else.
ConfigureSaved ==
  /\ dialog = "save"
  /\ stored' = [enabled |-> enabled, paused |-> paused]
  /\ subscribed' = FALSE /\ inbox' = <<>>
  /\ IF enabled THEN dialog' = "subscribe" /\ UNCHANGED phase
                ELSE dialog' = "none" /\ phase' = "disabled"
  /\ UNCHANGED <<enabled, paused, validated, mqtt_up, retained, faults,
                  user_stop, outside>>

Subscribed ==
  /\ dialog = "subscribe"
  /\ subscribed' = TRUE /\ inbox' = Redelivery
  /\ dialog' = "own"
  /\ UNCHANGED <<settings, validated, phase, mqtt_up, retained, faults,
                  user_stop, outside>>

\* _take_ownership returned.
Configured ==
  /\ dialog = "own"
  /\ validated' = TRUE
  /\ dialog' = "none"
  /\ phase' = (IF paused THEN "paused" ELSE "waiting")
  /\ UNCHANGED <<settings, subscribed, broker, faults, user_stop, outside>>

\* The subscription or _take_ownership raises: enabled, but paused.
ConfigureFails ==
  /\ dialog \in {"subscribe", "own"}
  /\ paused' = TRUE
  /\ validated' \in (IF dialog = "own" THEN BOOLEAN ELSE {validated})
  /\ dialog' = "undo"
  /\ UNCHANGED <<enabled, stored, subscribed, phase, broker, faults, user_stop,
                  outside>>

\* The pause of a failed configuration is saved, and then shown as a fault.
ConfigureUndone ==
  /\ dialog = "undo"
  /\ stored' = [enabled |-> enabled, paused |-> paused]
  /\ dialog' = "none"
  /\ phase' = "fault"
  /\ UNCHANGED <<enabled, paused, validated, subscribed, broker, faults,
                  user_stop, outside>>

Saving == pc = "save_pause" \/ dialog \in {"save", "undo"}

\* The command the cancelled task was waiting for.
InFlight == IF pc = "start" THEN {"start"}
            ELSE IF pc \in {"stop", "hstop"} THEN {"stop"}
            ELSE IF pc = "reset" THEN {"reset"}
            ELSE IF pc = "probe" THEN {"probe"} ELSE {}

\* Home Assistant, or this entry, restarts: async_shutdown, then __init__ and
\* async_initialize.  A save and a publish of the old guard may just have been
\* carried out; its other command may be carried out at any later time.  (In a
\* dialog it is Home Assistant that restarts.)  No relay's identity is remembered:
\* the present one is numbered anew.
Reload ==
  /\ Fault("reload")
  /\ late' \in {late, late \union InFlight}
  /\ stored' \in (IF Saving THEN {stored, [enabled |-> enabled, paused |-> paused]}
                            ELSE {stored})
  /\ retained' \in (IF pc \in {"publish", "hpublish"} /\ mqtt_up
                    THEN {retained, "offline"} ELSE {retained})
  /\ enabled' = stored'.enabled /\ paused' = stored'.paused
  /\ phase' = "disabled" /\ dialog' = "none"
  /\ bridge_online' = FALSE /\ allow_online' = FALSE
  /\ online_since_start' = FALSE
  /\ Invalidate
  /\ attempts' = 0 /\ retry_at' = FALSE
  /\ runtime_id' = NoRuntime /\ fresh_boot' = TRUE /\ validated' = FALSE
  /\ pc' = "idle" /\ Forget
  /\ probed' = NoRuntime /\ spent' = TRUE /\ announced' = FALSE
  /\ relay' = 1
  /\ subscribed' = enabled' /\ UNCHANGED mqtt_up
  /\ inbox' = (IF enabled' THEN Redelivery' ELSE <<>>)
  /\ UNCHANGED <<addon, z2m, other, probe_socket, hub_ready, user_stop, stray>>

-----------------------------------------------------------------------------
(* Commands that are obeyed after nobody waits for them any more.          *)

beyond == <<config, phase, memory, pc, tick, faults, probed, spent, announced,
            user_stop>>

LateStart ==
  /\ "start" \in late /\ late' = late \ {"start"}
  /\ addon' = "started"
  /\ stray' = (IF addon = "started" THEN stray ELSE "on")
  /\ UNCHANGED <<beyond, hub, broker>>

LateStop ==
  /\ "stop" \in late /\ late' = late \ {"stop"}
  /\ StopAddon
  /\ UNCHANGED beyond

\* coordinator_on.sh starts a new relay, whatever the guard does meanwhile.
LateReset ==
  /\ "reset" \in late /\ late' = late \ {"reset"}
  /\ hub_ready /\ relay' = relay + 1 /\ DropSessions
  /\ UNCHANGED <<beyond, addon, hub_ready, broker, stray>>

\* The probe of a cancelled tick takes the relay's session, if it is free.
LateProbe ==
  /\ "probe" \in late /\ late' = late \ {"probe"}
  /\ hub_ready /\ Connections = 0 /\ probe_socket' = TRUE
  /\ UNCHANGED <<beyond, addon, z2m, other, hub_ready, relay, broker, stray>>

Late == LateStart \/ LateStop \/ LateReset \/ LateProbe

-----------------------------------------------------------------------------
(* The environment: hub, relay, broker, add-on and user.                   *)

guardState == <<config, phase, ack, recovery, pc, tick, probed, spent>>

HubDown ==
  /\ hub_ready /\ Fault("hub")
  /\ hub_ready' = FALSE /\ DropSessions
  /\ UNCHANGED <<guardState, series, addon, relay, broker, announced,
                  user_stop, late, stray>>

\* It comes back as it was, or after a boot with a new relay.
HubUp ==
  /\ ~hub_ready /\ hub_ready' = TRUE
  /\ \/ UNCHANGED <<relay, fresh_boot>>
     \/ relay' = relay + 1 /\ fresh_boot' = TRUE
  /\ UNCHANGED <<guardState, attempts, retry_at, runtime_id, addon, z2m, other,
                  probe_socket, broker, faults, announced, user_stop, late, stray>>

RelayRestart ==
  /\ hub_ready /\ Fault("relay")
  /\ relay' = relay + 1 /\ DropSessions
  /\ UNCHANGED <<guardState, series, addon, hub_ready, broker, announced,
                  user_stop, late, stray>>

MqttDown ==
  /\ mqtt_up /\ Fault("mqtt")
  /\ mqtt_up' = FALSE /\ inbox' = <<>>
  /\ UNCHANGED <<guardState, series, addon, hub, retained, announced,
                  user_stop, late, stray>>

\* HA resubscribes; after a broker restart Zigbee2MQTT announces itself anew.
MqttUp ==
  /\ ~mqtt_up /\ mqtt_up' = TRUE
  /\ inbox' = (IF subscribed THEN Retained ELSE <<>>)
  /\ z2m' \in (IF z2m = "online" THEN {"linked", "online"} ELSE {z2m})
  /\ UNCHANGED <<guardState, series, addon, other, probe_socket, hub_ready,
                  relay, retained, faults, announced, user_stop, late, stray>>

\* The add-on's container ends by itself; its last will is published.
AddonCrash ==
  /\ addon = "started" /\ Fault("crash")
  /\ addon' = "error" /\ z2m' = "down"
  /\ Publish("offline")
  /\ UNCHANGED <<guardState, series, other, probe_socket, hub_ready, relay,
                  mqtt_up, announced, user_stop, late, stray>>

UserStart ==
  /\ addon # "started" /\ Fault("start")
  /\ addon' = "started"
  /\ user_stop' = FALSE /\ stray' = "on"
  /\ UNCHANGED <<guardState, series, hub, broker, late, announced>>

\* The user presses Stop in the Supervisor.
UserStop ==
  /\ addon = "started" /\ Fault("stop")
  /\ StopAddon
  /\ user_stop' = (user_stop \/ (Ready /\ ~pending /\ hub_ready))
  /\ UNCHANGED <<guardState, series, late, announced>>

\* The relay serves one client at a time.
OtherClientConnects ==
  /\ hub_ready /\ Connections = 0 /\ Fault("client")
  /\ other' = TRUE
  /\ UNCHANGED <<guardState, series, addon, z2m, probe_socket, hub_ready,
                  relay, broker, announced, user_stop, late, stray>>

OtherClientLeaves ==
  /\ other /\ other' = FALSE
  /\ UNCHANGED <<guardState, series, addon, z2m, probe_socket, hub_ready,
                  relay, broker, faults, announced, user_stop, late, stray>>

ProbeSocketCloses ==
  /\ probe_socket /\ probe_socket' = FALSE
  /\ UNCHANGED <<guardState, series, addon, z2m, other, hub_ready, relay,
                  broker, faults, announced, user_stop, late, stray>>

Z2MConnect ==
  /\ addon = "started" /\ hub_ready /\ Connections = 0
  /\ z2m' = "linked"
  /\ UNCHANGED <<guardState, series, addon, other, probe_socket, hub_ready,
                  relay, broker, faults, announced, user_stop, late, stray>>

Z2MAnnounce ==
  /\ z2m = "linked" /\ z2m' = "online"
  /\ Publish("online")
  /\ announced' = TRUE
  /\ UNCHANGED <<guardState, series, addon, other, probe_socket, hub_ready,
                  relay, mqtt_up, late, faults, user_stop, stray>>

-----------------------------------------------------------------------------
Tick ==
  \/ TickBegin \/ OwnershipTaken \/ OwnershipFails
  \/ SnapshotFails \/ TickVerified \/ TickStarting \/ TickPrepare \/ SavePause
  \/ PublishOk \/ CommandFails \/ StopOk \/ StopFails \/ VerifyOk
  \/ ResetOk \/ ResetFails \/ RecheckOk \/ RecheckFails
  \/ ProbeOk \/ ProbeFails \/ AfterOk \/ AfterFails \/ StartOk \/ StartFails
  \/ HandlerStopOk \/ HandlerStopFails \/ HandlerPublish

Timers == BackoffElapses \/ CandidateSettles \/ StartDeadline

Dialog ==
  \/ ConfigureRefused \/ Adopt \/ ConfigureSaved \/ Subscribed \/ Configured
  \/ ConfigureFails \/ ConfigureUndone

Operator == Configure \/ Reload \/ UserStart \/ UserStop

Surroundings ==
  \/ HubDown \/ HubUp \/ RelayRestart \/ MqttDown \/ MqttUp \/ AddonCrash
  \/ OtherClientConnects \/ OtherClientLeaves \/ ProbeSocketCloses
  \/ Z2MConnect \/ Z2MAnnounce

Next == Tick \/ Dialog \/ Receive \/ Timers \/ Late \/ Operator \/ Surroundings

Spec == Init /\ [][Next]_vars

\* The event loop runs every task that can run, timers elapse, the kernel drops
\* a closed socket, and a started Zigbee2MQTT connects and announces itself.
\* Nothing is assumed of the hub, the broker connection or other clients.
Fairness ==
  /\ WF_vars(Tick \/ Dialog)
  /\ WF_vars(Receive)
  /\ WF_vars(Timers)
  /\ WF_vars(ProbeSocketCloses)
  /\ WF_vars(Z2MConnect \/ Z2MAnnounce)

FairSpec == Spec /\ Fairness

-----------------------------------------------------------------------------
(* Properties.                                                             *)

SettingsType ==
  /\ enabled \in BOOLEAN /\ paused \in BOOLEAN
  /\ stored \in Settings
  /\ subscribed \in BOOLEAN /\ dialog \in Dialogs
  /\ phase \in Phases
  /\ bridge_online \in BOOLEAN /\ allow_online \in BOOLEAN
  /\ online_since_start \in BOOLEAN

RecoveryType ==
  /\ pending \in BOOLEAN /\ reset_done \in BOOLEAN
  /\ probe_runtime_id \in Nat /\ candidate \in Nat /\ settled \in BOOLEAN
  /\ started_at \in {"none", "waiting", "expired"}

CounterType == attempts \in 0..MaxAttempts /\ faults \in 0..MaxFaults

SeriesType ==
  /\ retry_at \in BOOLEAN
  /\ runtime_id \in Nat /\ fresh_boot \in BOOLEAN /\ validated \in BOOLEAN

TickType ==
  /\ pc \in Places /\ why \in Callers
  /\ info \in {"stopped", "started", "error"}
  /\ snap \in [runtime : Nat, connections : 0..3]

HubType ==
  /\ addon \in {"stopped", "started", "error"}
  /\ z2m \in {"down", "linked", "online"}
  /\ other \in BOOLEAN /\ probe_socket \in BOOLEAN /\ hub_ready \in BOOLEAN
  /\ relay \in Nat \ {NoRuntime}

BrokerType ==
  /\ mqtt_up \in BOOLEAN /\ retained \in {"none", "online", "offline"}
  /\ inbox \in Seq(Messages)
  /\ late \subseteq {"start", "stop", "reset", "probe"}

HistoryType ==
  /\ probed \in Nat /\ spent \in BOOLEAN /\ announced \in BOOLEAN
  /\ user_stop \in BOOLEAN /\ stray \in {"no", "on", "over"}

\* Every variable keeps its type; attempts never pass the limit of a series.
TypeOK == /\ SettingsType /\ RecoveryType /\ SeriesType /\ CounterType /\ TickType
          /\ HubType /\ BrokerType /\ HistoryType

\* Whenever the guard is about to start the add-on, supervision is on and not
\* paused, the relay of the snapshot it acts on is the very relay the last
\* successful Spinel probe talked to, and the guard has restarted the radio since
\* it began and since its last start (async_tick, the try block before
\* backend.start).
StartsOnlyProbedRuntime ==
  pc = "start" => /\ enabled /\ ~paused
                  /\ probed = snap.runtime
                  /\ ~spent

\* A Configure has reset the series and not yet published its phase.
Applying == dialog \in {"save", "subscribe", "own", "undo"}

\* Ready is shown only for a start that was confirmed, on the relay that was
\* probed, with nothing invalidated since (ready and _invalidate); the one
\* exception is a Configure under way, which invalidates first and publishes
\* its phase after its last await.
VerifiedRuntime ==
  Ready => Applying \/ (~pending /\ started_at = "none" /\ runtime_id = probed)

\* Messages from the bridge are believed only while a start of the probed relay
\* is being waited for or has been confirmed (_allow_online against every path
\* that stops the add-on or raises).
GrantCarriesProbe ==
  allow_online => /\ enabled
                  /\ probed = runtime_id
                  /\ ~pending \/ (started_at # "none" /\ ~paused)

\* The tick restarts or probes the radio only while the Supervisor holds the
\* add-on in state stopped (error is not enough), unless a start the guard did
\* not wait for - the user's, or one that was obeyed late - began the run.
ExclusiveRadio ==
  pc \in {"reset", "probe"} => addon = "stopped" \/ stray = "on"

\* A pause shown to the user has been saved: a restart of Home Assistant keeps
\* it.  The one exception is a Configure that has replaced the stored settings
\* and not yet published its phase.
PauseSurvives ==
  phase = "paused" => stored.paused \/ dialog \in {"subscribe", "own", "undo"}

\* The phase becomes running only after an announcement Zigbee2MQTT made after
\* the guard opened this start (a retained or cached online does not count),
\* unless somebody else started it since the radio was restarted.
FreshAck ==
  [][phase # "running" /\ phase' = "running" => announced \/ stray # "no"]_vars

\* Nobody counts on the hub, the broker or a clean port for ever; once they stay
\* so, the guard ends up Ready, paused, or in the fault that reports the retry
\* limit: it never hangs in an intermediate phase.  An add-on that the
\* Supervisor keeps in state error is never taken for stopped.
Healthy == enabled /\ hub_ready /\ mqtt_up /\ ~other
GaveUp == phase = "fault" /\ attempts = MaxAttempts
RecoversOrGivesUp ==
  <>[]Healthy => <>[](Ready \/ GaveUp \/ paused \/ addon = "error")

\* When the hub is lost and stays lost, the guard withdraws Ready for good and
\* Zigbee2MQTT ends up not running.
Contained ==
  <>[](enabled /\ ~hub_ready) => <>[](~Ready /\ addon # "started")

\* The user's Stop of a verified Zigbee2MQTT is respected: the guard does not
\* start it again before the user starts it or saves the configuration.
UserStopRespected == user_stop => pc # "start"
=============================================================================
