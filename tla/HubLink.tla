------------------------------ MODULE HubLink -------------------------------
(***************************************************************************)
(* The link of Home Assistant to one hub: the availability watchdog and    *)
(* its readings (coordinator.py), the MQTT topics of the hub's IO agent    *)
(* (coordinator_mqtt.py) and the broker settings shared by all hubs        *)
(* (shared_mqtt.py).                                                       *)
(*                                                                         *)
(* The watchdog and every MQTT message refresh the same coordinator; the   *)
(* two refreshes overlap at their awaits, and nothing orders the executor  *)
(* job of a refresh, a reading or a synchronisation against them.  A step  *)
(* runs from one await to the next.  Message payloads are valid and name   *)
(* the entry's role, and telemetry travels with the state.                 *)
(*                                                                         *)
(* The hub, its agent and the broker are as the code uses them: states and *)
(* availability are retained, and the broker publishes offline as the will *)
(* of an agent it lost.                                                    *)
(*                                                                         *)
(* Bounds: MaxOutages of the hub, MaxSaves of settings, MaxFaults, and     *)
(* MaxInbox messages on their way.                                         *)
(***************************************************************************)
EXTENDS Naturals, Sequences

CONSTANTS Agents, MaxOutages, MaxSaves, MaxFaults, MaxInbox

ASSUME HubLinkConstants ==
  /\ Agents \subseteq {"none", "down"} /\ Agents # {}
  /\ {MaxOutages, MaxSaves, MaxFaults, MaxInbox} \subseteq Nat

Refreshes == {"watchdog", "push"}

VARIABLES             \* the hub
  up,                 \* powered: its Telnet port answers
  boot,               \* the number of its boots
  conf,               \* the revision its m1s_button.conf holds, 0 for its own
  agent               \* the IO agent: "none", "down", "up"

VARIABLES             \* the broker and Home Assistant's MQTT client
  session,            \* the broker counts the agent as connected
  retained,           \* the retained availability, "none", "online" or "offline"
  link,               \* the client is connected and subscribed
  inbox               \* messages to M1SHubMQTTIO: [kind, retain]

VARIABLES             \* M1SHubMQTTIO
  zigbee_role,        \* of the entry, "router" or "coordinator"
  available,
  confirmed,          \* client.mqtt_io_confirmed, and seen
  refresh_pending

VARIABLES             \* AqaraM1SRouterCoordinator
  refresh,            \* of both refreshes: the await it is suspended at
  found,              \* the result of its Telnet check
  was_online, generation,
  last_update_success,
  reading,            \* illuminance or diagnostics: NoReading, FromAgent or the boot it is of
  reader              \* the lux or diagnostics task

VARIABLES             \* SharedMQTT and the synchronisation of this hub
  revision, saving,   \* saving: save holds the lock
  sync,               \* _mqtt_task: its target, and the await it is suspended at
  applied,            \* _mqtt_applied
  retry,              \* _mqtt_retry_at lies ahead
  mqtt_sync_state

VARIABLES
  proved,             \* the boot that opened the current generation
  faults

hub == <<up, boot, conf, agent>>
broker == <<session, retained, link, inbox>>
io == <<available, confirmed, refresh_pending>>
refreshing == <<refresh, found, was_online, generation,
                last_update_success, proved>>
readings == <<reading, reader>>
shared == <<revision, saving>>
syncing == <<sync, applied, retry, mqtt_sync_state>>
vars == <<hub, broker, zigbee_role, io, refreshing, readings, shared, syncing, faults>>

NoReading == 0
FromAgent == MaxOutages + 2
NoReader == [generation |-> 0, boot |-> 0, at |-> "none"]
NoTarget == [revision |-> 0, generation |-> 0]
NoSync == [target |-> NoTarget, at |-> "none"]

Fault == faults > 0 /\ faults' = faults - 1

\* A router with or without the agent, or a coordinator, which has none.
Init ==
  /\ zigbee_role \in {"router", "coordinator"}
  /\ up \in BOOLEAN /\ boot = 1 /\ conf = 0
  /\ agent \in (IF zigbee_role = "router" THEN Agents ELSE {"none"})
  /\ session = FALSE /\ retained = "none"
  /\ link = TRUE /\ inbox = <<>>
  /\ available = FALSE /\ refresh_pending = FALSE
  /\ confirmed \in (IF agent = "none" THEN {FALSE} ELSE BOOLEAN)
  /\ refresh = [r \in Refreshes |-> "idle"] /\ found = [r \in Refreshes |-> 0]
  /\ was_online = FALSE /\ generation = 0
  /\ last_update_success = FALSE /\ proved = 0
  /\ reading = NoReading /\ reader = NoReader
  /\ revision = 0 /\ saving = FALSE
  /\ sync = NoSync /\ applied = NoTarget /\ retry = FALSE
  /\ mqtt_sync_state = "not_configured"
  /\ faults = MaxFaults

-----------------------------------------------------------------------------
(* The hub, its agent and the broker.                                      *)

Message(kind, retain) == [kind |-> kind, retain |-> retain]
Deliver(messages) == inbox' = (IF link THEN inbox \o messages ELSE inbox)

\* The agent connects: its availability and its first state.
Announce(before) ==
  /\ Len(inbox) < MaxInbox
  /\ Deliver(before \o <<Message("online", FALSE), Message("state", FALSE)>>)
  /\ session' = TRUE /\ retained' = "online"

AgentConnects ==
  /\ up /\ agent = "down" /\ agent' = "up"
  /\ Announce(IF session THEN <<Message("offline", FALSE)>> ELSE <<>>)
  /\ UNCHANGED <<up, boot, conf, link, zigbee_role, io, refreshing, readings, shared,
                  syncing, faults>>

AgentDies ==
  /\ agent = "up" /\ Fault /\ agent' = "down"
  /\ UNCHANGED <<up, boot, conf, broker, zigbee_role, io, refreshing, readings,
                  shared, syncing>>

\* The keepalive of an agent that is gone runs out.
BrokerNotices ==
  /\ session /\ agent # "up" /\ session' = FALSE
  /\ retained' = "offline"
  /\ Deliver(<<Message("offline", FALSE)>>)
  /\ UNCHANGED <<hub, link, zigbee_role, io, refreshing, readings, shared, syncing,
                  faults>>

HubDown ==
  /\ up /\ boot <= MaxOutages /\ up' = FALSE
  /\ agent' = (IF agent = "none" THEN "none" ELSE "down")
  /\ UNCHANGED <<boot, conf, broker, zigbee_role, io, refreshing, readings,
                  shared, syncing, faults>>

\* In an outage that the watchdog saw, the hub may also be restored or replaced.
HubUp ==
  /\ ~up /\ boot <= MaxOutages /\ up' = TRUE /\ boot' = boot + 1
  /\ conf' \in {conf} \cup (IF was_online THEN {} ELSE {0})
  /\ UNCHANGED <<agent, broker, zigbee_role, io, refreshing, readings, shared,
                  syncing, faults>>

LinkDown ==
  /\ link /\ Fault /\ link' = FALSE /\ inbox' = <<>>
  /\ UNCHANGED <<hub, session, retained, zigbee_role, io, refreshing, readings, shared,
                  syncing>>

\* async_start's subscriptions, made anew by Home Assistant when it reconnects.
LinkUp ==
  /\ ~link /\ link' = TRUE
  /\ inbox' = (IF retained = "none" THEN <<>>
               ELSE <<Message("state", TRUE), Message(retained, TRUE)>>)
  /\ UNCHANGED <<hub, session, retained, zigbee_role, io, refreshing, readings, shared,
                  syncing, faults>>

-----------------------------------------------------------------------------
(* A refresh: _async_update_data.                                          *)

\* Mutant: the target leaves out the generation.
SettingsOnly == [revision |-> revision, generation |-> 0]

Target == [revision |-> revision, generation |-> generation']

At(r, step) == refresh' = [refresh EXCEPT ![r] = step]

\* Returns to the watchdog's sleep, or to the loop of _async_refresh_coordinator.
Return(r) == At(r, IF r = "push" /\ refresh_pending THEN "again" ELSE "idle")

\* _sync_shared_mqtt begins, if there is something new for this hub.
Schedule ==
  IF /\ revision > 0 \/ confirmed
     /\ applied # Target /\ sync = NoSync /\ ~retry
  THEN /\ mqtt_sync_state' = "pending"
       /\ sync' = [target |-> Target, at |-> IF revision > 0 THEN "apply" ELSE "topic"]
  ELSE UNCHANGED <<mqtt_sync_state, sync>>

\* From get_shared_mqtt to the end of the refresh.
Finish(r) ==
  /\ Return(r) /\ last_update_success' = TRUE
  /\ Schedule /\ UNCHANGED <<applied, retry>>

\* _schedule_lux_refresh and _schedule_diagnostics_refresh: at once for a new
\* generation, else once the interval is over; a task that runs is left alone.
StartReader(fresh) ==
  IF reader = NoReader /\ (zigbee_role = "coordinator" \/ ~confirmed)
  THEN reader' \in {[generation |-> generation', boot |-> 0, at |-> "read"]}
                   \cup (IF fresh THEN {} ELSE {NoReader})
  ELSE UNCHANGED reader

Online(r, seen) ==
  /\ was_online' = TRUE
  /\ generation' = (IF was_online THEN generation ELSE generation + 1)
  /\ proved' = (IF was_online THEN proved ELSE seen)
  /\ StartReader(~was_online)
  /\ \/ /\ zigbee_role = "coordinator"
        /\ Return(r) /\ last_update_success' = TRUE
        /\ mqtt_sync_state' = "not_used" /\ UNCHANGED <<sync, applied, retry>>
     \/ /\ zigbee_role = "router" /\ ~saving /\ Finish(r)
     \/ /\ zigbee_role = "router" /\ saving /\ At(r, "load")
        /\ UNCHANGED <<last_update_success, syncing>>
  /\ UNCHANGED reading

Offline(r) ==
  /\ mqtt_sync_state' = "offline"
  /\ was_online' = FALSE /\ last_update_success' = FALSE /\ Return(r)
  /\ UNCHANGED <<generation, proved, readings, sync, applied, retry>>

\* async_detect_hub_connectivity: MQTT proves the hub at once, else Telnet is asked.
Begin(r) ==
  IF available THEN Online(r, 0)
  ELSE /\ At(r, "check")
       /\ UNCHANGED <<was_online, generation, last_update_success, proved, readings,
                       syncing>>

outside == <<hub, broker, zigbee_role, shared, faults>>

WatchdogWakes ==
  /\ refresh["watchdog"] = "idle" /\ Begin("watchdog")
  /\ UNCHANGED <<outside, io, found>>

Checked(r) ==
  /\ refresh[r] = "check" /\ At(r, "checked")
  /\ found' = [found EXCEPT ![r] = IF up THEN boot ELSE 0]
  /\ UNCHANGED <<outside, io, was_online, generation, last_update_success,
                  proved, readings, syncing>>

Answered(r) ==
  /\ refresh[r] = "checked"
  /\ found' = [found EXCEPT ![r] = 0]
  /\ IF found[r] > 0 THEN Online(r, found[r]) ELSE Offline(r)
  /\ UNCHANGED <<outside, io>>

Loaded(r) ==
  /\ refresh[r] = "load" /\ ~saving
  /\ UNCHANGED generation /\ Finish(r)
  /\ UNCHANGED <<outside, io, found, was_online, proved, readings>>

-----------------------------------------------------------------------------
(* Messages, and the refreshes they ask for.                               *)

MarkSeen == confirmed' = TRUE

\* A message sets what it proves at once and asks for a refresh; one that is
\* retained says nothing about now, save the availability itself.
StateMessage(m) ==
  /\ m.kind = "state" /\ MarkSeen
  /\ available' = (available \/ ~m.retain) /\ reading' = FromAgent

\* Mutant: the loss of the agent clears only its values.
ClearValues(m) ==
  /\ m.kind # "state" /\ available' = (available \/ m.kind = "online")
  /\ reading' = (IF m.kind = "online" THEN reading ELSE NoReading)
  /\ UNCHANGED confirmed

AvailabilityMessage(m) ==
  /\ m.kind # "state" /\ available' = (m.kind = "online")
  /\ reading' = (IF m.kind = "online" THEN reading ELSE NoReading)
  /\ UNCHANGED confirmed

Receive ==
  /\ inbox # <<>> /\ inbox' = Tail(inbox)
  /\ StateMessage(Head(inbox)) \/ AvailabilityMessage(Head(inbox))
  /\ refresh_pending' = TRUE
  /\ refresh' = [refresh EXCEPT !["push"] = IF @ = "idle" THEN "again" ELSE @]
  /\ UNCHANGED <<hub, session, retained, link, zigbee_role, found, was_online,
                  generation, last_update_success, proved, reader, shared,
                  syncing, faults>>

\* The debouncer runs the refresh at once or up to ten seconds later, or drops it
\* for one that runs.
PushRuns ==
  /\ refresh["push"] = "again" /\ refresh_pending' = FALSE
  /\ \/ Begin("push")
     \/ /\ At("push", "idle")
        /\ UNCHANGED <<was_online, generation, last_update_success, proved, readings,
                        syncing>>
  /\ UNCHANGED <<outside, available, confirmed, found>>

-----------------------------------------------------------------------------
(* The lux and diagnostics tasks.                                          *)

ReaderReads ==
  /\ reader.at = "read"
  /\ \E read \in {0} \cup (IF up THEN {boot} ELSE {}) :
       reader' = [reader EXCEPT !.boot = read, !.at = "done"]
  /\ UNCHANGED <<outside, io, refreshing, reading, syncing>>

\* Mutant: an answer is stored whenever the hub is online.
AnyLink == was_online

ThisLink == was_online /\ reader.generation = generation

\* A failed lux reading leaves the last one, failed diagnostics clear it.
ReaderEnds ==
  /\ reader.at = "done" /\ reader' = NoReader
  /\ IF ThisLink /\ (reader.boot > 0 \/ zigbee_role = "coordinator")
     THEN reading' = reader.boot /\ last_update_success' = TRUE
     ELSE UNCHANGED <<reading, last_update_success>>
  /\ UNCHANGED <<outside, io, refresh, found, was_online, generation, proved,
                  syncing>>

-----------------------------------------------------------------------------
(* The shared settings: save, and _sync_shared_mqtt.                       *)

SaveBegins ==
  /\ ~saving /\ revision < MaxSaves /\ saving' = TRUE
  /\ UNCHANGED <<hub, broker, zigbee_role, io, refreshing, readings, revision, syncing,
                  faults>>

\* The broker accepts the login and the settings are stored, or save raises.
SaveEnds ==
  /\ saving /\ saving' = FALSE
  /\ \/ revision' = revision + 1 /\ UNCHANGED faults
     \/ Fault /\ UNCHANGED revision
  /\ UNCHANGED <<hub, broker, zigbee_role, io, refreshing, readings, syncing>>

SyncFailed == sync' = NoSync /\ retry' = TRUE /\ mqtt_sync_state' = "failed"

\* apply_to_hub: the file is replaced, or not; a lost answer is a failure too, and so
\* is an agent that does not restart.  What the restart does to the agent is left out.
SyncApplies ==
  /\ sync.at = "apply"
  /\ \/ /\ up /\ conf' = sync.target.revision /\ sync' = [sync EXCEPT !.at = "topic"]
        /\ UNCHANGED <<retry, mqtt_sync_state, faults>>
     \/ /\ up /\ Fault /\ conf' \in {conf, sync.target.revision} /\ SyncFailed
     \/ ~up /\ SyncFailed /\ UNCHANGED <<conf, faults>>
  /\ UNCHANGED <<up, boot, agent, broker, zigbee_role, io, refreshing, readings, shared,
                  applied>>

\* ensure_router_mqtt_topic, for an entry whose agent was seen: an agent that is
\* not there is left alone, one that is down is restarted and awaited.
TopicReady == ~confirmed \/ (up /\ agent # "down")

SyncEnds ==
  /\ sync.at = "topic"
  /\ \/ /\ TopicReady /\ UNCHANGED faults
        /\ sync' = NoSync /\ applied' = sync.target /\ retry' = FALSE
        /\ mqtt_sync_state' = "applied"
     \/ /\ IF TopicReady THEN Fault ELSE UNCHANGED faults
        /\ SyncFailed /\ UNCHANGED applied
  /\ UNCHANGED <<hub, broker, zigbee_role, io, refreshing, readings, shared>>

\* The sixty seconds after a failure are over.
RetryTime ==
  /\ retry /\ retry' = FALSE
  /\ UNCHANGED <<hub, broker, zigbee_role, io, refreshing, readings, shared, sync,
                  applied, mqtt_sync_state, faults>>

-----------------------------------------------------------------------------
Refreshing ==
  \/ WatchdogWakes
  \/ \E r \in Refreshes : Checked(r) \/ Answered(r) \/ Loaded(r)
  \/ Receive \/ PushRuns

Background ==
  \/ ReaderReads \/ ReaderEnds
  \/ SaveBegins \/ SaveEnds
  \/ SyncApplies \/ SyncEnds \/ RetryTime

Outside ==
  \/ AgentConnects \/ AgentDies \/ BrokerNotices
  \/ HubDown \/ HubUp \/ LinkDown \/ LinkUp

Next == Refreshing \/ Background \/ Outside

Spec == Init /\ [][Next]_vars

\* Timers fire, executor jobs return, and the broker and Home Assistant's client
\* do what they promise; nothing is assumed of the hub's power or of
\* faults.
Fairness ==
  /\ WF_vars(WatchdogWakes)
  /\ \A r \in Refreshes :
       WF_vars(Checked(r)) /\ WF_vars(Answered(r)) /\ WF_vars(Loaded(r))
  /\ WF_vars(Receive) /\ WF_vars(PushRuns)
  /\ WF_vars(ReaderReads) /\ WF_vars(ReaderEnds)
  /\ WF_vars(SaveEnds) /\ WF_vars(SyncApplies)
  /\ WF_vars(SyncEnds) /\ WF_vars(RetryTime)
  /\ WF_vars(AgentConnects) /\ WF_vars(BrokerNotices) /\ WF_vars(LinkUp)

FairSpec == Spec /\ Fairness

-----------------------------------------------------------------------------
(* Properties.                                                             *)

Boots == 0 .. MaxOutages + 1
Steps == {"idle", "again", "check", "checked", "load"}

\* Every variable has its type; a refresh that a message asked for is never
\* forgotten, and only a Router is synchronised (coordinator_mqtt.py:304).
TypeOK ==
  /\ up \in BOOLEAN /\ boot \in Boots /\ conf \in 0 .. MaxSaves
  /\ agent \in {"none", "down", "up"} /\ (agent = "up" => up)
  /\ session \in BOOLEAN /\ link \in BOOLEAN
  /\ retained \in {"none", "online", "offline"}
  /\ \A i \in 1 .. Len(inbox) :
       inbox[i] \in [kind : {"state", "online", "offline"}, retain : BOOLEAN]
  /\ zigbee_role \in {"router", "coordinator"}
  /\ {available, confirmed, refresh_pending, was_online, last_update_success,
      saving, retry} \subseteq BOOLEAN
  /\ refresh \in [Refreshes -> Steps] /\ refresh["watchdog"] # "again"
  /\ found \in [Refreshes -> Boots]
  /\ (refresh_pending => refresh["push"] # "idle")
  /\ generation \in Nat /\ proved \in Boots /\ reading \in Boots \cup {FromAgent}
  /\ reader \in [generation : 0 .. generation, boot : Boots, at : {"none", "read", "done"}]
  /\ revision \in 0 .. MaxSaves
  /\ sync.at \in {"none", "apply", "topic"}
  /\ (sync # NoSync => zigbee_role = "router")
  /\ {sync.target, applied} \subseteq [revision : 0 .. revision, generation : 0 .. generation]
  /\ mqtt_sync_state \in
       {"not_configured", "not_used", "offline", "pending", "applied", "failed"}

\* A reading that a task stores was taken in the boot that opened the current
\* generation or later: what was read before an outage is dropped after it
\* (coordinator.py:199 and 253).
ReadingOfThisLink ==
  [][reader.at = "done" /\ reader' = NoReader /\ reading' # reading /\ reading' # NoReading
     => reading' >= proved]_vars

\* Whatever the order of checks, messages and answers, a hub that stays up is
\* in the end shown as available for good, and one that stays down as not
\* available, although MQTT alone may prove it online (coordinator_mqtt.py:30).
LinkFollowsHub ==
  /\ <>[]up => <>[]last_update_success
  /\ <>[]~up => <>[]~last_update_success

\* A Router that stays up gets the settings saved last, also if they were saved
\* while it was off, its answer was lost or it came back without them, and its
\* state says so (coordinator.py:140-178, README.md:201).
SettingsArrive ==
  <>[](up /\ revision > 0) /\ zigbee_role = "router"
    => <>[](conf = revision /\ mqtt_sync_state = "applied")

=============================================================================
