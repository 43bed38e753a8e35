# TLA+ models of the Aqara M1S Zigbee Coordinator + Router integration

This directory specifies the Home Assistant integration
`src/custom_components/aqara_m1s_zigbee_router`: what its parts promise, how they
interact with the hub, the Supervisor, MQTT and the user, and which interleavings,
failures and restarts they survive. Modules are checked with TLC on small instances;
the results that matter most are proved with TLAPS for every value of the constants.

## 1. The system

One Home Assistant config entry controls one Aqara M1S hub. A hub runs stock Linux
with a telnet shell (or an MQTT command channel on a dedicated Coordinator), an ALSA
player, a JN5189 Zigbee radio and, as Coordinator, a relay that exports the radio on
one TCP port to Zigbee2MQTT. Everything in Home Assistant runs on one asyncio loop
(interleaving only at `await`) plus executor threads for blocking telnet work.

| Component | Source | State it keeps | Operations | What is hard |
|---|---|---|---|---|
| Zigbee2MQTT recovery guard | `z2m_guard.py`, `rcp_readiness.py` | settings (stored), phase, pending preflight, restart/probe progress, attempts, grant to believe the bridge | 5 s tick, Configure, bridge/state callback, error handler, restart | state read before an await and used after it, retained and late messages, any command failing, HA restarts |
| Supervisor policy ownership | `z2m_guard.py` | saved original boot/watchdog policy | take, verify, restore | rollback data must be saved before the change; two guards |
| Spinel/HDLC codec | `rcp_readiness.py` | buffer, escape flag | packed, unpack, feed, hdlc, request | escapes at frame ends, integer widths, late answers |
| Hub shell client | `client.py` | telnet session, cached status | run_command, upload/delete sound, network change | partial writes, rollback on the hub, reconnects |
| Hub watchdog | `coordinator.py` | online flag, online generation, what was synchronised | 5 s refresh, lux and diagnostics tasks, synchronisation, light restore | overlapping refreshes, results of an earlier connection arriving late |
| Hub MQTT IO | `coordinator_mqtt.py`, `coordinator_io.py` | availability, pending refresh | callbacks, refresh, publish | retained and late messages, coalescing |
| Shared MQTT settings | `shared_mqtt.py` | settings and revision (stored), lock | load, save, apply to a hub | hubs that are off, restored or answer late; saves that overlap |
| Sound playback on the hub | `hub_audio/sound.sh` | owner, stop and state files, ALSA | play, stop, ready, volume | two invocations, killed scripts |
| Notification sounds in HA | `sound_player.py` | generation, suspended players | play, stop, finish | overlap of sounds, resume after interruption |
| Local volume | `local_audio.py`, `hub_audio/volume_ctl.c` | desired gain, sound gain, applied gain | request, apply, temporary gain | requests while one is applied |
| Radio player | `media_player.py` | play generation, FFmpeg process, transport, recovery | play, stop, pause for sounds, watchdog | stale callbacks of an older generation |
| Media group: control | `media_group.py` | intent, wish, FFmpeg, recovery tasks, members and their players | play, stop, off, resync, restore, reconcile, watchdogs | requests overtaking one another; recovery restoring what was stopped |
| Media group: receivers | `media_group.py`, `group_sync.py` | connection, preparation and quarantine of each hub, claims, the common barrier | prepare, detach, claim, realign | commands of cancelled callers, hubs that leave at any await |
| Media group: PCM | `media_group.py`, `audio_batch.py` | source queue, timeline, shared history, cursors, batches | read, broadcast, write, isolate, flush | limits of queue and history, slow members |
| Entities and UI | `sensor.py`, `button.py`, `switch.py`, `select.py`, `number.py`, `light.py`, `binary_sensor.py` | cached values | commands to the client | light's desired state over reconnects |
| Setup and flows | `__init__.py`, `config_flow.py` | entry data, services | setup, unload, options | order of teardown |
| Hub-side topic sync | `router_mqtt_topic_sync.sh`, `router_mqtt_topic.py` | runtime topic of the agent, lock directory | compare, restart agent, wait for its log | a second call, a killed script, an old log |
| Unused MQTT client | `mqtt_client.py` | - | - | imported by nothing |

Components and their status are listed in `PROJECT.json`; the hazards listed there are
what the properties are for.

How they interact: the coordinator polls the hub through the shell client and publishes
availability, on which every entity, the radio player and the recovery guard depend. The
radio player and the sound player share the hub's one ALSA device and one volume control;
the sound player suspends the radio player and resumes it. The group player suspends the individual
players of its members, and gives a member up to a sound or to its own player. The recovery guard drives the Supervisor, the hub's relay
and (through the broker) Zigbee2MQTT, all of which move on their own. The guards of several
entries share the Supervisor.

What makes each part correct, in a sentence:

- **Recovery guard**: Zigbee2MQTT is started only on a radio that was restarted, probed and
  not replaced since; `Ready` is shown only while that holds; every series of failures ends
  in recovery, a pause or a visible error; a user's pause and a user's Stop are respected.
- **Policy ownership**: the Supervisor policy a user chose is on disk before it is changed,
  is never replaced by the guard's own, and comes back when supervision ends.
- **Sounds over radio**: ALSA is never wanted by two streams, media is never loud because an
  alert was, and a radio that was accepted is heard again, unless the user stopped it.
- **Volume**: what the slider shows is what is heard, once nothing is under way.
- **Sound script**: what plays belongs to Home Assistant, a reported completion is one, and
  the hub's `/tmp` does not fill.
- **Link to a hub**: availability follows the hub, a reading belongs to the connection it is
  shown for, and settings reach every Router.
- **Group**: the user's last word holds against older requests and against recovery; a hub's
  own player is suspended before it is connected, and a sound is let through; what plays is
  in step and whole; one failing member never stops the others.

## 2. Plan

Modules in the order of their importance; those marked with * exist.

1. `Z2MGuard`*, `Z2MGuardProofs`* - the recovery guard and its surroundings.
2. `SupervisorPolicy`*, `SupervisorPolicyProofs`* - several guards on one Supervisor.
3. `AudioPriority`* implementing `Speaker`*, `AudioPriorityProofs`* - sound player over radio
   player.
4. `GroupControl`*, `GroupControlProofs`* - requests and recovery of the group.
5. `GroupReceivers`* - the members' receivers.
6. `GroupFanout`* - PCM from the source to the members; `GroupStreamProofs`* is about both.
7. `HubLink`*, `HubLinkProofs`* - availability, readings and shared settings.
8. `LocalAudio`*, `LocalAudioProofs`* - the gain of a hub.
9. `SoundScript`*, `SoundScriptProofs`* - the processes of one alert on the hub.
10. `RcpProbe`*, `MCRcpProbe`* - the Spinel codec byte by byte and the probe over it.
11. `RadioRecovery` - attempts, bursts and the three timers of the radio player, which
    `AudioPriority` folds into one, with its group claims.
12. `SoundStorage`, `RouterTopic`, `RingLight` - smaller state machines.

Composition: `AudioPriority` composes the two players and the speaker. The group is three
modules that meet at named actions: what `GroupControl` calls preparing a hub is
`GroupReceivers`, whose admission and barrier are single steps of `GroupFanout`. Where two
modules see the same thing (the gain in `AudioPriority` and `LocalAudio`, the pause in
`Z2MGuard` and `SupervisorPolicy`, the alert in `AudioPriority` and `SoundScript`), one of
them holds the detail and the other its outcome, as the sections below say.

## 3. The modules

In every module of asynchronous Python code a program counter names the `await` a task is
suspended at, and a step runs from one `await` to the next: that is the granularity at
which asyncio interleaves. Time is not modelled; a deadline or a delay is a state that a
timer action may leave at any moment. Every module lists its bounds in its opening comment.

### Z2MGuard

`AqaraM1SZ2MGuard.async_tick` and everything around it: the 5 s loop with its lock-free
error handler, the callback `receive`, configuration, reload, the Supervisor's add-on, the relay on
the hub, the broker's retained `bridge/state`, and Zigbee2MQTT.

- `pc` is the await of the tick: `own` (the policy is taken), `snapshot`, `save_pause`,
  `publish`, `stop`, `verify`, `reset`, `recheck`, `probe`, `after`, `start` and the
  handler's `hstop`, `hpublish`. `why` names the caller of `_ensure_stopped`, which several branches
  share. `info` and `snap` hold what the tick read; both may be stale when used.
- `TickBegin` ... `StartFails` are the tick in source order, one action per outcome of each
  await. Every failing command (`SnapshotFails`, `StopFails`, `ResetFails`, ...) may or may
  not have been carried out. `Prepare` and `Continue` are operators, shared as in the code.
- `dialog` is the await of `async_configure`, which holds the same lock: `check` (the reads
  before the settings are adopted), `save`, `subscribe`, `own` (the policy is taken) and
  `undo` (the pause of a failed configuration is saved). The series is reset at the first,
  the store follows at the second and the phase at the last, so in between memory, store
  and phase differ; `stored` is what a restart reads. `Applying` names the awaits after the reset.
- A command that timed out, or whose task a reload cancelled (`async_shutdown` cancels the
  await, not the request), may be carried out later: it is in `late` until `LateStart`,
  `LateStop`, `LateReset` or `LateProbe` takes it, under whichever guard then runs.
- `Receive` is the callback with its grant check; `Publish` and `Redelivery` are the broker's
  retained topic as Home Assistant sees it.
- A relay has an identity that is never reused (`relay`), because the code compares
  `boot_id:pid:start`. `_candidate_since`, `_retry_at` and `_started_at` are the flags
  `settled`, `retry_at` and the three values of `started_at`.
- `probed`, `spent`, `announced`, `user_stop` and `stray` are history for properties; no
  guard reads them. The first three are about the present guard and start anew with it;
  `stray` says that a start the guard did not wait for, the user's or a late one, began the
  run of the add-on (`on`), or came since the radio was last restarted (`over`).
- Simplified: the awaits of `check` and of `own` are one each here (they are apart in
  `SupervisorPolicy`), the readiness checks of the snapshot are the one flag `hub_ready`, and
  a restart in the middle of a dialog is one of Home Assistant: a dialog that goes on in the
  old guard while its entry is reloaded is left out.

### SupervisorPolicy

`async_configure`, `_take_ownership`, `_restore_supervisor`, `async_initialize` and
`async_shutdown` of any number of guards, and the ticks that take the policy.

- `settings`, `saved` and `store` are `settings["enabled"/"addon_slug"]`, `self.saved` and
  the file; `pc` is the await, `flow` tells a dialog from a tick; `original` is the policy
  an add-on had when no guard held it.
- A policy is a (boot, watchdog) pair as a member of a set with one distinguished member
  `Gated`. A pair that does not match the request when read back is treated as a failing
  read, as in the code.
- `Contested` is the check of lines 187 and 227: guards in `DATA_GUARDS` that are enabled
  for the add-on. A guard whose entry is not set up, or not yet initialised, is not seen.
- A save always reaches the disk or the process dies (`Crash`): Home Assistant's store logs
  write errors and goes on. A dialog is not cancelled by unloading its entry, so `Unload`
  waits for it. `Drift` is a policy changed by the user or another program on an add-on
  with a stored record. A tick that finds the add-on contested raises and changes nothing,
  so it is not an action.
- `Anytime = FALSE` leaves out dialogs while the entry of another guard is being set up and
  dialogs that overlap one a restart interrupts. That exclusion is needed for `Returned`:
  see `SupervisorPolicyReload.cfg` in section 5.

### AudioPriority and Speaker

`sound_player.py` (play, play URL, stop, watcher, begin and finish of the priority) over
the transport of `media_player.py` (play, resume, stop, suspend, receiver rebuild,
watcher, retry), one hub.

- A lock is the queue of tasks that asked for it; `spc` and `rpc` are the awaits of the
  heads. `fresh` in a radio task stands for "its generation is the current one": the code
  only compares generations for equality.
- `intent` is `_resume_after_reconnect`, `suspended` the suspension by a sound,
  `interruption` and `resume_radio` the sound player's record of it.
- Cancellation is explicit: the caller of a play or a stop that holds the lock may be
  cancelled at every await in `CancelAt`. `CancelCall`, `CancelHandover`, `CancelRestore` and
  `CancelResume` are the awaits up to the start and those of `_finish_priority`; `CancelStart`
  is the shielded start, whose compensation goes on for an await each (`CancelledStart` waits
  for the start, so that the sound is heard, `NewStopped` stops it), and `CancelSettling` a
  second cancellation in it. Cancelling a radio task does not cancel the command its thread
  executes: `orphans` counts starts that appear later. The private audio channel is first in,
  first out.
- `abandoned` and `accepted` are history: the sound on the hub is one whose stop failed or
  was not waited for; a stream was asked for and accepted, and has not been lost by a Stop, a
  failed resolution or a caller cancelled while the radio is suspended, its gain is restored
  or it is resumed. A cancelled restore skips the resume (`sound_player.py:58`: only an
  `Exception` is caught), and no later step resumes that stream.
- `output` and the hub's level are a function of the state (`Output`), with which the module
  implements `Speaker`: who may be heard, at which of two gains.
- Simplified: gains are two levels (`LocalAudio` has the numbers); group claims are an await
  and no more; the hub is online; the three retry timers are one, with no attempt limits;
  callers that wait for a lock are not cancelled; a stop because the source's buffer is
  empty is covered by `ReceiverDies`.

### LocalAudio

`AqaraM1SLocalAudio`, the volume half of `local_audio.py`, with the slider and mute button.

- `desired`, `sound_gain`, `applied` and `_ready` as in the code; the controller's lock is a
  queue of users, `step` and `sent` the await of its head and the level it sends.
- A gain is 0 or one of `Top` equal steps in dB; `GainToLevel`, `NoAudibleMinimum` and
  `FullScale` are the code's conversion to the ALSA range with its rounding.
- A command of a cancelled caller is carried out or not, never after a later one.

### SoundScript

`hub_audio/sound.sh` as the scripts and subshells it runs, called by Home Assistant.

- `script["fg"]` is the one Home Assistant waits for; when its connection is lost it is
  killed or goes on as `script["ghost"]`. `sub[t]` is where the subshell of token `t` is and
  `child[t]` its `wget` or `aplay`.
- `Downloads` are the tokens whose alert `wget` fetches first, `Slow` lets a subshell take
  longer to record itself than `start` waits.
- `owner`, `state`, `stop_file` and `cache` are the files; every test and every removal of
  a file is a step of its own, except that `status` is one step.
- The `pid` and start time the script compares are the token and its program, so a reused
  pid is not mistaken for the old one. A kill takes effect in the same step. Once its
  program has ended, a subshell is quicker than the next command to arrive.

`Undisturbed` says that no connection was lost and no subshell was killed; `OwnedSound` and
`NothingLeft` are about such a run in which no downloaded alert was given up while its
subshell lives (`NoneOrphaned`; section 5 says what happens then).

### GroupControl

The users of the group and its recovery, over one lock and one FFmpeg.

- A request is known by the intent it took (`next_media_intent`); `asked[n]` is the request
  with intent `n` and the await it is at. `lock` is the queue of `_lock`; its head is at
  `step`. `want` holds what the manager remembers, `stream` the FFmpeg that runs, with the
  intent it was started for.
- `tasks` are the reconcile loop, the watchdog restart, the slow retry and the health watch;
  each schedules and cancels the others as the code does (`Scheduled`, `CancelRecovery`,
  `Missing`, `Stable`). Cancellation of the reconcile task that starts FFmpeg is one step,
  as is the reconcile task that dies of a missing FFmpeg (`"dead"`: the `RuntimeError` of
  line 1650 leaves the loop).
- A Stop that waits 6 s for the lock resets with an intent of its own (`StopTimesOut`), and
  a reset that waits too long cleans up without the lock (`ResetTimesOut`, the request
  `"forced"`): this step runs beside whatever holds the lock.
- The individual players are `held` (they are suspended) and `suspended` (the group knows);
  between the two the preparation can be cancelled, and the player can be given back.
  `OneSource` is an action property: nobody is connected whom the group does not take for
  suspended, and only a late note (`NotedLate`) makes it take one for suspended who is not.
- Switching a hub off is two steps, `Disable` up to the await on `_detach_member` and
  `Disabled` after it (`disabling` counts the calls in between), and switching it on is
  `Enable` and `Enabled`. When a hub is switched on again during the detachment, `Disabled`
  gives its player back although the group has the hub again; `overtaken` is history, the
  hubs this happened to, which `OneSource` excepts until the group suspends its players anew.
- Simplified: cooldowns and delays are timers; the hubs whose players a start suspends are
  chosen when it begins, and a restored station notes the hubs selected when its own
  suspensions end (`RestoreSuspends`); a cancellation swallowed by `_cancel_task` of
  a preparation that had just ended is not modelled; the attempts' limit is 1 and
  `PERIODIC_RECEIVER_RESYNC_MIN_MEMBERS` a constant (3 and 2 in the code).

### GroupReceivers

Preparation, detachment, quarantine, claims and the barrier, for each hub.

- `pending[h]` are the commands on their way to a hub in order, with who waits for each.
  A caller that times out or is cancelled leaves its command there, by nobody.
- `detach[h]` are the calls of `_detach_member` that have not returned: several can be at
  work on one hub. `Withdraw` is what such a call does before its first await.
- `bc` is the broadcaster with the barrier of `_realign_receiver_cohort`: `RealignCohort`,
  `BarrierDetached`, `BarrierPrepared`, and `Primed` with the common prefill. `gate` is
  `CohortAlignmentGate`. `aligned` is history: the hubs that took the last common prefill.
- `away` are hubs that played but did not answer when a barrier began: they are left out of
  it, and `InStep` excepts them.
- `admitted[h]` is `ready_for_fanout`, `troubles` the faults that are left. Here and in the
  specification (`ReceiversInit`, `ReceiversNext`, `ReceiversSpec`) the names are not those
  of `GroupFanout`, so that `GroupStreamProofs` can extend both modules.
- Simplified: quarantine reasons are the fault `Slow`; the timing of drains and samples is
  that choice. A Play that fails (`PlayFails`) makes barriers refuse until the next start.

### GroupFanout

`_pcm_producer`, `_broadcast`, `_member_writer` and `next_batch_boundary`.

- PCM is the number of its chunk in the source, 0 is silence. `timeline` is all that was
  numbered, `history` the numbers the shared deque still holds, `cursor[m]` where a writer
  reads. `given[m]` is history: what the member was sent since its prefill.
- The constants carry the code's names, with small values. Batches of
  `GROUP_TRANSPORT_TARGET_MS` are rounded up to whole periods as in `audio_batch.py`.
- `Prefill`, `Start` and `Realign` admit members together, `Isolate` (`Behind`, `Overrun`,
  `LagsBehind`, `DrainTimesOut`) takes one out.
- Simplified: pacing is a step without time, and underruns, silence and expired drains are
  choices within their bounds.

### RcpProbe

`rcp_readiness.py`: the codec of Spinel over HDLC and `probe_rcp`, one TCP connection.

- Bytes are numbers below 256; `Hdlc`, `Feed`, `Packed` and `Unpack` are the code's functions
  with its escapes, its checksum, its limit on a frame and its exceptions.
- `at` is the request that waits for its answer, `tid` its transaction number, `decoder` the
  receive buffer; `failure` is what is raised once the `finally` that switches the radio off
  is through. The deadline (`Expires`) is one for all requests.
- `requests` and `line` are what is on its way in each direction; the RCP acts, notifies,
  and the line damages or loses a byte or breaks. A read returns a piece of what is there.
- `spoken`, `heard` and `was_on` are history for properties.
- Simplified: the socket is open already, a firmware text is one byte, the limit is 10 bytes.

### HubLink

`coordinator.py`, `coordinator_mqtt.py` and `shared_mqtt.py`, one hub.

- `refresh` is the await at which each of the two refreshes is suspended - the watchdog's
  and the one that messages ask for - and `found` the result of its Telnet check, which may
  be stale when it is used. Both assign the same coordinator.
- A message is a state (with its telemetry) or an availability, live or retained;
  `proved` is history, the boot that opened the current generation, and `reading` knows the
  boot it was taken in.
- `sync` is `_mqtt_task` with its target, `applied` and `retry` what it leaves.
- The hub, its agent, the broker and Home Assistant's MQTT client are external: `AgentConnects`,
  `BrokerNotices` (the will), `HubUp`, `LinkUp` (retained messages again). A hub that was
  seen to be away may come back restored, without its settings; it is not restored within
  one interval of the watchdog.
- Simplified: payloads are valid and of the entry's role; the debouncer's delay is that the
  refresh begins later; the topic script is its outcome (`TopicReady`); the ring light is left
  out. `apply_to_hub` restarts the IO agent after it has replaced the file
  (`shared_mqtt.py:72-74`), and fails when the restart does: the failure is one of the faults of
  `SyncApplies`, with the file replaced, but the agent stays as it is in the model. Settings
  are saved only in the run of a Router without the agent.

## 4. The runs

| Run | What it shows | Distinct states |
|---|---|---|
| `guard` | two faults of any kind at any await: only a probed relay is handed over, Ready is never stale, a pause is stored, recovery or a visible end, an outage is contained; Configure await by await, late commands | 896 000 |
| `policy_ownership` | two guards, two add-ons, three dialogs, one fault, one restart or reload, one drift: one claim at a time, the original saved first and returned | 295 000 |
| `audio_priority` | two sounds, two user actions, two faults, cancelled callers: the radio yields, keeps Stop, comes back; what is heard is owned; refinement of `Speaker` | 392 000 |
| `volume` | alerts, slider, mute, starts, a fault, cancellation: every stream has its own gain, and the slider is obeyed | 547 000 |
| `script` | a downloaded alert and a stored one after it, a lost connection, a killed subshell: owned, nothing left, completion is real, every job ends | 559 000 |
| `group_control` | two requests or a restored station against failures, hubs that leave and every recovery task: Stop stays, a player is suspended before its hub is connected, the newest Play plays | 621 000 |
| `group_stop_newer` | *violation*: an old Stop stops a newer Play | - |
| `group_receivers` | two hubs, two faults, claims, Stops and Plays: a hub that is taken is let go, what plays is in step, hubs rejoin | 375 000 |
| `group_fanout` | a source of six chunks through a queue of three and a history of four, two members: the timeline and the source are whole, nobody is kept from them | 148 000 |
| `hub_link` | a Router with agent or a Coordinator, an outage, one broken connection: availability follows the hub | 1 069 000 |
| `hub_settings` | a Router without agent, two outages, settings saved twice, one lost command: settings arrive, readings do not cross an outage | 394 000 |
| `rcp_probe` | seven kinds of RCP, an earlier session's bytes on the line, a notice, a damaged byte or a broken connection, chunks cut within frames and escapes: only the supported RCP passes, it does pass, the radio is left off | 375 000 |

Where a theorem proves the type invariant of a module (section 6) its run does not repeat it,
except in the modules of the group, where it also limits queue, history and restarts and ties
a hub to its member. Further configurations are run by hand and pass: `AudioPriorityUsers.cfg`
(three sounds that replace one another, callers cancelled everywhere but in the restore:
`OwnedSound`, `SuspendedForASound`) and
`Z2MGuardRadio.cfg` (the instance of `guard`: `ExclusiveRadio`, `FreshAck`).

**Bounds.** `MaxFaults = 2` in the guard lets a failure meet the failure of its own
handling (a command that fails in the tick, and another in the error handler), and a command
in flight outlive a reload and meet a fault of the next guard; what fails within a dialog
spends no fault of its own. With
`MaxAttempts = 2` a series has a first, a last and an exhausted attempt; `MaxInbox = 3` lets
an `online`, an `offline` and a retained message overtake a step of the tick. In the policy, two guards and two
add-ons are the smallest instance in which an add-on is contested and a guard moves to
another one. In the audio model two sounds are a replacement; two user actions give
Play-Stop and Stop-Play inside a sound. In the script a stored alert meets the owner file,
the ghost and the subshell of the downloaded one before it; the other order passes as well. `Top = 3` with three slider positions has a silent,
a quiet and a loud gain and an alert louder than the slider. In the group's control two
intents are a request, or a restored station, and the one that overtakes it; the one fault
and the one late step suffice for a hub that is switched off and, before that has ended, on;
one hub is enough, since hubs meet only in `GroupReceivers`. There, of two hubs one fails
while the other plays, and two faults let a claim or a departure meet a failure. In the
fan-out the queue is full, empty and refilled within six chunks, a batch is one or two
periods, and a history of four is shorter than what a slow member can lack. In the link one
outage and one fault overlap both refreshes; two outages and two revisions in `hub_settings`
let settings change while older ones are on their way and the hub come back without any. In
the probe one fault damages any byte of any answer, what is left on the line is a whole
frame, half of one and a stray escape or more than fits, and pieces of three bytes, or of all
there is, cut every frame within, the text of the notice behind an escape.
Most runs stop when their bounds are used up and everything is quiet, hence
`CHECK_DEADLOCK FALSE` (the watchdog of `HubLink` never ends, and it is not said there);
that nothing hangs before is what the liveness properties say.

**Fairness.** Weak fairness unless said, and only of what the runtime guarantees:

- guard: the loop's next tick comes, a command of the tick or the dialog is answered one way
  or the other (both are tasks of one event loop, and hold one lock in turn), timers elapse,
  messages are delivered, the hub closes the probe's socket, Zigbee2MQTT reaches `online` on a working radio.
  Late commands, faults, operators and other clients are never fair;
- policy: the Supervisor answers (`Command`), a tick comes, an unloaded entry is set up
  again. Dialogs, faults, restarts and drift are not fair;
- audio: the holder of a lock is resumed, a watcher runs, a retry timer fires, a sound ends.
  Users, cancellation and faults are not fair;
- volume: the slider task and the audio path are resumed;
- script: Home Assistant polls, processes are scheduled, programs end;
- group: the holder of the lock and every task are resumed, timers fire, a hub that left
  returns; that switching a hub off or on ends is not needed. A member that is prepared again and again connects in the end, and the barrier,
  which checkpoints enable again and again, begins in the end: strong fairness, because in
  between other members take the hub or the broadcaster away;
- link: timers fire, executor jobs return, the broker and Home Assistant's client deliver
  and reconnect, the agent connects. Power, saves and faults are not fair.

A run has a bounded number of faults, so its liveness properties say what happens after the
last one: against an environment that keeps failing nothing can be promised.
`RecoversOrGivesUp`, `Contained`, `PlayWins`, `Rejoins`, `LinkFollowsHub` and
`SettingsArrive` say in addition which lasting condition they are about.

**Mutants.** For each property `PROJECT.json` names a plausible slip in the code (a dropped
check, a missing reset, a swapped order) as an operator of the module; under it the run
finds the property violated.

## 5. Disagreements found

Shown by a violation run, with the source and the sentence it contradicts in `PROJECT.json`:

- **An old Stop stops a newer Play** (`group_stop_newer`, `media_group.py:1217`). A Stop that
  waited 6 s for the lock resets the group with a new intent and clears the wish of a Play
  that came after it.

Further ones are reproduced with the configurations below; `tlc -config <cfg> <module>`
prints the behaviour.

| Configuration | Property | What happens |
|---|---|---|
| `Z2MGuardUserStop.cfg` | `UserStopRespected` | the add-on state is read before the await on the relay snapshot (`z2m_guard.py:317`); a user's Stop in between looks like a lost connection, and the guard starts the add-on again |
| `SupervisorPolicyReload.cfg` | `Returned` | while the owner's entry is reloaded a second coordinator is configured for its add-on (`z2m_guard.py:227`) and records the gated policy as the original |
| `AudioPriorityResolve.cfg` | `RunningStreamIsFed` | the generation is advanced before the media source is resolved (`media_player.py:1274`); a failed Play orphans the stream that runs |
| `AudioPriorityIntent.cfg` | `IntentControlsResume` | Play pressed during a sound returns at `media_player.py:365`; after a Stop earlier in the same sound nothing resumes. `README.md:226` of the source says the latest intent decides |
| `AudioPriorityHandover.cfg` | `IntentControlsResume` | a play cancelled while the radio is yielding (`sound_player.py:44`) leaves the stream stopped with nobody to resume it |
| `AudioPriorityStuck.cfg` | `SuspendedForASound` | a caller of a play or a stop cancelled in `async_restore_media` (`sound_player.py:58`) skips the resume: the stream that was set aside does not come back, and the radio stays suspended, and refuses every Play, until the next sound ends. `media_player.py:489` says "_finish_priority() clears the suspend flag either way" |
| `LocalAudioDead.cfg` | `SliderAlwaysObeyed` | one failed volume command sets `_ready` to False (`local_audio.py:259`), and `request_gain` returns while it is (`:241`): until the stream starts again the slider and the mute button change what is shown, not what is heard. `media_player.py:1410`: "Update the shared hub volume" |
| `LocalAudioMute.cfg` | `AlertRespectsMute` | mute pressed while ALSA is checked is overwritten by the older snapshot (`local_audio.py:207`); `SOUND_MUTE_POLICY_RO.md:62` says the alert stays silent |
| `SoundScriptSlow.cfg` | `OwnedSound` | a start that gives up on a slow subshell (`sound.sh:78`) is followed by stop and cleanup, and the subshell then plays without an owner |
| `SoundScriptUrl.cfg` | `DownloadIsPlayed` | `status` between `wget` and `aplay` (`sound.sh:89`) finds no process and reports the alert finished; the subshell that goes on may overwrite the owner file of the next alert (`sound.sh:50`), whose stop then kills nothing: `NoneOrphaned` excepts such runs from `OwnedSound` and `NothingLeft` |
| `GroupControlRelease.cfg` | `StopReleases` | a preparation cancelled in `async_suspend_for_group` (`media_group.py:642`) leaves its player suspended although the group never notes it; a Stop does not release it. `README.md:235` says it does |
| `GroupControlSource.cfg` | `OwnPlayerSilent` | a restored station suspends the players (`media_group.py:1107`); a Stop that overtakes it gives them back, and the suspension that ends after that still notes them as suspended (`media_group.py:648`). The next Play skips the suspension (`media_group.py:1975`) and connects a hub whose own player may play |
| `GroupControlSwitch.cfg` | `OwnPlayerSilent` | `async_member_disabled` awaits the detachment of the hub before it gives the player back (`media_group.py:424`, `media_group.py:427`); a hub that is switched on again in between is suspended, connected, and then its own radio player resumes beside the group |
| `GroupControlStation.cfg` | `StationIsNewest` | `media_play` stores its station before its intent is checked (`media_group.py:4108`); the next recovery of a newer Play takes the older one's. `CHANGELOG.md:333` excludes it |
| `GroupReceiversStop.cfg` | `StopLeavesNothing` | a Stop cancels a preparation whose start command is under way, and stops only hubs that have a writer (`media_group.py:1165,1773`): `nc` and `aplay` stay on the hub. `CHANGELOG.md:124` asks for the remote cleanup |

Seen while modelling the link, without a run:

- `README.md:163` says that a Router's availability keeps the LAN probe; `coordinator_mqtt.py:32`
  takes a live MQTT availability alone as proof, so while Home Assistant's own connection to
  the broker is down a hub that was switched off stays available until it is back.
- `README.md:197` lists four synchronisation states; the code has `offline` and `not_used`
  as well, and `offline` stays after an outage when there is nothing to synchronise.
- `shared_mqtt.py:72-74` on a Router restarts a service below `/data/m1s_coordinator`, and a
  retry after a failed restart finds the file equal and answers OK without one. What the
  service would read is not in this repository.

## 6. What is proved

All theorems hold for every value of the constants allowed by the modules' assumptions
(any number of guards, add-ons, members, sounds or alerts, any limit, any number of faults
and restarts); they need no further assumption unless named. Every safety invariant rests on
an inductive one, which TLC has checked on the module's instance before it was proved.

**Z2MGuardProofs.** `TypeCorrect` goes through each action and each group of variables; it
includes that attempts never pass their limit. The safety theorems rest on `GuardInv`. The
properties speak of `Ready`, of the start, of the grant, whereas a step from one await to
the next sees only what the previous one left behind. So the invariant says what still
holds at each await:
`Held`, what the lock protects (a tick and a dialog exclude each other); `Preparation`, that between the stop and the start the
remembered runtime is the snapshot's and no grant exists; `PreflightReady`, that from the
reset on the restart is unused and, at the start, the last probe is of the snapshot's relay;
`FreshRestart`, that a completed reset is unspent; `ProbeMemory`, which relay the remembered
probe stands for - it may differ for one step, between a probe that met a newer relay and
the snapshot that reveals it; `Grant`, `Belief` and `Verified`, how the grant, a believed
`online` and `Ready` rest on them. `StartsOnlyProbed`, `GrantsCarryProbe` and
`ReadyIsVerified` follow; the last excepts the awaits of a Configure between its reset and
its phase, where the code does show Ready with a pending invalidation. `RadioIsExclusive` has
an invariant of its own (`RadioInv`: from the verified stop on the add-on is down, unless a
stray start made it run, which no code of the guard could prevent). It needs no assumption on
what a reload leaves in flight.
`PauseIsSaved` uses `PauseInv`, and excepts the awaits of a Configure that has replaced the
stored pause. `RunningIsFresh` is the action property `FreshAck`. Its invariant
(`AnnounceInv`) follows an announcement from Zigbee2MQTT to the guard: an add-on that does not
run has no session and announces nothing (`Unlinked`), what it said before the radio was
restarted has been delivered before the start, because a preparation publishes and waits for
the broker first (`Rested`, `Cleared`), and as long as nothing was announced, nothing on its
way or heard can be taken for an announcement (`Unheard`). A stray start between the restart
of the radio and the guard's own start defeats it, even one that was stopped again: TLC finds
the announcement of that start believed in the next.

**SupervisorPolicyProofs.** `PolicyInv` is `TypeOK`, `Busy` (a guard that is at an await has
a loaded entry and the settings its place implies) and `Persisted` (store and memory differ
only at the awaits that save). One lemma per action shows that it is kept. `RollbackIsStored`
follows: at the command that changes a policy the record is in memory, and memory is on
disk. `ClaimsAreExclusive` is the argument of a flag protocol: a guard's setting for an
add-on is assigned before it looks at the others' and there is no await between its look
and its claim, so of two guards the later one sees the earlier. `ClaimStep` states what of a
step that argument needs, and holds with overlapping dialogs (`Anytime = TRUE`) as well.

`PolicyComesBack` is `Returned`, under `~Anytime`. Its invariant (`ReturnInv`) follows the
record instead of the policy: a record holds the owner's policy (`Agreed`), and while the
Supervisor has another one some guard holds a record, in storage and, if it is loaded, in
memory (`Held`). The step that could break this is the one that records what it reads:
`FoundIsOriginal` shows that what it reads is the owner's, because a holder that is loaded
was seen by the check before (`Alone`), and one that is not loaded claims the add-on, which
`Apart` excludes. `Apart` is where dialogs must keep away from entries that are not set up,
and the only place.

**AudioPriorityProofs.** `PriorityInv` says of the two players what the locks protect: a
sound with priority keeps the radio suspended until it is given back (`Priority`); the radio
is `Silent` from the confirmed yield on; a task of the radio that can still open the device
is fresh, was let past its check and has confirmed the media gain (`MayOpen`), and is wanted
by the user (`Wanted`); a Stop that is queued or done stands (`StopStands`). `TheRadioYields`
and `AStopStands` follow. `ImplementsSpeaker` is the refinement: initial states map to those
of `Speaker`, and every step to a step of it or a stutter (`Speaks`, proved together with the
invariant for each action, because which of the two gains may be heard depends on it).
`EverySoundIsOwned` needs `WatcherInv`, which ties the watcher to the token: it exists only
for a sound that is kept, waits for the lock once, and leaves the queue when its sound is
taken over. Hence a completion that gets the lock ends its own sound and no later one. Every
way to give a priority back is then shown to come after the sound was stopped, or to be one
of the failures and cancellations `abandoned` records (`FinishesLeaveNone`).
A preemption removes the queued retries from the middle of a lock, so the proofs need what
`Without` does to a sequence of any length: the tasks that stay are those that were there, in
order, each once. Since induction principles cannot be instantiated, this is proved by a
least counterexample, from `WFMin` of the library for the order of the naturals.

**LocalAudioProofs.** A gain reaches the hub in steps. `AudioInv` says that each caller is in
the lock once (`LockUsers`), that the level sent is of the state read under the lock or of a
request that came since (`Commands`), and that as long as the level is wrong somebody is at
work to set it right (`Heard`). `PlaysAtItsOwnGain` is `RightGain`; its assumption
`AlertStandsOut` says that an alert's level is none of the slider's, without which "media at
the gain of an alert" could not be told from media at its own.

**SoundScriptProofs.** `EndIsExit` has no assumption: with connections lost at any point,
ghost scripts, killed and slow subshells, an end reported by the state file is the exit of
the player (`WatchInv`: `DONE` is written by the subshell after its wait, and by nobody
else). `AlertIsOwned` and `FilesAreRemoved` assume `~Slow`, that a subshell is not slower
than `start` waits, and speak of runs without loss or kill, as the properties do; `SoundInv`
gives, for each phase of Home Assistant (`Phase`), the files and processes of the current job
(`Shell`, `Starting`, `Cleaning`, `OwnJob`), and of all others that they are clean
(`Strangers`). It says so (`Calm`) until a download is orphaned; that an orphan remains one,
and `Calm` need not come back, rests on `OneScript`, which holds with orphans too. The attempt to prove the properties as they were first stated failed on the
overwritten owner file of section 5: they had held in TLC's instance only because the
download was the last alert. They are now stronger where they hold (no file of any alert is
left, downloads included) and name the exception.

**GroupControlProofs.** Neither `StoppedStays` nor `OneSource` is inductive; `ControlInv`,
which TLC checked before it was proved, says what holds on the way. `LockInv`: everybody in
the queue of `_lock` is a task or a request of that kind, and a Stop that holds the lock is at
the places of a Stop. `Programs` and `Cleaners`: which request can be at which await. `Stops`:
from its first step on, the newest Stop is in the queue and will tear the stream down
(`Coming`), or it has, and whoever holds the lock now builds nothing up (`Gone`). So a
restart, a retry or an older Play that was at an await when the Stop came finds its intent
outdated or is cancelled; `StopStands` is the end of that. `Players`: whose player is held
while a hub is prepared (`Prepared`), while the holder of the lock gathers players
(`Gathered`) and while a restored station waits for its own suspensions (`Restored`).
Each excepts the hubs in `overtaken`, whose player `Disabled` gave back; that only hubs of
the group are prepared (`Off`) is why a hub that stays switched off needs no exception.
`SuspendedFirst` is the action property `OneSource`; `Sourced` is what one step contributes,
and the note that `NotedLate` excepts is the only step that makes a player mistaken. The
exception `Forced` is the reset that runs beside the holder of the lock. As in
`AudioPriority`, requests are taken from the middle of a queue of any length;
`WithoutKeeps` says what remains.

**GroupStreamProofs.** For `GroupFanout`: `TimelineIsWhole` and `SourceIsWhole` rest on
`FanoutInv`: what a member was given ends at its cursor and has no gap (`Gapless`), the queue
continues the source where the broadcaster left it (`QueueNext`), and the timeline from a
member's prefill on has the source in its order (`Played`). `HistoryHasNoHole` is the type
invariant, with the limits of queue and history.

For `GroupReceivers`, `ReceiverInv` is what each of the calls that overlap on a hub leaves
for the others. `Linked`: a hub serves exactly the connection its member has, a member that
is detached, prepared or claimed has none (`Member`), and of the commands on their way a
preparation awaits at most one, and none once it waits for something else (`Awaits`).
`Course`: after a Stop nothing is left (`Ended`), a barrier detaches its whole cohort before
it prepares (`Emptied`), nobody is admitted before the prefill (`Unready`), who plays during a
barrier was left out of it (`Left`), and all that play took the last prefill (`Together`).
`TakenIsLetGo` and `AllInStep` follow; `ReceiverTypes` is the type invariant.

**HubLinkProofs.** `ReadingsOfThisLink` is an action property: a reading is stored two awaits
after it was started. `ReaderInv` says that a link is opened by a boot that was seen, that
boots only grow, and that a reader of an earlier link has a smaller generation. `LinkTypes`
includes that a refresh a message asked for is under way or still to come (`RefreshInv`).

**Only model-checked.** All liveness (`RecoversOrGivesUp`, `Contained`, `Gates`,
`MediaRecovers`, `SliderObeyed`, `JobEnds`, `PlayWins`, `Rejoins`, `LinkFollowsHub`,
`SettingsArrive`, `Delivered`), which is out of the prover's reach, and all of `RcpProbe`:
its checksum uses `Bitwise`, its codec is a recursive computation over data, and what it
promises depends on what is on the line (an earlier session that left an answer under the same
transaction number would be believed), so that the properties are about the given values of
`Leftovers` and `Notices` and not about all. `next_batch_boundary` is an integer for the proofs
of the fan-out, and no more: how long a batch is, is TLC's.

## 7. What is not modelled

- Hazards listed in `PROJECT.json` without a property say why. Most have a property of a
  module that does not hold and a configuration that shows it (section 5).
- Of the radio player: playout pacing, attempt limits, group claims and restoring after a
  restart. Of the group: volume, titles, diagnostics and the timing audit. Of the link: the
  ring light, where `turn_on` meets the cleanup 10 s after the first connection, titles,
  reload and shutdown. The sound commands of `coordinator_mqtt.py` are called by nothing.
- In `SoundScript`, a finishing subshell delayed past a stop, a cleanup and a new start
  (`sound.sh:43`) is outside the timing assumption.
- The sound storage of `client.py` and the lock of the topic script are planned (section 2).
- Entities, forms, translations, metadata parsing, the telnet dialogue and the packaging of
  the audio helper have no protocol of their own or are pure I/O. `mqtt_client.py` is
  imported by nothing.
