---------------------------- MODULE GroupControl ----------------------------
(***************************************************************************)
(* The media group of media_group.py as its users and its own recovery     *)
(* drive it: requests with their intent, the lock of the manager, the one  *)
(* FFmpeg of the group, the tasks that restart it, and the individual      *)
(* radio players that are suspended while the group owns their hub.  What  *)
(* happens on the receivers is GroupReceivers; here a hub is prepared or   *)
(* not.                                                                    *)
(*                                                                         *)
(* A request is known by the intent it takes (next_media_intent), and      *)
(* asked[n] is what the request with intent n does.  lock is the sequence  *)
(* of those that asked for _lock: its head holds it and step is the await  *)
(* the holder is suspended at.  A step runs from one await to the next;    *)
(* the awaits inside _stop_stream_locked are one.                          *)
(*                                                                         *)
(* Bounds: MaxIntents requests that take an intent, MaxFaults failures and *)
(* changes of hubs, MaxLate steps out of time: expiries of the 6 s that a  *)
(* Stop waits, and what else outlasts what it seldom outlasts.             *)
(***************************************************************************)
EXTENDS Naturals, Sequences, FiniteSets, SequencesExt

CONSTANTS Hubs, Stations, MaxIntents, MaxFaults, MaxLate,
          PERIODIC_RECEIVER_RESYNC_MIN_MEMBERS   \* 2 in the code

WATCHDOG_MAX_RESTARTS == 1      \* 3 in the code: the limit is what matters
ASSUME GroupConstants ==
  /\ IsFiniteSet(Hubs) /\ Stations # {} /\ "none" \notin Stations
  /\ PERIODIC_RECEIVER_RESYNC_MIN_MEMBERS \in Nat
  /\ MaxIntents \in Nat /\ MaxFaults \in Nat /\ MaxLate \in Nat

VARIABLES
  intent,       \* _intent_generation
  asked,        \* requests by intent: [op, at, station]
  lock, step,
  gather,       \* hubs the holder still waits for in _suspend_individual_for_group
  want,         \* [desired, media (media_id), url (media_url), startup, attempts]
  stream,       \* [feed, url, intent, prime]: FFmpeg with its url and intent, and
                \* how far its broadcaster is, "stalled" when it has ended
  tasks,        \* [reconcile, watchdog, slow, health]
  selected, able,       \* hubs in the group; hubs online and without a sound
  prep,         \* prepare_task and writer of a member
  suspended,    \* member.individual_suspended
  held,         \* _group_suspended of the individual player
  enabling,     \* hubs async_member_enabled is suspending
  disabling,    \* calls of async_member_disabled that are detaching the hub
  overtaken,    \* history: hubs switched on again whose switching off then gave
                \* their player back, until the group suspends its players anew
  faults, late

hubs == <<selected, able>>
switches == <<enabling, disabling, overtaken>>
players == <<suspended, held, switches>>
bounds == <<faults, late>>
queue == <<lock, step, gather>>
vars == <<intent, asked, queue, want, stream, tasks, hubs, prep, players, bounds>>

Users == {"play", "resume", "stop", "off"}
Background == {"reconcile", "watchdog", "slow", "health", "resync"}
Owner(op, n) == [op |-> op, n |-> n]
Recovery(op) == Owner(op, 0)
NoStream == [feed |-> "none", url |-> "none", intent |-> 0, prime |-> 0]
Running == stream.feed \notin {"none", "spawning"}       \* ffmpeg_running
Active == {h \in Hubs : prep[h] = "up"}                 \* active_members
Eligible == selected \cap able                          \* _eligible
Suspending == {h \in Hubs : prep[h] = "suspend"}
AllIdle == [h \in Hubs |-> "no"]
Holds(ops, s) == lock # <<>> /\ Head(lock).op \in ops /\ step = s
Me == Head(lock)
Release == lock' = Tail(lock) /\ step' = "enter" /\ gather' = {}
Queue(owner) == lock' = Append(lock, owner) /\ UNCHANGED <<step, gather>>
Fault == faults > 0 /\ faults' = faults - 1 /\ UNCHANGED late

\* Mutant of IsCurrent.
AnyRequest(n) == TRUE

\* media_intent_is_current.
IsCurrent(n) == n = intent

\* Restored with a station: arm_startup_restore took the first intent.
Init ==
  /\ \E restored \in BOOLEAN, station \in Stations, direct \in BOOLEAN :
       /\ intent = (IF restored THEN 1 ELSE 0)
       /\ asked = (IF restored THEN <<[op |-> "startup", at |-> "resolve",
                                       station |-> station]>> ELSE <<>>)
       /\ want = [desired |-> restored, media |-> IF restored THEN station ELSE "none",
                  url |-> IF restored /\ direct THEN station ELSE "none",
                  startup |-> IF restored THEN "waiting" ELSE "no", attempts |-> 0]
       /\ tasks = [reconcile |-> IF restored THEN "run" ELSE "no",
                   watchdog |-> "none", slow |-> "none", health |-> "none"]
  /\ lock = <<>> /\ step = "enter" /\ gather = {}
  /\ stream = NoStream
  /\ selected = Hubs /\ able = Hubs /\ prep = AllIdle
  /\ suspended = {} /\ held = {} /\ enabling = {}
  /\ disabling = [h \in Hubs |-> 0] /\ overtaken = {}
  /\ faults = MaxFaults /\ late = MaxLate

-----------------------------------------------------------------------------
(* Requests of the user.                                                   *)

At(n, op, place) == asked[n].op = op /\ asked[n].at = place
GoTo(n, place) == asked' = [asked EXCEPT ![n].at = place]
NextIntent(op, place, station) ==
  /\ intent < MaxIntents
  /\ intent' = intent + 1
  /\ asked' = Append(asked, [op |-> op, at |-> place, station |-> station])
NoStartup(w) == [w EXCEPT !.startup = "no"]

\* async_play_media: the intent is taken before the source is resolved.
Play(station) ==
  /\ NextIntent("play", "resolve", station)
  /\ UNCHANGED <<queue, want, stream, tasks, hubs, prep, players, bounds>>

\* async_media_play of the remembered media_id.  Without one its intent is taken
\* all the same.
Resume ==
  /\ NextIntent("resume", IF want.media = "none" THEN "failed" ELSE "resolve",
                want.media)
  /\ UNCHANGED <<queue, want, stream, tasks, hubs, prep, players, bounds>>

\* The source is known.  media_play stores it at once, play under the lock.
Resolved(n) ==
  /\ asked[n].op \in {"play", "resume"} /\ asked[n].at = "resolve"
  /\ want' = (IF asked[n].op = "resume" THEN [want EXCEPT !.url = asked[n].station]
                                        ELSE want)
  /\ IF IsCurrent(n) THEN GoTo(n, "lock") /\ Queue(Owner(asked[n].op, n))
                     ELSE GoTo(n, "done") /\ UNCHANGED queue
  /\ UNCHANGED <<intent, stream, tasks, hubs, prep, players, bounds>>

\* Mutant of Scheduled.
OneTooMany(t) ==
  IF ~want.desired \/ want.url = "none" \/ t.watchdog # "none" THEN t
  ELSE IF want.attempts <= WATCHDOG_MAX_RESTARTS
    THEN [t EXCEPT !.watchdog = "sleep"]
    ELSE [t EXCEPT !.slow = IF @ = "none" THEN "sleep" ELSE @]

\* _schedule_watchdog_restart and, when the attempts are used up, _slow_retry.
Scheduled(t) ==
  IF ~want.desired \/ want.url = "none" \/ t.watchdog # "none" THEN t
  ELSE IF want.attempts < WATCHDOG_MAX_RESTARTS
    THEN [t EXCEPT !.watchdog = "sleep"]
    ELSE [t EXCEPT !.slow = IF @ = "none" THEN "sleep" ELSE @]

\* An error of the media source; the one of a restored station starts recovery.
ResolveFails(n) ==
  /\ asked[n].at = "resolve" /\ Fault
  /\ GoTo(n, "failed")
  /\ tasks' = (IF asked[n].op = "startup" THEN Scheduled(tasks) ELSE tasks)
  /\ UNCHANGED <<intent, queue, want, stream, hubs, prep, players>>

\* _restore_after_startup and async_resume_after_startup.
Restore(n) ==
  /\ At(n, "startup", "resolve")
  /\ IF IsCurrent(n) /\ want.desired /\ want.startup # "no"
       THEN /\ want' = [want EXCEPT !.url = asked[n].station]
            /\ held' = held \cup selected
            /\ GoTo(n, "suspend")
       ELSE GoTo(n, "done") /\ UNCHANGED <<want, held>>
  /\ UNCHANGED <<intent, queue, stream, tasks, hubs, prep, suspended, switches,
                  bounds>>
RestoreSuspends(n) ==
  /\ At(n, "startup", "suspend")
  /\ suspended' = suspended \cup selected
  /\ GoTo(n, "done")
  /\ tasks' = [tasks EXCEPT !.reconcile = "run"]
  /\ UNCHANGED <<intent, queue, want, stream, hubs, prep, held, switches, bounds>>

StartupExpires ==
  /\ want.startup = "waiting" /\ want' = [want EXCEPT !.startup = "expired"]
  /\ UNCHANGED <<intent, asked, queue, stream, tasks, hubs, prep, players, bounds>>

\* Tasks that are cancelled leave the queue, and the holder is interrupted at its
\* await.  _cancel_task swallows a cancellation that meets it in
\* _stop_stream_locked; the task then goes on.
Without(owners) ==
  LET kept[n \in 0..Len(lock)] ==
        IF n = 0 THEN <<>>
        ELSE IF lock[n] \in owners THEN kept[n - 1] ELSE Append(kept[n - 1], lock[n])
  IN  kept[Len(lock)]
Interrupt(owners, newcomer) ==
  \E on \in {FALSE, lock # <<>> /\ Me \in owners /\ step = "detach"} :
    /\ lock' = (IF on THEN <<Me>> ELSE <<>>) \o Without(owners) \o newcomer
    /\ IF lock # <<>> /\ Me \in owners /\ ~on
         THEN step' = "enter" /\ gather' = {} ELSE UNCHANGED <<step, gather>>

Unspawned(s) == IF s.feed = "spawning" /\ step' # "spawn" THEN NoStream ELSE s

\* async_stop up to its first await: the reconcile task is the first that
\* _cancel_background_recovery cancels.
Halted(w) == [w EXCEPT !.desired = FALSE, !.startup = "no"]
Stop ==
  /\ NextIntent("stop", "cancel", "none")
  /\ want' = Halted(want)
  /\ Interrupt({Recovery("reconcile")}, <<>>)
  /\ stream' = Unspawned(stream)
  /\ tasks' = [tasks EXCEPT !.reconcile = "no"]
  /\ UNCHANGED <<hubs, prep, players, bounds>>

\* The same of async_force_reset: the generation it takes makes the broadcaster
\* and the health watch stale.
Reset(requests, owners) ==
  /\ intent' = intent + 1
  /\ asked' = Append(requests, [op |-> "off", at |-> "cancel", station |-> "none"])
  /\ want' = [Halted(want) EXCEPT !.attempts = 0]
  /\ Interrupt(owners \cup {Recovery("reconcile")}, <<>>)
  /\ stream' = Unspawned(IF Running THEN [stream EXCEPT !.feed = "stalled"]
                                    ELSE stream)
  /\ tasks' = [tasks EXCEPT !.reconcile = "no", !.health = "none"]
  /\ UNCHANGED <<hubs, prep, players>>

TurnOff == intent < MaxIntents /\ Reset(asked, {}) /\ UNCHANGED bounds

\* The other tasks are cancelled one after another, then the lock is asked for.
CancelRecovery(n) ==
  /\ asked[n].op \in {"stop", "off"} /\ asked[n].at = "cancel"
  /\ Interrupt({Recovery("watchdog"), Recovery("slow")}, <<Owner(asked[n].op, n)>>)
  /\ tasks' = [tasks EXCEPT !.watchdog = "none", !.slow = "none"]
  /\ stream' = Unspawned(stream)
  /\ GoTo(n, "lock")
  /\ UNCHANGED <<intent, want, hubs, prep, players, bounds>>

\* Six seconds are over, in the queue for the lock or holding it: async_stop falls
\* back to a reset, which takes an intent of its own.
StopTimesOut(n) ==
  /\ At(n, "stop", "lock") /\ late > 0 /\ late' = late - 1
  /\ Reset([asked EXCEPT ![n].at = "done"], {Owner("stop", n)})
  /\ Owner("stop", n) \notin Range(lock')
  /\ UNCHANGED faults

\* The same of a reset, which then cleans up without the lock.
ResetTimesOut(n) ==
  /\ At(n, "off", "lock") /\ late > 0 /\ late' = late - 1
  /\ asked' = [asked EXCEPT ![n].op = "forced", ![n].at = "remote"]
  /\ Interrupt({Owner("off", n)}
                 \cup {Recovery(op) : op \in {"reconcile", "watchdog", "slow", "health"}},
               <<>>)
  /\ stream' = (IF step' = "spawn" THEN stream ELSE NoStream)
  /\ tasks' = [reconcile |-> "no", watchdog |-> "none", slow |-> "none",
              health |-> "none"]
  /\ prep' = AllIdle
  /\ UNCHANGED <<intent, want, hubs, players, faults>>

RemoteCleaned(n) ==
  /\ asked[n].at = "remote" /\ GoTo(n, "release")
  /\ UNCHANGED <<intent, queue, want, stream, tasks, hubs, prep, players, bounds>>

\* _resume_suspended_individuals, unless a newer request came.
Released(n) ==
  /\ asked[n].at = "release" /\ GoTo(n, "done")
  /\ IF IsCurrent(n) THEN held' = held \ suspended /\ suspended' = {}
                     ELSE UNCHANGED <<held, suspended>>
  /\ UNCHANGED <<intent, queue, want, stream, tasks, hubs, prep, switches, bounds>>

\* async_manual_resync; the cooldown spreads these, here each is one of the faults.
Resync ==
  /\ want.desired /\ want.url # "none" /\ Fault
  /\ Cardinality(Eligible) >= PERIODIC_RECEIVER_RESYNC_MIN_MEMBERS
  /\ Recovery("resync") \notin Range(lock)
  /\ Queue(Recovery("resync"))
  /\ UNCHANGED <<intent, asked, want, stream, tasks, hubs, prep, players>>

-----------------------------------------------------------------------------
(* The holder of the lock.                                                 *)

Restarters == {"play", "resume", "watchdog", "slow", "health", "resync"}

\* Mutant of Ended.
EndedAlone(t, op) ==
  [t EXCEPT !.watchdog = IF op = "watchdog" /\ @ = "lock" THEN "check" ELSE @,
            !.slow = IF op = "slow" /\ @ = "lock" THEN "check" ELSE @,
            !.health = IF op = "health" /\ @ = "lock" THEN "none" ELSE @]

\* A request or task has ended; those that play keep the members coming.
Ended(t, op) ==
  [t EXCEPT !.reconcile = IF op \in Restarters THEN "run" ELSE @,
            !.watchdog = IF op = "watchdog" /\ @ = "lock" THEN "check" ELSE @,
            !.slow = IF op = "slow" /\ @ = "lock" THEN "check" ELSE @,
            !.health = IF op = "health" /\ @ = "lock" THEN "none" ELSE @]

Finish(place) ==
  /\ Release
  /\ IF Me.n # 0 THEN GoTo(Me.n, place) ELSE UNCHANGED asked

Discard ==
  /\ Finish("done")
  /\ UNCHANGED <<want, stream, tasks>>

PlayEnters ==
  /\ Holds({"play"}, "enter")
  /\ IF ~IsCurrent(Me.n) THEN Discard
     ELSE /\ want' = [NoStartup(want) EXCEPT !.desired = TRUE, !.attempts = 0,
                        !.media = asked[Me.n].station, !.url = asked[Me.n].station]
          /\ step' = (IF Active # {} THEN "quiet" ELSE "stop")
          /\ UNCHANGED <<asked, lock, gather, stream, tasks>>
  /\ UNCHANGED <<intent, hubs, prep, players, bounds>>

\* The running stream of the station is adopted.
ResumeEnters ==
  /\ Holds({"resume"}, "enter")
  /\ IF ~IsCurrent(Me.n) THEN Discard
     ELSE /\ want' = [NoStartup(want) EXCEPT !.desired = TRUE]
          /\ IF Running
               THEN /\ stream' = [stream EXCEPT !.intent = intent]
                    /\ tasks' = Ended(tasks, "resume") /\ Finish("done")
               ELSE step' = "stop" /\ UNCHANGED <<asked, lock, gather, stream, tasks>>
  /\ UNCHANGED <<intent, hubs, prep, players, bounds>>

StopEnters ==
  /\ Holds({"stop", "off"}, "enter")
  /\ step' = (IF Me.op = "stop" THEN "quiet" ELSE "stop")
  /\ UNCHANGED <<intent, asked, lock, gather, want, stream, tasks, hubs, prep,
                  players, bounds>>

RecoveryEnters ==
  /\ Holds({"watchdog", "slow", "resync"}, "enter") /\ step' = "stop"
  /\ UNCHANGED <<intent, asked, lock, gather, want, stream, tasks, hubs, prep,
                  players, bounds>>

\* The health watch of a stream that was replaced meanwhile does nothing.
HealthEnters ==
  /\ Holds({"health"}, "enter")
  /\ IF tasks.health = "lock" /\ want.desired
       THEN step' = "stop" /\ UNCHANGED <<asked, lock, gather, want, stream, tasks>>
       ELSE Discard
  /\ UNCHANGED <<intent, hubs, prep, players, bounds>>

StartupReady == want.startup # "waiting" \/ selected = Active
ReconcileEnters ==
  /\ Holds({"reconcile"}, "enter")
  /\ IF want.desired /\ ~Running /\ Active # {} /\ want.url # "none" /\ StartupReady
       THEN /\ step' = "spawn"
            /\ stream' = [NoStream EXCEPT !.feed = "spawning", !.url = want.url]
            /\ UNCHANGED <<asked, lock, gather, want, tasks>>
       ELSE Discard
  /\ UNCHANGED <<intent, hubs, prep, players, bounds>>

\* The receivers are silenced on their hubs before the transport is torn down.
Quieted ==
  /\ Holds({"play", "stop"}, "quiet") /\ step' = "stop"
  /\ UNCHANGED <<intent, asked, lock, gather, want, stream, tasks, hubs, prep,
                  players, bounds>>

\* _stop_stream_locked: the source first, then the members with their preparation.
StopStream ==
  /\ lock # <<>> /\ step \in {"stop", "giveup"}
  /\ stream' = NoStream
  /\ tasks' = (IF Me.op = "health" THEN tasks ELSE [tasks EXCEPT !.health = "none"])
  /\ step' = (IF step = "stop" THEN "detach" ELSE "abandon")
  /\ UNCHANGED <<intent, asked, lock, gather, want, hubs, prep, players, bounds>>

Stopped ==
  /\ Holds({"stop", "off"}, "detach")
  /\ prep' = AllIdle
  /\ Finish(IF Me.op = "stop" THEN "release" ELSE "remote")
  /\ UNCHANGED <<intent, want, stream, tasks, hubs, players, bounds>>

\* _restart_stream_locked goes on to suspend the players of every selected hub.
Restarts ==
  /\ Holds(Restarters, "detach")
  /\ prep' = AllIdle
  /\ IF want.desired /\ want.url # "none"
       THEN /\ step' = "suspend" /\ gather' = selected
            /\ held' = held \cup selected /\ overtaken' = overtaken \ selected
            /\ UNCHANGED <<asked, lock, tasks>>
       ELSE /\ Finish("done") /\ tasks' = Ended(tasks, Me.op)
            /\ UNCHANGED <<held, overtaken>>
  /\ UNCHANGED <<intent, want, stream, hubs, suspended, enabling, disabling, bounds>>

PlayerSuspended(h) ==
  /\ lock # <<>> /\ step = "suspend" /\ h \in gather
  /\ suspended' = suspended \cup {h} /\ gather' = gather \ {h}
  /\ UNCHANGED <<intent, asked, lock, step, want, stream, tasks, hubs, prep, held,
                  switches, bounds>>

\* Mutant of Begin.
ConnectAtOnce(h) == "connect"

Begin(h) == IF h \in suspended THEN "connect" ELSE "suspend"

Prepare ==
  /\ lock # <<>> /\ step = "suspend" /\ gather = {}
  /\ step' = "prepare"
  /\ prep' = [h \in Hubs |-> IF h \in Eligible /\ prep[h] = "no" THEN Begin(h)
                             ELSE prep[h]]
  /\ held' = held \cup Suspending'
  /\ UNCHANGED <<intent, asked, lock, gather, want, stream, tasks, hubs, suspended,
                  switches, bounds>>

\* One member is enough, more for a resync, with a grace for the others.  A hub that
\* works is prepared within the 3 s: one that is not is of MaxLate.
Required == IF Me.op # "resync" THEN 1
            ELSE Min({Cardinality(Eligible), PERIODIC_RECEIVER_RESYNC_MIN_MEMBERS})
CohortReady ==
  /\ lock # <<>> /\ step = "prepare" /\ Cardinality(Active) >= Required
  /\ IF want.desired
       THEN /\ step' = "spawn"
            /\ stream' = [NoStream EXCEPT !.feed = "spawning", !.url = want.url]
            /\ UNCHANGED <<asked, lock, gather, tasks>>
       ELSE Finish("done") /\ tasks' = Ended(tasks, Me.op) /\ UNCHANGED stream
  /\ UNCHANGED <<intent, want, hubs, prep, players, bounds>>
CohortMissing ==
  /\ lock # <<>> /\ step = "prepare" /\ Cardinality(Active) < Required
  /\ \/ (\A h \in Hubs : prep[h] \in {"no", "up"}) /\ UNCHANGED late
     \/ late > 0 /\ late' = late - 1
  /\ IF Me.op = "resync"
       THEN step' = "giveup" /\ UNCHANGED <<asked, lock, gather, tasks>>
       ELSE Finish("done") /\ tasks' = Ended(tasks, Me.op)
  /\ UNCHANGED <<intent, want, stream, hubs, prep, players, faults>>
ResyncAbandoned ==
  /\ Holds({"resync"}, "abandon")
  /\ prep' = AllIdle
  /\ Finish("done") /\ tasks' = Ended(tasks, Me.op)
  /\ UNCHANGED <<intent, want, stream, hubs, players, bounds>>

\* _start_ffmpeg_locked: the intent the stream belongs to is the newest one now.
Spawned ==
  /\ lock # <<>> /\ step = "spawn"
  /\ stream' = [stream EXCEPT !.feed = "prebuffer", !.intent = intent]
  /\ tasks' = [Ended(tasks, Me.op) EXCEPT !.health = "watch"]
  /\ want' = (IF Me.op = "reconcile" THEN NoStartup(want) ELSE want)
  /\ Finish("done")
  /\ UNCHANGED <<intent, hubs, prep, players, bounds>>

\* No process: the error ends a request or the reconcile loop, others try again.
SpawnFails ==
  /\ lock # <<>> /\ step = "spawn" /\ Fault
  /\ stream' = NoStream
  /\ tasks' = (CASE Me.op \in {"watchdog", "health"} ->
                      Scheduled([tasks EXCEPT ![Me.op] = "none"])
                 [] Me.op = "slow" -> [tasks EXCEPT !.slow = "sleep"]
                 [] Me.op = "reconcile" -> [tasks EXCEPT !.reconcile = "dead"]
                 [] OTHER -> tasks)
  /\ Finish("failed")
  /\ UNCHANGED <<intent, want, hubs, prep, players>>

-----------------------------------------------------------------------------
(* The broadcaster and the tasks that watch it.                            *)

Streams(feed) == stream' = [stream EXCEPT !.feed = feed]
streamOnly == <<intent, asked, queue, want, hubs, prep, players, bounds>>

\* _broadcast_loop: enough PCM, then a burst to the receivers that are there.
Primes ==
  /\ stream.feed = "prebuffer" /\ want.desired
  /\ stream' = [stream EXCEPT !.feed = "prime", !.prime = intent]
  /\ UNCHANGED <<tasks, streamOnly>>

\* The burst counts only for the intent it was begun with.  Without a receiver
\* that took it the broadcaster gives up and leaves FFmpeg running.
Primed ==
  /\ stream.feed = "prime" /\ want.desired
  /\ IF IsCurrent(stream.prime) /\ Active # {}
       THEN Streams("on") /\ UNCHANGED tasks
       ELSE Streams("stalled") /\ tasks' = Scheduled(tasks)
  /\ UNCHANGED streamOnly

\* The medium ends, FFmpeg dies, or its source delivers nothing for 5 s.
SourceEnds ==
  /\ stream.feed \in {"prebuffer", "prime", "on"} /\ Fault
  /\ \/ stream' = NoStream
     \/ Streams("stalled")
  /\ tasks' = Scheduled(tasks)
  /\ UNCHANGED <<intent, asked, queue, want, hubs, prep, players>>

\* FFmpeg without broadcaster: only the age of its last PCM gives it away.
HealthStalls ==
  /\ tasks.health = "watch" /\ stream.feed = "stalled" /\ want.desired
  /\ tasks' = [tasks EXCEPT !.health = "lock"]
  /\ Queue(Recovery("health"))
  /\ UNCHANGED <<intent, asked, want, stream, hubs, prep, players, bounds>>

WatchdogWakes ==
  /\ tasks.watchdog = "sleep"
  /\ IF ~want.desired \/ Running
       THEN tasks' = [tasks EXCEPT !.watchdog = "none"] /\ UNCHANGED <<want, queue>>
       ELSE /\ want' = [want EXCEPT !.attempts = @ + 1]
            /\ tasks' = [tasks EXCEPT !.watchdog = "lock"]
            /\ Queue(Recovery("watchdog"))
  /\ UNCHANGED <<intent, asked, stream, hubs, prep, players, bounds>>
\* Thirty seconds outlast a restart: waking in the middle of one is of MaxLate.
SlowRetryWakes ==
  /\ tasks.slow = "sleep"
  /\ \/ lock = <<>> /\ UNCHANGED late
     \/ late > 0 /\ late' = late - 1
  /\ IF ~want.desired \/ Running
       THEN tasks' = [tasks EXCEPT !.slow = "none"] /\ UNCHANGED <<want, queue>>
       ELSE /\ want' = [want EXCEPT !.attempts = 0]
            /\ tasks' = [tasks EXCEPT !.slow = "lock"]
            /\ Queue(Recovery("slow"))
  /\ UNCHANGED <<intent, asked, stream, hubs, prep, players, faults>>

\* Half a second after its restart a task looks whether there is a stream.
Missing == want.desired /\ ~Running
WatchdogChecks ==
  /\ tasks.watchdog = "check"
  /\ LET t == [tasks EXCEPT !.watchdog = "none"] IN
     tasks' = (IF Missing THEN Scheduled(t) ELSE t)
  /\ UNCHANGED <<stream, streamOnly>>
SlowRetryChecks ==
  /\ tasks.slow = "check"
  /\ tasks' = [tasks EXCEPT !.slow = IF Missing THEN "sleep" ELSE "none"]
  /\ UNCHANGED <<stream, streamOnly>>

\* _stable_watch after 30 s of PCM.
Stable ==
  /\ stream.feed = "on" /\ Active # {} /\ tasks.health = "watch"
  /\ want.attempts > 0 \/ tasks.slow # "none"
  /\ want' = [want EXCEPT !.attempts = 0]
  /\ tasks' = [tasks EXCEPT !.slow = "none"]
  /\ Interrupt({Recovery("slow")}, <<>>)
  /\ UNCHANGED <<intent, asked, stream, hubs, prep, players, bounds>>

-----------------------------------------------------------------------------
(* _reconcile_loop, the preparation of members, and the hubs.              *)

Reconciling == tasks.reconcile = "run" /\ want.desired
Prep(h, place) == prep' = [prep EXCEPT ![h] = place]
prepOnly == <<intent, asked, queue, want, stream, tasks, hubs, switches>>

TickPrepares(h) ==
  /\ Reconciling /\ h \in Eligible /\ prep[h] = "no"
  /\ Prep(h, Begin(h))
  /\ held' = held \cup Suspending'
  /\ UNCHANGED <<prepOnly, suspended, bounds>>
TickIsolates(h) ==
  /\ Reconciling /\ h \notin Eligible /\ prep[h] = "up"
  /\ Prep(h, "no") /\ UNCHANGED <<prepOnly, held, suspended, bounds>>
TickStarts ==
  /\ Reconciling /\ ~Running /\ Active # {} /\ want.url # "none" /\ StartupReady
  /\ Recovery("reconcile") \notin Range(lock)
  /\ Queue(Recovery("reconcile"))
  /\ UNCHANGED <<intent, asked, want, stream, tasks, hubs, prep, players, bounds>>
TickEnds ==
  /\ tasks.reconcile = "run" /\ ~want.desired /\ Recovery("reconcile") \notin Range(lock)
  /\ tasks' = [tasks EXCEPT !.reconcile = "no"]
  /\ UNCHANGED <<stream, streamOnly>>

\* _prepare_member.
MemberSuspended(h) ==
  /\ prep[h] = "suspend"
  /\ suspended' = suspended \cup {h}
  /\ Prep(h, IF h \in Eligible THEN "connect" ELSE "no")
  /\ UNCHANGED <<prepOnly, held, bounds>>
MemberConnected(h) ==
  /\ prep[h] = "connect"
  /\ Prep(h, IF h \in Eligible THEN "up" ELSE "no")
  /\ UNCHANGED <<prepOnly, held, suspended, bounds>>
MemberFails(h) ==
  /\ prep[h] \in {"connect", "up"} /\ Fault /\ Prep(h, "no")
  /\ UNCHANGED <<prepOnly, held, suspended>>

\* A hub goes offline; a sound takes it and detaches its member.
HubLeaves(h) ==
  /\ h \in able /\ Fault /\ able' = able \ {h}
  /\ \E sound \in BOOLEAN : IF sound THEN Prep(h, "no") ELSE UNCHANGED prep
  /\ UNCHANGED <<intent, asked, queue, want, stream, tasks, selected, players>>
HubReturns(h) ==
  /\ h \notin able /\ able' = able \cup {h}
  /\ UNCHANGED <<intent, asked, queue, want, stream, tasks, selected, prep, players,
                  bounds>>

\* async_member_disabled up to the await on _detach_member, and from there on: the
\* hub may be switched on again in between.
EnsureReconcile == tasks' = IF want.desired THEN [tasks EXCEPT !.reconcile = "run"]
                                            ELSE tasks
Disable(h) ==
  /\ h \in selected /\ Fault /\ selected' = selected \ {h}
  /\ EnsureReconcile /\ Prep(h, "no")
  /\ disabling' = [disabling EXCEPT ![h] = @ + 1]
  /\ UNCHANGED <<intent, asked, queue, want, stream, able, suspended, held, enabling,
                  overtaken>>
Disabled(h) ==
  /\ disabling[h] > 0 /\ disabling' = [disabling EXCEPT ![h] = @ - 1]
  /\ held' = held \ (suspended \cap {h}) /\ suspended' = suspended \ {h}
  /\ overtaken' = overtaken \cup ({h} \cap suspended \cap (selected \cup enabling))
  /\ UNCHANGED <<intent, asked, queue, want, stream, tasks, hubs, prep, enabling,
                  bounds>>

\* async_member_enabled.  A detachment is soon over: being earlier is of MaxLate.
Enable(h) ==
  /\ h \notin selected \cup enabling
  /\ \/ disabling[h] = 0 /\ UNCHANGED late
     \/ late > 0 /\ late' = late - 1
  /\ enabling' = enabling \cup {h} /\ held' = held \cup {h}
  /\ UNCHANGED <<intent, asked, queue, want, stream, tasks, hubs, prep, suspended,
                  disabling, overtaken, faults>>
Enabled(h) ==
  /\ h \in enabling /\ enabling' = enabling \ {h}
  /\ suspended' = suspended \cup {h} /\ selected' = selected \cup {h}
  /\ EnsureReconcile
  /\ UNCHANGED <<intent, asked, queue, want, stream, able, prep, held, disabling,
                  overtaken, bounds>>

-----------------------------------------------------------------------------
Request(n) ==
  \/ Resolved(n) \/ Restore(n) \/ RestoreSuspends(n)
  \/ CancelRecovery(n) \/ RemoteCleaned(n) \/ Released(n)
Holder ==
  \/ PlayEnters \/ ResumeEnters \/ StopEnters \/ RecoveryEnters \/ HealthEnters
  \/ ReconcileEnters \/ Quieted \/ StopStream \/ Stopped \/ Restarts
  \/ (\E h \in Hubs : PlayerSuspended(h)) \/ Prepare \/ CohortReady
  \/ ResyncAbandoned \/ Spawned
Watchers ==
  \/ Primes \/ Primed \/ HealthStalls \/ WatchdogWakes \/ SlowRetryWakes
  \/ WatchdogChecks \/ SlowRetryChecks \/ Stable
Member(h) ==
  \/ TickPrepares(h) \/ TickIsolates(h) \/ MemberSuspended(h) \/ MemberConnected(h)
  \/ HubReturns(h) \/ Disabled(h) \/ Enabled(h)
Disturbance ==
  \/ SourceEnds \/ SpawnFails \/ CohortMissing
  \/ \E h \in Hubs : MemberFails(h) \/ HubLeaves(h) \/ Disable(h) \/ Enable(h)
User == (\E station \in Stations : Play(station)) \/ Resume \/ Stop \/ TurnOff \/ Resync

Next ==
  \/ User \/ Holder \/ Watchers \/ Disturbance \/ StartupExpires
  \/ TickStarts \/ TickEnds
  \/ \E h \in Hubs : Member(h)
  \/ \E n \in DOMAIN asked :
       Request(n) \/ ResolveFails(n) \/ StopTimesOut(n) \/ ResetTimesOut(n)

Spec == Init /\ [][Next]_vars

\* Awaits end, tasks wake and hubs come back.  A hub is prepared again and again
\* while it is cut off, so that it connects is strong fairness.
FairSpec ==
  /\ Spec /\ WF_vars(Holder) /\ WF_vars(CohortMissing)
  /\ WF_vars(TickStarts) /\ WF_vars(StartupExpires)
  /\ WF_vars(Primes) /\ WF_vars(Primed) /\ WF_vars(HealthStalls)
  /\ WF_vars(WatchdogWakes) /\ WF_vars(WatchdogChecks)
  /\ WF_vars(SlowRetryWakes) /\ WF_vars(SlowRetryChecks)
  /\ \A h \in Hubs : /\ WF_vars(TickPrepares(h)) /\ WF_vars(HubReturns(h))
                     /\ SF_vars(MemberSuspended(h)) /\ SF_vars(MemberConnected(h))
  /\ \A n \in 1..(MaxIntents + MaxLate) : WF_vars(n \in DOMAIN asked /\ Request(n))

-----------------------------------------------------------------------------
(* Properties.                                                             *)

\* State is of its type: the intents issued are the requests, a request or a holder
\* is at a place of its own program, and attempts never pass their limit
\* (_schedule_watchdog_restart compares before it adds).
TypeOK ==
  /\ intent = Len(asked)
  /\ \A n \in DOMAIN asked :
       asked[n].at \in {"resolve", "suspend", "cancel", "lock", "remote",
                        "release", "done", "failed"}
  /\ gather \subseteq Hubs /\ (gather # {} => step = "suspend")
  /\ stream.feed \in {"none", "spawning", "prebuffer", "prime", "on", "stalled"}
  /\ want.attempts \in 0..WATCHDOG_MAX_RESTARTS
  /\ prep \in [Hubs -> {"no", "suspend", "connect", "up"}]
  /\ suspended \subseteq Hubs /\ held \subseteq Hubs /\ enabling \subseteq Hubs
  /\ disabling \in [Hubs -> Nat] /\ overtaken \subseteq Hubs

LastWord(ops, place) ==
  intent > 0 /\ asked[intent].op \in ops /\ asked[intent].at = place

\* When a Stop or Off that nobody followed has returned, nothing of the group is
\* left: no restart that was under way, no preparation and no retry brings the
\* stream back (_cancel_background_recovery, and the intent each of them checks).
StoppedStays ==
  LastWord({"stop", "off"}, "done") =>
    ~want.desired /\ stream.feed = "none" /\ \A h \in Hubs : prep[h] = "no"

\* A reset that timed out itself cleans up without the lock, beside a restart it
\* cannot see.
Forced == \E n \in DOMAIN asked : asked[n].op = "forced"

\* Hubs whose player the group takes for suspended, though it was given back.
Mistaken == suspended \ held

\* A suspension that ended late is noted all the same: that of a restored station after
\* a newer request, that of a hub switched off, or on, meanwhile.
NotedLate(h) ==
  \/ \E n \in DOMAIN asked : RestoreSuspends(n) /\ ~IsCurrent(n)
  \/ PlayerSuspended(h) /\ h \notin selected
  \/ Enabled(h)

\* No hub is connected before its own radio player was suspended for the group
\* (CHANGELOG.md:849, "before the group receiver starts on port 12347"); and whom the
\* group takes for suspended is, but for a note written late.  A hub that is switched
\* on again before async_member_disabled has detached it is excepted: its player is then
\* given back although the group has it (media_group.py:427).
OneSource ==
  [][Forced' \/ \A h \in Hubs \ overtaken' :
       /\ prep'[h] \in {"connect", "up"} => h \in suspended'
       /\ h \in Mistaken' /\ h \notin Mistaken => NotedLate(h)]_vars

\* Violated: the same of the player itself.  A note written late makes the next Play
\* connect a hub whose own radio player plays (GroupControlSource.cfg), and so does a
\* switch that is turned off and on (GroupControlSwitch.cfg).
OwnPlayerSilent ==
  Forced \/ \A h \in Hubs : prep[h] \in {"connect", "up"} => h \in held

\* The newest Play plays, again and again: through earlier Stops still under way,
\* restarts that fail, FFmpeg dying and hubs that come and go, the stream in the end
\* is the one of its intent, unless every hub is switched off, FFmpeg cannot be
\* started, or the emergency cleanup of an earlier Off took its reconcile task along.
Wanted(n) ==
  n > 0 /\ asked[n].op \in {"play", "resume"} /\ asked[n].at \in {"lock", "done"}
Unplayable == selected = {} \/ tasks.reconcile = "dead" \/ Forced
PlayWins ==
  []<>(Wanted(intent) /\ ~Unplayable => stream.feed = "on" /\ stream.intent = intent)

\* Only a Stop or an Off of the user gives up playing: a Play that arrived after the
\* Stop stays wanted (CHANGELOG.md:336, "while preserving a newer group Play request
\* that arrives during shutdown").
OnlyTheUserStops == [][want.desired /\ ~want'.desired => Stop \/ TurnOff]_vars

\* While the stream of the newest finished Play runs, it is that Play's station
\* (CHANGELOG.md:333, "slow media-source/title resolution cannot start an older
\* station after a newer Play or Stop request").
StationIsNewest ==
  Running /\ LastWord({"play", "resume"}, "done") /\ stream.intent = intent =>
    stream.url = asked[intent].station

\* A Stop whose intent is still the newest gives every player back that the group
\* holds (README.md:235, "group Stop releases suspended individual players").
StopReleases ==
  [][\A n \in DOMAIN asked :
       asked[n].at = "release" /\ asked'[n].at = "done" /\ intent = n
         => held' \subseteq enabling]_vars
=============================================================================
