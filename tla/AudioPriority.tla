--------------------------- MODULE AudioPriority ----------------------------
(***************************************************************************)
(* Notification sounds over an individual radio stream on one hub: the     *)
(* sound player of sound_player.py, the intent and transport of the radio  *)
(* player in media_player.py, the gain override of local_audio.py, and the *)
(* hub's ALSA device that both want.                                       *)
(*                                                                         *)
(* Each player has an asyncio lock.  A lock is the sequence of tasks that  *)
(* asked for it: its head holds it, and spc (rpc) is the await the head is *)
(* suspended at.  A step runs from one await to the next.                  *)
(*                                                                         *)
(* _play_generation is compared for equality only, so every task carries   *)
(* fresh: the generation it was started with is still the current one.     *)
(* Cancelling a task that waits for a hub command does not cancel the      *)
(* command: a START of a cancelled task is counted in orphans and executes *)
(* later.  Commands of the private audio channel execute in order.  A free *)
(* lock is taken in a step of its own, a little later than in the code.    *)
(*                                                                         *)
(* Bounds: MaxSounds plays of a sound, MaxActs actions of the user on      *)
(* radio and sound, MaxFaults failures.  Events and CancelAt say what may  *)
(* happen.                                                                 *)
(***************************************************************************)
EXTENDS Naturals, Sequences

CONSTANTS MaxSounds, MaxActs, MaxFaults,
  Events,       \* which of AllEvents occur
  CancelAt      \* the awaits at which the caller of a play or a stop may be
                \* cancelled; "settle" once more while its start is settling

AllEvents == {"play_media", "media_play", "media_stop", "sound_stop",
              "command", "resolve", "source", "receiver", "status"}
CallerAwaits == {"stop_old", "claim", "suspend", "idle", "gain", "cleanup",
                 "start", "settle", "stop_new", "restore", "resume"}

ASSUME AudioConstants ==
  /\ MaxSounds \in Nat /\ MaxActs \in Nat /\ MaxFaults \in Nat
  /\ Events \subseteq AllEvents
  /\ CancelAt \subseteq CallerAwaits

VARIABLES               \* AqaraM1SSoundPlayer
  sound_lock,           \* _lock: [op, id] in order, the head holds it
  spc,
  token,                \* _token, 0 for None
  old,                  \* the token _stop_locked is stopping
  watch,                \* _watch_task: "none", "polling", "waiting" for _lock
  interruption,         \* _interruption_active
  resume_radio,         \* _resume_radio
  temporary,            \* _temporary_volume_active
  retried,              \* the step a BUSY reply was already retried for
  cancelled             \* the play was cancelled while its start is settling

VARIABLES               \* AqaraM1SRadioPlayer
  radio_lock,           \* _lock: [op, fresh, busy, resume], the head holds it
  rpc,
  intent,               \* _resume_after_reconnect
  suspended,            \* _priority_sound_suspended
  expected,             \* _expected_transport_stop_reason is not None
  resolving,            \* the fresh play whose media source is being resolved
  ffmpeg,               \* _ffmpeg is not None
  wpc,                  \* its watcher: "none", "run" or rebuilding the receiver
  wfresh,
  ended,                \* a fresh watcher saw its transport fail
  retry                 \* a fresh watchdog restart or slow retry is sleeping

VARIABLES               \* local_audio.py and the hub
  override,             \* _sound_gain is not None
  level,                \* softvol level applied on the hub
  alsa,                 \* holder of the device: "closed", "empty" (a receiver
                        \* without PCM), "radio" or "sound"
  playing,              \* token of the sound script that holds it
  orphans               \* START commands whose task was cancelled

VARIABLES               \* bounds, and history variables for properties
  sounds, acts, faults,
  abandoned,            \* the sound on the hub was given up by a command that
                        \* failed, or by a caller cancelled while it stops it
  accepted              \* a play passed its check; it was not stopped since, nor lost
                        \* by a failed resolution or by a cancelled caller between
                        \* suspending the radio and resuming it

claim == <<interruption, resume_radio, temporary>>
player == <<token, old, watch, claim, retried, cancelled>>
radioTasks == <<radio_lock, rpc, resolving, wfresh, ended, retry, orphans>>
radioState == <<intent, expected, ffmpeg, wpc>>
hub == <<level, alsa, playing, abandoned>>
bounds == <<sounds, acts, faults>>

vars == <<sound_lock, spc, player, radioTasks, radioState, suspended, override,
          hub, bounds, accepted>>

SoundSteps == (CallerAwaits \ {"settle"}) \cup {"enter"}
RadioSteps == {"enter", "claim", "prestop", "gain", "start", "connect", "clean",
               "stop"}
RadioOps == {"play_media", "media_play", "media_stop", "suspend", "cleanup",
             "resume", "restart"}

Task(op) == [op |-> op, fresh |-> TRUE, busy |-> FALSE, resume |-> FALSE]
SoundHolder(op, step) == /\ sound_lock # <<>> /\ Head(sound_lock).op = op
                         /\ spc = step
RadioHolder(ops, step) == /\ radio_lock # <<>> /\ Head(radio_lock).op \in ops
                          /\ rpc = step
Starters == {"play_media", "media_play", "resume", "restart"}
\* Mutant of Current.
GenerationOnly == Head(radio_lock).fresh

\* _generation_is_current, for the holder of the radio lock.
Current == Head(radio_lock).fresh /\ ~suspended
\* _target_gain.
Target == IF override THEN "alert" ELSE "media"

Fault(kind) == kind \in Events /\ faults > 0 /\ faults' = faults - 1
Act(kind) == kind \in Events /\ acts > 0 /\ acts' = acts - 1

\* Effects of the scoped hub commands on the ALSA device.
Stopped == IF alsa \in {"empty", "radio"} THEN "closed" ELSE alsa
Started == IF alsa = "sound" THEN "sound" ELSE "empty"

Init ==
  /\ sound_lock = <<>> /\ spc = "enter" /\ token = 0 /\ old = 0
  /\ watch = "none" /\ interruption = FALSE /\ resume_radio = FALSE
  /\ temporary = FALSE /\ retried = "no" /\ cancelled = FALSE
  /\ radio_lock = <<>> /\ rpc = "enter" /\ resolving = "none"
  /\ ended = FALSE /\ retry = FALSE /\ orphans = 0
  /\ suspended = FALSE /\ expected = FALSE
  /\ ffmpeg \in BOOLEAN /\ intent = ffmpeg /\ wfresh = ffmpeg
  /\ wpc = (IF ffmpeg THEN "run" ELSE "none")
  /\ alsa = (IF ffmpeg THEN "radio" ELSE "closed")
  /\ override = FALSE /\ level = "media" /\ playing = 0 /\ abandoned = FALSE
  /\ sounds = MaxSounds /\ acts = MaxActs /\ faults = MaxFaults
  /\ accepted = ffmpeg

-----------------------------------------------------------------------------
(* Generations and the radio lock.                                         *)

Stale(tasks) == [i \in 1..Len(tasks) |-> [tasks[i] EXCEPT !.fresh = FALSE]]

\* The tasks that still wait once those of ops are cancelled.
Without(tasks, ops) ==
  LET kept[n \in 0..Len(tasks)] ==
        IF n = 0 THEN <<>>
        ELSE IF tasks[n].op \in ops THEN kept[n - 1]
                                    ELSE Append(kept[n - 1], tasks[n])
  IN  kept[Len(tasks)]

RestartHolds == radio_lock # <<>> /\ Head(radio_lock).op = "restart"

\* _next_play_generation; queue is what is then left of the lock.
NextGeneration(queue) ==
  /\ radio_lock' = queue
  /\ ended' = FALSE /\ retry' = FALSE /\ wfresh' = FALSE

\* The same with _cancel_recovery_tasks_now, and new tasks joining the lock.  A
\* gain command of a cancelled task is done before any later one.
Preempt(new) ==
  /\ NextGeneration(Without(Stale(radio_lock), {"restart"}) \o new)
  /\ rpc' = (IF RestartHolds THEN "enter" ELSE rpc)
  /\ orphans' = orphans + (IF RestartHolds /\ rpc = "start" THEN 1 ELSE 0)
  /\ level' = (IF RestartHolds /\ rpc = "gain" THEN Target ELSE level)

\* The head of the radio lock lets go of it.
LeaveRadio == radio_lock' = Tail(radio_lock) /\ rpc' = "enter"

\* _stop_local_ffmpeg: a watcher that is rebuilding the receiver goes stale, and
\* only the command it waits for is still carried out.
Detach ==
  /\ ffmpeg' = FALSE /\ wpc' = "none"
  /\ level' = (IF wpc = "rebuild_gain" THEN Target ELSE level)
  /\ orphans' = orphans + (IF wpc = "rebuild_start" THEN 1 ELSE 0)

-----------------------------------------------------------------------------
(* The sound player: leaving, and giving the radio its turn back.          *)

LeaveSound == /\ sound_lock' = Tail(sound_lock) /\ spc' = "enter"
              /\ retried' = "no" /\ cancelled' = FALSE
\* async_resume_after_priority_sound up to its first await; without anything to
\* resume, async_release_sound follows and the sound's lock is free.
ResumeRadio(should) ==
  /\ suspended' = FALSE
  /\ IF should /\ intent
       THEN /\ NextGeneration(Append(Stale(radio_lock), Task("resume")))
            /\ spc' = "resume" /\ resolving' = "none"
            /\ UNCHANGED <<sound_lock, rpc, orphans, retried, cancelled>>
       ELSE LeaveSound /\ UNCHANGED radioTasks

\* _finish_priority up to its first await.
FinishPriority ==
  /\ old' = 0 /\ interruption' = FALSE /\ temporary' = FALSE
  /\ override' = (override /\ ~temporary)
  /\ \/ /\ ~interruption /\ LeaveSound
        /\ UNCHANGED <<resume_radio, suspended, radioTasks>>
     \/ /\ interruption /\ temporary /\ spc' = "restore"
        /\ UNCHANGED <<sound_lock, retried, cancelled, resume_radio, suspended,
                        radioTasks>>
     \/ /\ interruption /\ ~temporary
        /\ ResumeRadio(resume_radio) /\ resume_radio' = FALSE

\* async_restore_media returned, acknowledged or not.
Restore ==
  /\ sound_lock # <<>> /\ spc = "restore"
  /\ \/ level' = Target /\ UNCHANGED faults
     \/ level' \in {level, Target} /\ Fault("command")
  /\ ResumeRadio(resume_radio) /\ resume_radio' = FALSE
  /\ UNCHANGED <<token, old, watch, interruption, temporary, radioState,
                  override, alsa, playing, abandoned, sounds, acts, accepted>>

-----------------------------------------------------------------------------
(* async_play, async_stop and the watcher of a sound.                      *)

Request(op) == sound_lock' = Append(sound_lock, [op |-> op, id |-> sounds])

PlaySound ==
  /\ sounds > 0 /\ sounds' = sounds - 1
  /\ Request("play")
  /\ UNCHANGED <<spc, player, radioTasks, radioState, suspended, override, hub,
                  acts, faults, accepted>>

StopSound ==
  /\ Act("sound_stop")
  /\ Request("stop")
  /\ UNCHANGED <<spc, player, radioTasks, radioState, suspended, override, hub,
                  sounds, faults, accepted>>

\* _stop_locked takes token and watcher; a waiting watcher leaves the queue.
TakeToken ==
  /\ token # 0 /\ token' = 0 /\ old' = token /\ watch' = "none"
  /\ sound_lock' = Without(sound_lock, {"finish"})
  /\ spc' = "stop_old"

\* _begin_priority_locked up to its first await, or past it if still held.
BeginPriority ==
  /\ interruption' = TRUE /\ old' = 0
  /\ IF interruption THEN spc' = "idle" /\ temporary' = TRUE
                     ELSE spc' = "claim" /\ UNCHANGED temporary

EnterPlay ==
  /\ SoundHolder("play", "enter")
  /\ \/ TakeToken /\ UNCHANGED <<interruption, temporary>>
     \/ token = 0 /\ BeginPriority /\ UNCHANGED <<sound_lock, token, watch>>
  /\ UNCHANGED <<resume_radio, retried, cancelled, radioTasks, radioState,
                  suspended, override, hub, bounds, accepted>>

EnterStop ==
  /\ SoundHolder("stop", "enter")
  /\ \/ /\ TakeToken
        /\ UNCHANGED <<claim, retried, cancelled, radioTasks, suspended,
                        override>>
     \/ token = 0 /\ FinishPriority /\ UNCHANGED <<token, watch>>
  /\ UNCHANGED <<radioState, hub, bounds, accepted>>

\* The watcher got the lock with its token still current.
EnterFinish ==
  /\ SoundHolder("finish", "enter")
  /\ token' = 0 /\ watch' = "none"
  /\ FinishPriority
  /\ UNCHANGED <<radioState, hub, bounds, accepted>>

Silence(id) == IF alsa = "sound" /\ playing = id
                 THEN alsa' = "closed" /\ playing' = 0 /\ abandoned' = FALSE
                 ELSE UNCHANGED <<alsa, playing, abandoned>>

\* The command that stops a sound fails, or its caller does not wait for it.
Abandon(id) == /\ abandoned' = (abandoned \/ (alsa = "sound" /\ playing = id))
               /\ UNCHANGED <<alsa, playing>>
StopsOrNot(id) == Silence(id) \/ Abandon(id)

\* The sound that is replaced was stopped and its files removed.
OldStopped ==
  /\ SoundHolder("play", "stop_old")
  /\ Silence(old) /\ BeginPriority
  /\ UNCHANGED <<sound_lock, token, watch, resume_radio, retried, cancelled,
                  radioTasks, radioState, suspended, override, level, bounds,
                  accepted>>

\* async_stop goes on to _finish_priority in any case, async_play if it failed.
OldStopEnds ==
  /\ sound_lock # <<>> /\ spc = "stop_old"
  /\ \/ Head(sound_lock).op = "stop" /\ Silence(old) /\ UNCHANGED faults
     \/ Fault("command") /\ StopsOrNot(old)
  /\ FinishPriority
  /\ UNCHANGED <<token, watch, radioState, level, sounds, acts, accepted>>
\* async_claim_sound returned; async_suspend_for_priority_sound asks for its
\* lock.  The task of a transport that has just failed counts as a transport.
Claimed ==
  /\ SoundHolder("play", "claim")
  /\ spc' = "suspend"
  /\ Preempt(<<[op |-> "suspend", fresh |-> TRUE, resume |-> intent,
                busy |-> radio_lock # <<>> \/ ended]>>)
  /\ suspended' = TRUE /\ expected' = TRUE /\ resolving' = "none"
  /\ UNCHANGED <<sound_lock, player, intent, ffmpeg, wpc, override, alsa,
                  playing, abandoned, bounds, accepted>>
\* Mutant of DeviceIdle.
DeviceNotAsked ==
  /\ SoundHolder("play", "idle")
  /\ override' = TRUE /\ spc' = "gain"
  /\ UNCHANGED <<sound_lock, player, radioTasks, radioState, suspended, hub,
                  bounds, accepted>>

\* async_prepare_sound: the device is closed, so the alert's gain may be set.
DeviceIdle ==
  /\ SoundHolder("play", "idle")
  /\ alsa = "closed"
  /\ override' = TRUE /\ spc' = "gain"
  /\ UNCHANGED <<sound_lock, player, radioTasks, radioState, suspended, hub,
                  bounds, accepted>>

\* A BUSY reply: clean the radio's receiver and try the same step once more.
Busy ==
  /\ SoundHolder("play", spc) /\ spc \in {"idle", "start"}
  /\ alsa # "closed"
  /\ \/ /\ retried # spc /\ retried' = spc
        /\ spc' = "cleanup"
        /\ radio_lock' = Append(radio_lock, Task("cleanup"))
        /\ UNCHANGED <<sound_lock, claim, old, cancelled, rpc, resolving, wfresh,
                        ended, retry, orphans, suspended, override>>
     \/ retried = spc /\ FinishPriority
  /\ UNCHANGED <<token, watch, radioState, hub, bounds, accepted>>

GainApplied ==
  /\ SoundHolder("play", "gain")
  /\ level' = Target /\ spc' = "start"
  /\ UNCHANGED <<sound_lock, player, radioTasks, radioState, suspended, override,
                  alsa, playing, abandoned, bounds, accepted>>

\* sound.sh start: refused unless the device is closed.
Sounding == alsa = "closed" /\ alsa' = "sound" /\ playing' = Head(sound_lock).id

\* sound.sh start is acknowledged: its token is kept, and watched.
SoundStarts ==
  /\ SoundHolder("play", "start") /\ ~cancelled
  /\ Sounding
  /\ token' = Head(sound_lock).id /\ watch' = "polling"
  /\ LeaveSound
  /\ UNCHANGED <<old, claim, radioTasks, radioState, suspended, override, level,
                  abandoned, bounds, accepted>>
\* Mutant of CancelledStart.
StartNotSettled ==
  /\ SoundHolder("play", "start") /\ cancelled
  /\ Sounding
  /\ FinishPriority
  /\ UNCHANGED <<token, watch, radioState, level, abandoned, bounds, accepted>>

\* A cancelled play has waited for its start, and stops what it has started.
CancelledStart ==
  /\ SoundHolder("play", "start") /\ cancelled
  /\ Sounding /\ spc' = "stop_new"
  /\ UNCHANGED <<sound_lock, player, radioTasks, radioState, suspended, override,
                  level, abandoned, bounds, accepted>>

NewStopped ==
  /\ SoundHolder("play", "stop_new")
  /\ \/ Silence(Head(sound_lock).id) /\ UNCHANGED faults
     \/ Fault("command") /\ StopsOrNot(Head(sound_lock).id)
  /\ FinishPriority
  /\ UNCHANGED <<token, watch, radioState, level, sounds, acts, accepted>>

\* The idle check, the gain or the start failed, or its answer was lost.  What
\* was started is stopped by its token, unless that fails as well.
PlayFails ==
  /\ SoundHolder("play", spc) /\ spc \in {"idle", "gain", "start"}
  /\ Fault("command")
  /\ level' \in {level} \cup (IF spc = "gain" THEN {Target} ELSE {})
  /\ \/ UNCHANGED <<alsa, playing, abandoned>>
     \/ spc = "start" /\ Sounding /\ abandoned' = TRUE
  /\ FinishPriority
  /\ UNCHANGED <<token, watch, radioState, sounds, acts, accepted>>

\* The caller of async_play or async_stop is cancelled at the await step.
Cancelled(step) == /\ sound_lock # <<>> /\ Head(sound_lock).op \in {"play", "stop"}
                   /\ spc = step /\ step \in CancelAt

\* The except branch of a play, the finally of a stop.
CancelCall ==
  /\ \E step \in {"stop_old", "claim", "idle", "gain"} : Cancelled(step)
  /\ IF spc = "stop_old" THEN StopsOrNot(old) ELSE UNCHANGED <<alsa, playing, abandoned>>
  /\ level' \in {level} \cup (IF spc = "gain" THEN {Target} ELSE {})
  /\ FinishPriority
  /\ UNCHANGED <<token, watch, radioState, bounds, accepted>>

\* The start itself is shielded, with the cleanup and the retry it may need.
CancelStart ==
  /\ SoundHolder("play", spc) /\ "start" \in CancelAt
  /\ spc = "start" \/ (spc = "cleanup" /\ retried = "start")
  /\ ~cancelled /\ cancelled' = TRUE
  /\ UNCHANGED <<sound_lock, spc, token, old, watch, claim, retried,
                  radioTasks, radioState, suspended, override, hub, bounds,
                  accepted>>

\* A second cancellation is not suppressed: the start runs on without an owner,
\* in its turn and so before the gain is restored, or it is not stopped.
CancelSettling ==
  /\ \/ /\ SoundHolder("play", "start") /\ cancelled /\ "settle" \in CancelAt
        /\ \/ UNCHANGED <<alsa, playing, abandoned>>
           \/ Sounding /\ abandoned' = TRUE
     \/ Cancelled("stop_new") /\ StopsOrNot(Head(sound_lock).id)
  /\ FinishPriority
  /\ UNCHANGED <<token, watch, radioState, level, bounds, accepted>>

\* It is cancelled inside the radio player: while it suspends the radio
\* (_resume_radio is not assigned yet), or cleans its receiver for the gain.
OfSound == {"suspend", "cleanup"}

CancelHandover ==
  /\ SoundHolder("play", spc) /\ spc \in CancelAt
  /\ \/ spc = "suspend"
     \/ spc = "cleanup" /\ retried = "idle"
     \/ spc = "cleanup" /\ cancelled /\ "settle" \in CancelAt
  /\ radio_lock' = Without(radio_lock, OfSound)
  /\ rpc' = (IF Head(radio_lock).op \in OfSound THEN "enter" ELSE rpc)
  /\ alsa' \in {alsa} \cup (IF rpc = "stop" THEN {Stopped} ELSE {})
  /\ interruption' = FALSE /\ temporary' = FALSE /\ override' = FALSE
  /\ IF temporary THEN /\ spc' = "restore"
                       /\ UNCHANGED <<sound_lock, retried, cancelled, suspended>>
                  ELSE LeaveSound /\ suspended' = FALSE
  /\ accepted' = (accepted /\ spc # "suspend")
  /\ UNCHANGED <<token, old, watch, resume_radio, resolving, wfresh, ended,
                  retry, orphans, radioState, level, playing, abandoned, bounds>>

\* Only an Exception of the restore is caught: the radio is not resumed, and
\* stays suspended until the next sound gives it back.
CancelRestore ==
  /\ Cancelled("restore")
  /\ level' \in {level, Target}
  /\ resume_radio' = FALSE /\ accepted' = FALSE
  /\ LeaveSound
  /\ UNCHANGED <<token, old, watch, interruption, temporary, radioTasks,
                  radioState, suspended, override, alsa, playing, abandoned,
                  bounds>>

\* The start that resumes the radio ends at its own await; nothing retries it.
CancelResume ==
  /\ Cancelled("resume")
  /\ radio_lock' = Without(radio_lock, {"resume"})
  /\ LET resumes == Head(radio_lock).op = "resume"
     IN /\ rpc' = (IF resumes THEN "enter" ELSE rpc)
        /\ level' \in {level} \cup (IF resumes /\ rpc = "gain" THEN {Target} ELSE {})
        /\ orphans' = orphans + (IF resumes /\ rpc = "start" THEN 1 ELSE 0)
        /\ alsa' \in {alsa} \cup (IF resumes /\ rpc = "clean" THEN {Stopped} ELSE {})
  /\ accepted' = (accepted /\ \A i \in DOMAIN radio_lock :
                                 radio_lock[i].op = "resume" => ~radio_lock[i].fresh)
  /\ LeaveSound
  /\ UNCHANGED <<token, old, watch, claim, resolving, wfresh, ended, retry,
                  radioState, suspended, override, playing, abandoned, bounds>>

\* _watch sees the sound done or gone, or gives up after failures or a download
\* that takes too long, stopping the sound if it can.
WatchEnds ==
  /\ watch = "polling"
  /\ \/ /\ ~(alsa = "sound" /\ playing = token)
        /\ UNCHANGED <<alsa, playing, abandoned, faults>>
     \/ Fault("status") /\ StopsOrNot(token)
  /\ watch' = "waiting"
  /\ sound_lock' = Append(sound_lock, [op |-> "finish", id |-> token])
  /\ UNCHANGED <<spc, token, old, claim, retried, cancelled, radioTasks,
                  radioState, suspended, override, level, sounds, acts, accepted>>

-----------------------------------------------------------------------------
(* The radio player: what users ask for.                                   *)

soundKept == <<token, old, watch, override, playing, abandoned>>
soundTask == <<sound_lock, spc, claim, retried, cancelled>>

\* async_media_play and async_play_media; a media source is resolved first.
Play(op) ==
  /\ Act(op)
  /\ intent' = (intent \/ op = "media_play")
  /\ \/ Preempt(<<Task(op)>>) /\ resolving' = "none"
     \/ Preempt(<<>>) /\ resolving' = op
  /\ UNCHANGED <<soundKept, soundTask, expected, ffmpeg, wpc, suspended, alsa,
                  sounds, faults, accepted>>

Resolved ==
  /\ resolving # "none" /\ resolving' = "none"
  /\ radio_lock' = radio_lock \o (IF suspended THEN <<>> ELSE <<Task(resolving)>>)
  /\ UNCHANGED <<soundKept, soundTask, rpc, wfresh, ended, retry, orphans,
                  radioState, suspended, level, alsa, bounds, accepted>>
\* Mutant of MediaStop.
StopInTurn ==
  /\ Act("media_stop") /\ accepted' = FALSE
  /\ intent' = FALSE /\ expected' = TRUE
  /\ radio_lock' = Append(radio_lock, Task("media_stop"))
  /\ UNCHANGED <<soundKept, soundTask, rpc, resolving, wfresh, ended, retry,
                  orphans, ffmpeg, wpc, suspended, level, alsa, sounds, faults>>

\* The media source raises: the generation stays taken.
ResolveFails ==
  /\ resolving # "none" /\ Fault("resolve") /\ resolving' = "none"
  /\ accepted' = FALSE
  /\ UNCHANGED <<soundKept, soundTask, radio_lock, rpc, wfresh, ended, retry,
                  orphans, radioState, suspended, level, alsa, sounds, acts>>

MediaStop ==
  /\ Act("media_stop") /\ accepted' = FALSE
  /\ intent' = FALSE /\ expected' = TRUE
  /\ Preempt(<<Task("media_stop")>>) /\ resolving' = "none"
  /\ UNCHANGED <<soundKept, soundTask, ffmpeg, wpc, suspended, alsa, sounds,
                  faults>>

-----------------------------------------------------------------------------
(* _start_locked, for a play, a resume after a sound or a recovery.        *)
\* Mutant of EndStart.
NoRetryOfResume(raised) ==
  /\ radio_lock' = Tail(radio_lock) /\ rpc' = "enter"
  /\ LET op == Head(radio_lock).op
     IN /\ IF op = "resume" THEN LeaveSound /\ UNCHANGED claim
                            ELSE UNCHANGED soundTask
        /\ retry' = \/ retry
                    \/ op = "restart" /\ Head(radio_lock).fresh /\ intent /\ ~ffmpeg'
        /\ accepted' = (accepted /\ ~(raised /\ op \in {"play_media", "media_play"}))

\* A start ends.  A resume that raised schedules a recovery, a recovery without
\* result the next one; a play that raised tells its caller.
EndStart(raised) ==
  /\ radio_lock' = Tail(radio_lock) /\ rpc' = "enter"
  /\ LET op == Head(radio_lock).op
     IN /\ IF op = "resume" THEN LeaveSound /\ UNCHANGED claim
                            ELSE UNCHANGED soundTask
        /\ retry' = \/ retry
                    \/ op = "resume" /\ raised
                    \/ op = "restart" /\ Head(radio_lock).fresh /\ intent /\ ~ffmpeg'
        /\ accepted' = (accepted /\ ~(raised /\ op \in {"play_media", "media_play"}))

Proceed(step) == /\ rpc' = step
                 /\ UNCHANGED <<radio_lock, soundTask, retry, accepted>>

\* Go on if the generation is still current, else return.
ProceedIfCurrent(step) == IF Current THEN Proceed(step) ELSE EndStart(FALSE)

startKept == <<soundKept, resolving, ended, suspended, sounds, acts>>

EnterStart ==
  /\ RadioHolder(Starters, "enter")
  /\ UNCHANGED <<startKept, wfresh, orphans, ffmpeg, wpc, level, alsa, faults>>
  /\ \/ /\ Current /\ (Head(radio_lock).op = "resume" => ~ffmpeg)
        /\ rpc' = "claim" /\ expected' = FALSE
        /\ LET op == Head(radio_lock).op
           IN /\ intent' = (intent \/ op = "play_media")
              /\ accepted' = (accepted \/ op \in {"play_media", "media_play"})
        /\ UNCHANGED <<radio_lock, soundTask, retry>>
     \/ /\ ~(Current /\ (Head(radio_lock).op = "resume" => ~ffmpeg))
        /\ EndStart(FALSE)
        /\ UNCHANGED <<intent, expected>>
\* The group gave way; a transport that is replaced is stopped on the hub first.
IndividualClaimed ==
  /\ RadioHolder(Starters, "claim")
  /\ UNCHANGED <<startKept, wfresh, orphans, radioState, level, alsa, faults>>
  /\ ProceedIfCurrent(IF ffmpeg THEN "prestop" ELSE "gain")

StopCommand == \/ alsa' = Stopped /\ UNCHANGED faults
               \/ alsa' \in {alsa, Stopped} /\ Fault("command")

PreStopped ==
  /\ RadioHolder(Starters, "prestop")
  /\ StopCommand /\ Detach
  /\ ProceedIfCurrent("gain")
  /\ UNCHANGED <<startKept, wfresh, intent, expected>>

MediaGain ==
  /\ RadioHolder(Starters, "gain")
  /\ UNCHANGED <<startKept, wfresh, orphans, radioState, alsa>>
  /\ \/ level' = Target /\ ProceedIfCurrent("start") /\ UNCHANGED faults
     \/ level' \in {level, Target} /\ Fault("command") /\ EndStart(TRUE)

ReceiverStarted ==
  /\ RadioHolder(Starters, "start")
  /\ UNCHANGED <<startKept, wfresh, orphans, radioState, level>>
  /\ \/ /\ alsa' = Started
        /\ Proceed(IF Current THEN "connect" ELSE "clean")
        /\ UNCHANGED faults
     \/ alsa' \in {alsa, Started} /\ Fault("command") /\ EndStart(TRUE)

\* TCP to the receiver, then FFmpeg; a stale start stops the receiver again.
Connected ==
  /\ RadioHolder(Starters, "connect")
  /\ \/ /\ ~Current /\ Proceed("clean")
        /\ UNCHANGED <<wfresh, ffmpeg, wpc, alsa, faults>>
     \/ /\ Current /\ alsa = "empty"
        /\ alsa' = "radio" /\ ffmpeg' = TRUE /\ wpc' = "run" /\ wfresh' = TRUE
        /\ EndStart(FALSE)
        /\ UNCHANGED faults
     \/ /\ Current
        /\ IF alsa = "empty" THEN Fault("receiver") ELSE UNCHANGED faults
        /\ alsa' = Stopped /\ UNCHANGED <<wfresh, ffmpeg, wpc>>
        /\ EndStart(TRUE)
  /\ UNCHANGED <<startKept, orphans, intent, expected, level>>

StaleCleaned ==
  /\ RadioHolder(Starters, "clean")
  /\ UNCHANGED <<startKept, wfresh, orphans, radioState, level>>
  /\ StopCommand /\ EndStart(FALSE)

-----------------------------------------------------------------------------
(* The tasks that stop the transport.                                      *)

\* A user's Stop silences the hub before it tears down the transport.
EnterMediaStop ==
  /\ RadioHolder({"media_stop"}, "enter")
  /\ rpc' = "stop"
  /\ UNCHANGED <<soundKept, soundTask, radio_lock, resolving, wfresh, ended,
                  retry, orphans, radioState, suspended, level, alsa, bounds,
                  accepted>>

\* The sound player goes on with the radio suspended.
Yielded == /\ radio_lock' = Tail(radio_lock) /\ rpc' = "enter"
           /\ spc' = "idle" /\ temporary' = TRUE
           /\ resume_radio' = Head(radio_lock).resume
           /\ UNCHANGED <<sound_lock, interruption, retried, cancelled>>

EnterSuspend ==
  /\ RadioHolder({"suspend", "cleanup"}, "enter")
  /\ Detach
  /\ IF Head(radio_lock).op = "cleanup" \/ Head(radio_lock).busy \/ ffmpeg
       THEN rpc' = "stop" /\ UNCHANGED <<radio_lock, soundTask>>
       ELSE Yielded
  /\ UNCHANGED <<soundKept, resolving, wfresh, ended, retry, intent, expected,
                  suspended, alsa, bounds, accepted>>

TransportStopped ==
  /\ RadioHolder({"media_stop", "suspend", "cleanup"}, "stop")
  /\ StopCommand /\ Detach
  /\ LET op == Head(radio_lock).op
     IN \/ /\ op = "media_stop"
           /\ radio_lock' = Tail(radio_lock) /\ rpc' = "enter"
           /\ UNCHANGED soundTask
        \/ op = "suspend" /\ Yielded
        \/ /\ op = "cleanup"
           /\ radio_lock' = Tail(radio_lock) /\ rpc' = "enter"
           /\ spc' = retried
           /\ UNCHANGED <<sound_lock, claim, retried, cancelled>>
  /\ UNCHANGED <<soundKept, resolving, wfresh, ended, retry, intent, expected,
                  suspended, sounds, acts, accepted>>

-----------------------------------------------------------------------------
(* The watcher of a transport, and recovery.                               *)

watchKept == <<soundKept, soundTask, radio_lock, rpc, resolving, wfresh, orphans,
               intent, expected, suspended, sounds, acts, accepted>>

WatcherExits == /\ ffmpeg' = FALSE /\ wpc' = "none"
                /\ ended' = (wfresh /\ ~expected)
WatcherAt(step) == wpc' = step /\ UNCHANGED <<ffmpeg, ended>>

SourceFails ==
  /\ wpc = "run" /\ Fault("source")
  /\ WatcherExits
  /\ UNCHANGED <<watchKept, retry, level, alsa>>

\* The receiver is gone: rebuild it, unless the teardown was intended.
RebuildReceiver ==
  /\ wpc = "run" /\ alsa # "radio"
  /\ wfresh /\ ~suspended /\ ~expected
  /\ WatcherAt("rebuild_gain")
  /\ UNCHANGED <<watchKept, retry, level, alsa, faults>>

RebuildGain ==
  /\ wpc = "rebuild_gain"
  /\ \/ /\ level' = Target /\ UNCHANGED faults
        /\ IF wfresh /\ ~suspended THEN WatcherAt("rebuild_start")
                                   ELSE WatcherExits
     \/ level' \in {level, Target} /\ Fault("command") /\ WatcherExits
  /\ UNCHANGED <<watchKept, retry, alsa>>

RebuildStart ==
  /\ wpc = "rebuild_start"
  /\ \/ alsa' = Started /\ UNCHANGED faults /\ WatcherAt("rebuild_connect")
     \/ alsa' \in {alsa, Started} /\ Fault("command") /\ WatcherExits
  /\ UNCHANGED <<watchKept, retry, level>>

RebuildConnect ==
  /\ wpc = "rebuild_connect"
  /\ IF wfresh /\ ~suspended /\ alsa = "empty"
       THEN alsa' = "radio" /\ WatcherAt("run")
       ELSE UNCHANGED alsa /\ WatcherExits
  /\ UNCHANGED <<watchKept, retry, level, faults>>

\* The watcher's last lines: an unexpected end of a wanted stream is retried.
WatcherReports ==
  /\ ended /\ ended' = FALSE
  /\ retry' = (retry \/ intent)
  /\ UNCHANGED <<watchKept, ffmpeg, wpc, level, alsa, faults>>

\* _async_watchdog_restart or the slow retry wakes up.
RetryFires ==
  /\ retry /\ retry' = FALSE
  /\ radio_lock' = radio_lock \o (IF intent /\ ~ffmpeg THEN <<Task("restart")>>
                                                        ELSE <<>>)
  /\ UNCHANGED <<soundKept, soundTask, rpc, resolving, wfresh, ended, orphans,
                  radioState, suspended, level, alsa, bounds, accepted>>

-----------------------------------------------------------------------------
(* The hub.                                                                *)

hubKept == <<sound_lock, spc, player, resolving, radio_lock, rpc, wfresh, ended,
             retry, radioState, suspended, override, level, sounds, acts, accepted>>

SoundEnds ==
  /\ alsa = "sound" /\ alsa' = "closed" /\ playing' = 0 /\ abandoned' = FALSE
  /\ UNCHANGED <<hubKept, orphans, faults>>

\* aplay drains its buffer when the stream's socket is closed.
Drained ==
  /\ alsa = "radio" /\ wpc # "run" /\ alsa' = "closed"
  /\ UNCHANGED <<hubKept, playing, abandoned, orphans, faults>>

\* It dies, or the watcher stops it because its source has run dry.
ReceiverDies ==
  /\ alsa = "radio" /\ Fault("receiver") /\ alsa' = "closed"
  /\ UNCHANGED <<hubKept, playing, abandoned, orphans>>
OrphanStarts ==
  /\ orphans > 0 /\ orphans' = orphans - 1
  /\ alsa' = Started
  /\ UNCHANGED <<hubKept, playing, abandoned, faults>>

-----------------------------------------------------------------------------
SoundTask ==
  \/ Restore \/ EnterPlay \/ EnterStop \/ EnterFinish \/ OldStopped \/ OldStopEnds
  \/ Claimed \/ DeviceIdle \/ Busy \/ GainApplied \/ SoundStarts
  \/ CancelledStart \/ NewStopped \/ PlayFails
RadioTask ==
  \/ EnterStart \/ IndividualClaimed \/ PreStopped \/ MediaGain \/ ReceiverStarted
  \/ Connected \/ StaleCleaned \/ EnterMediaStop \/ EnterSuspend
  \/ TransportStopped
Watcher == RebuildReceiver \/ RebuildGain \/ RebuildStart \/ RebuildConnect
Cancellation == CancelCall \/ CancelStart \/ CancelSettling \/ CancelHandover
                \/ CancelRestore \/ CancelResume
Users == PlaySound \/ StopSound \/ MediaStop
         \/ \E op \in {"play_media", "media_play"} : Play(op)
Hub == SoundEnds \/ Drained \/ OrphanStarts

Next ==
  \/ SoundTask \/ RadioTask \/ Watcher \/ WatcherReports \/ WatchEnds \/ Resolved
  \/ RetryFires \/ Hub \/ Users \/ Cancellation \/ ResolveFails \/ SourceFails
  \/ ReceiverDies

Spec == Init /\ [][Next]_vars

\* Commands return or time out, tasks that can run do run, timers fire, sounds
\* end and buffers drain.
Fairness ==
  /\ WF_vars(SoundTask) /\ WF_vars(RadioTask) /\ WF_vars(Watcher)
  /\ WF_vars(WatcherReports) /\ WF_vars(WatchEnds) /\ WF_vars(Resolved) /\ WF_vars(RetryFires)
  /\ WF_vars(SoundEnds) /\ WF_vars(Drained) /\ WF_vars(OrphanStarts)

FairSpec == Spec /\ Fairness
-----------------------------------------------------------------------------
(* Properties.                                                             *)

IsRadioTask(task) == /\ task.op \in RadioOps
                     /\ {task.fresh, task.busy, task.resume} \subseteq BOOLEAN

TypeOK ==
  /\ \A i \in DOMAIN sound_lock : /\ sound_lock[i].op \in {"play", "stop", "finish"}
                                  /\ sound_lock[i].id \in 0..MaxSounds
  /\ spc \in SoundSteps /\ {token, old, playing} \subseteq 0..MaxSounds
  /\ watch \in {"none", "polling", "waiting"}
  /\ {interruption, resume_radio, temporary, cancelled} \subseteq BOOLEAN
  /\ retried \in {"no", "idle", "start"}
  /\ \A i \in DOMAIN radio_lock : IsRadioTask(radio_lock[i])
  /\ rpc \in RadioSteps /\ resolving \in {"none", "play_media", "media_play"}
  /\ {intent, suspended, expected, ffmpeg, wfresh, ended, retry} \subseteq BOOLEAN
  /\ wpc \in {"none", "run", "rebuild_gain", "rebuild_start", "rebuild_connect"}
  /\ override \in BOOLEAN /\ level \in {"media", "alert"}
  /\ alsa \in {"closed", "empty", "radio", "sound"}
  /\ orphans \in Nat /\ {sounds, acts, faults} \subseteq Nat
  /\ {abandoned, accepted} \subseteq BOOLEAN

\* From the moment the hub confirmed that the radio yielded until priority is
\* given back, replacements included, no radio PCM plays, whatever plays, retries
\* and receiver rebuilds are in flight (sound_player.py:39-48, 118-137,
\* media_player.py:360-366).
RadioYields == temporary /\ spc \notin {"idle", "cleanup"} => alsa # "radio"

\* A Stop the user pressed is not undone by the resume after a sound, by a
\* watchdog or by a start that was in flight (media_player.py:1365-1397).
StopRespected ==
  ~intent /\ (\A i \in DOMAIN radio_lock : radio_lock[i].op # "media_stop") => ~ffmpeg

\* A sound that is heard has priority, and somebody who ends it: it is the one
\* the player watches, or one that is being stopped.  No completion, Stop or
\* cancelled caller of another sound takes either away, and a caller cancelled
\* while the hub starts its sound waits for it and stops it
\* (sound_player.py:118-122, 156-163, 217-221).  What a command that failed or a
\* caller cancelled during a stop leaves playing is abandoned.
OwnedSound ==
  alsa = "sound" /\ ~abandoned =>
    /\ interruption /\ temporary /\ suspended
    /\ \/ playing = token /\ watch = "polling"
       \/ playing = old /\ spc = "stop_old"
       \/ playing = Head(sound_lock).id /\ spc = "stop_new"

\* Nothing is running, queued or scheduled.
Quiet == /\ sound_lock = <<>> /\ token = 0
         /\ radio_lock = <<>> /\ resolving = "none" /\ ~ended /\ ~retry

\* The current playback intent decides about the resume (README.md:226).
IntentControlsResume == Quiet /\ intent => ffmpeg

\* A stream that runs is fed to the hub: its watcher drops all PCM once a newer
\* intent has taken the generation (media_player.py:2073, and :369 "Return the
\* intentional teardown reason for a stale/handed-off session").
RunningStreamIsFed == Quiet /\ ffmpeg => wfresh

\* The radio is suspended only for a sound (media_player.py:489:
\* "_finish_priority() clears the suspend flag either way").  It holds unless a
\* caller is cancelled in the restore: AudioPriorityStuck.cfg shows that case.
SuspendedForASound == suspended => interruption \/ spc = "restore"

\* What the loudspeaker promises: every receiver start confirms the media gain first,
\* so the gain of a sound never leaks into the stream, failed restores included
\* (sound_player.py:60), and nothing the radio does moves the gain of the sound that
\* has priority (local_audio.py:211-234: the target is read when a command is sent).
Output == CASE alsa = "radio" -> "media"
            [] alsa = "sound" /\ playing = token -> "alert"
            [] alsa = "sound" /\ playing # token -> "stray"
            [] OTHER -> "silent"
Contract == INSTANCE Speaker WITH output <- Output, gain <- level
SpeakerSpec == Contract!Spec

\* However a priority ends, finished, stopped, replaced or failed, its radio is
\* given back, and an accepted stream is heard again once failures cease
\* (media_player.py:473: "Resume any accepted single-media intent after the
\* priority sound").  A caller cancelled in the handover to its sound, or in the
\* restore and the resume that end it, loses the stream: it is no longer accepted.
MediaRecovers == <>[](accepted => alsa = "radio")
=============================================================================
