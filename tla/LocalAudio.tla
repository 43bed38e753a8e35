----------------------------- MODULE LocalAudio -----------------------------
(***************************************************************************)
(* The volume of one hub, local_audio.py: the slider and the mute button   *)
(* of the media player, the temporary gain of an alert, and the one ALSA   *)
(* control both are written to.                                            *)
(*                                                                         *)
(* The controller's lock is the sequence of its users: the audio path      *)
(* ("media", "sound", "restore", one at a time) and the task that applies  *)
(* slider requests ("slider").  step is the await its head is at, sent the *)
(* level its command carries.  A command of a cancelled user is carried    *)
(* out or not, but never after a later one: the private audio channel is   *)
(* in order.                                                               *)
(*                                                                         *)
(* A gain is 0 for silence and g \in 1..Top for -80 dB .. 0 dB in equal    *)
(* steps.  Bounds: MaxSounds alerts, MaxActs moves of the slider or the    *)
(* mute button, MaxStarts starts of media, MaxFaults failed commands.      *)
(***************************************************************************)
EXTENDS Integers, Sequences

CONSTANTS
  Top, AlertGain,
  SliderGains,          \* the positions of the slider
  MaxSounds, MaxActs, MaxStarts, MaxFaults,
  Cancellable           \* the users of the lock whose caller may be cancelled

ASSUME LocalAudioConstants ==
  /\ Top \in Nat \ {0, 1} /\ AlertGain \in 0..Top /\ SliderGains \subseteq 0..Top
  /\ {MaxSounds, MaxActs, MaxStarts, MaxFaults} \subseteq Nat
  /\ Cancellable \subseteq {"media", "sound"}

VARIABLES               \* the media player
  slider, muted,        \* _attr_volume_level, _attr_is_volume_muted
  media,                \* its stream plays on the hub
  alert                 \* "none", "check" (is ALSA closed?), "gain", "plays" or
                        \* "over": the restore is under way

VARIABLES               \* AqaraM1SLocalAudio
  desired,              \* desired_gain
  sound_gain,           \* _sound_gain, NoGain for None
  sound_muted, respect, \* _sound_muted, _sound_respect_mute
  asked,                \* the arguments of async_prepare_sound
  ready,                \* _ready: the hub's files are in place
  lock, step, sent,
  slider_task,          \* _gain_task: "none", "sleeping" or "locking"
  applied               \* applied_level, -1 for None

VARIABLES
  level,                \* the ALSA control of the hub
  sounds, acts, starts, faults

player == <<slider, muted, media, alert>>
override == <<sound_gain, sound_muted, respect>>
queue == <<lock, step, sent>>
bounds == <<sounds, acts, starts, faults>>
vars == <<player, desired, override, asked, ready, queue, slider_task, applied,
          level, bounds>>

Gains == 0..Top
NoGain == -1
NoAlert == [gain |-> 0, muted |-> FALSE, respect |-> TRUE]
Round(n, d) == (2 * n + d) \div (2 * d)
\* gain_to_level: the control is logarithmic and keeps level 0 for silence.
GainToLevel(g) ==
  IF g = 0 THEN 0
  ELSE LET l == Round(1023 * (g - 1), Top - 1) IN IF l < 1 THEN 1 ELSE l

\* _effective_gain of the media player.
Effective == IF muted THEN 0 ELSE slider
\* _target_gain.
Target == IF sound_gain = NoGain THEN desired
          ELSE IF respect /\ sound_muted THEN 0 ELSE sound_gain

Init ==
  /\ slider \in SliderGains /\ muted = FALSE /\ media = FALSE /\ alert = "none"
  /\ desired = slider /\ sound_gain = NoGain /\ sound_muted = FALSE
  /\ respect = TRUE /\ asked = NoAlert /\ ready = FALSE
  /\ lock = <<>> /\ step = "enter" /\ sent = 0 /\ slider_task = "none"
  /\ applied = -1 /\ level \in {GainToLevel(g) : g \in Gains}
  /\ sounds = MaxSounds /\ acts = MaxActs
  /\ starts = MaxStarts /\ faults = MaxFaults

Holds(users) == lock # <<>> /\ Head(lock) \in users
Audio == {"media", "sound", "restore"}
Idle == \A i \in DOMAIN lock : lock[i] \notin Audio
Fault == faults > 0 /\ faults' = faults - 1
Join(user) == /\ lock' = Append(lock, user)
              /\ UNCHANGED <<step, sent>>
Leave == lock' = Tail(lock) /\ step' = "enter" /\ sent' = 0

-----------------------------------------------------------------------------
(* The slider and the mute button: request_gain.                           *)

\* Mutant of Request.
SkipWhenBusy ==
  /\ acts > 0 /\ acts' = acts - 1
  /\ desired' = (IF muted' THEN 0 ELSE slider')
  /\ sound_muted' = muted'
  /\ slider_task' = (IF ready /\ slider_task = "none" /\ lock = <<>>
                      THEN "sleeping" ELSE slider_task)
  /\ UNCHANGED <<media, alert, sound_gain, respect, asked, ready, queue, applied,
                  level, sounds, starts, faults>>

Request ==
  /\ acts > 0 /\ acts' = acts - 1
  /\ desired' = (IF muted' THEN 0 ELSE slider')
  /\ sound_muted' = muted'
  /\ slider_task' = (IF ready /\ slider_task = "none" THEN "sleeping"
                                                     ELSE slider_task)
  /\ UNCHANGED <<media, alert, sound_gain, respect, asked, ready, queue, applied,
                  level, sounds, starts, faults>>

SetVolume(g) == slider' = g /\ UNCHANGED muted /\ Request
Mute == muted' = ~muted /\ UNCHANGED slider /\ Request

SliderWakes ==
  /\ slider_task = "sleeping" /\ slider_task' = "locking"
  /\ Join("slider")
  /\ UNCHANGED <<player, desired, override, asked, ready, applied, level, bounds>>
\* Mutant of SliderNext.
ApplyOnce(is) ==
  IF GainToLevel(Target) = is \/ step = "command"
    THEN Leave /\ slider_task' = "none"
    ELSE /\ step' = "command" /\ sent' = GainToLevel(Target)
         /\ UNCHANGED <<lock, slider_task>>

\* The loop of _apply_requested_gain, when applied_level has become is.
SliderNext(is) ==
  IF GainToLevel(Target) = is
    THEN Leave /\ slider_task' = "none"
    ELSE /\ step' = "command" /\ sent' = GainToLevel(Target)
         /\ UNCHANGED <<lock, slider_task>>

SliderEnters ==
  /\ Holds({"slider"}) /\ step = "enter"
  /\ SliderNext(applied)
  /\ UNCHANGED <<player, desired, override, asked, ready, applied, level, bounds>>

SliderApplied ==
  /\ Holds({"slider"}) /\ step = "command"
  /\ level' = sent /\ applied' = sent
  /\ SliderNext(sent)
  /\ UNCHANGED <<player, desired, override, asked, ready, bounds>>

\* The command failed or its answer was lost.
SliderFails ==
  /\ Holds({"slider"}) /\ step = "command" /\ Fault
  /\ level' \in {level, sent} /\ ready' = FALSE
  /\ Leave /\ slider_task' = "none"
  /\ UNCHANGED <<player, desired, override, asked, applied, sounds, acts, starts>>

-----------------------------------------------------------------------------
(* The audio path up to the lock.                                          *)

\* A stream (re)starts; the one it replaces is stopped.
StartMedia ==
  /\ starts > 0 /\ starts' = starts - 1
  /\ Idle /\ alert = "none"
  /\ media' = FALSE /\ desired' = Effective
  /\ Join("media")
  /\ UNCHANGED <<slider, muted, alert, override, asked, ready, slider_task,
                  applied, level, sounds, acts, faults>>

\* Media has yielded; async_prepare_sound asks the hub whether ALSA is closed.
StartAlert(gain, respect_mute) ==
  /\ sounds > 0 /\ sounds' = sounds - 1
  /\ Idle /\ alert = "none"
  /\ media' = FALSE /\ alert' = "check"
  /\ asked' = [gain |-> gain, muted |-> muted, respect |-> respect_mute]
  /\ UNCHANGED <<slider, muted, desired, override, ready, queue, slider_task,
                  applied, level, acts, starts, faults>>

AlertChecked ==
  /\ alert = "check" /\ alert' = "gain"
  /\ sound_gain' = asked.gain /\ sound_muted' = asked.muted
  /\ respect' = asked.respect /\ asked' = NoAlert
  /\ Join("sound")
  /\ UNCHANGED <<slider, muted, media, desired, ready, slider_task, applied,
                  level, bounds>>
\* async_restore_media, with the gain _finish_priority reads for it.
RestoreMedia ==
  /\ alert' = "over"
  /\ desired' = Effective
  /\ sound_gain' = NoGain /\ sound_muted' = FALSE /\ respect' = TRUE
  /\ asked' = NoAlert
  /\ UNCHANGED <<slider, muted, media>>

\* ALSA is busy or the check fails, or the alert ends.
AlertEnds ==
  /\ \/ alert = "check" /\ Fault
     \/ alert = "check" /\ "sound" \in Cancellable /\ UNCHANGED faults
     \/ alert = "plays" /\ UNCHANGED faults
  /\ RestoreMedia
  /\ Join("restore")
  /\ UNCHANGED <<ready, slider_task, applied, level, sounds, acts, starts>>

-----------------------------------------------------------------------------
(* _async_prepare_gain.                                                    *)

AudioEnters ==
  /\ Holds(Audio) /\ step = "enter"
  /\ IF ready THEN step' = "command" /\ sent' = GainToLevel(Target)
              ELSE step' = "provision" /\ UNCHANGED sent
  /\ UNCHANGED <<player, desired, override, asked, ready, lock, slider_task,
                  applied, level, bounds>>

Provisioned ==
  /\ Holds(Audio) /\ step = "provision"
  /\ ready' = TRUE
  /\ step' = "command" /\ sent' = GainToLevel(Target)
  /\ UNCHANGED <<player, desired, override, asked, lock, slider_task, applied,
                  level, bounds>>

\* The gain is acknowledged: media opens the device, the alert plays.
AudioPrepared ==
  /\ Holds(Audio) /\ step = "command"
  /\ level' = sent /\ applied' = sent
  /\ Leave
  /\ CASE Head(lock) = "media" -> media' = TRUE /\ UNCHANGED alert
       [] Head(lock) = "sound" -> alert' = "plays" /\ UNCHANGED media
       [] Head(lock) = "restore" -> alert' = "none" /\ UNCHANGED media
  /\ UNCHANGED <<slider, muted, desired, override, asked, ready, slider_task,
                  bounds>>

\* What follows when the gain was not acknowledged: media does not start, an alert
\* is given up, a failed restore is only logged.
Abandon ==
  \/ /\ Head(lock) = "media"
     /\ Leave /\ UNCHANGED <<player, desired, override, asked>>
  \/ /\ Head(lock) = "sound"
     /\ lock' = Append(Tail(lock), "restore") /\ step' = "enter" /\ sent' = 0
     /\ RestoreMedia
  \/ /\ Head(lock) = "restore"
     /\ Leave /\ alert' = "none"
     /\ UNCHANGED <<slider, muted, media, desired, override, asked>>
AudioFails ==
  /\ Holds(Audio) /\ step \in {"provision", "command"} /\ Fault
  /\ level' \in (IF step = "command" THEN {level, sent} ELSE {level})
  /\ ready' = FALSE
  /\ Abandon
  /\ UNCHANGED <<slider_task, applied, sounds, acts, starts>>

\* The caller is cancelled while its command is carried out.
AudioCancelled ==
  /\ Holds(Cancellable)
  /\ level' \in (IF step = "command" THEN {level, sent} ELSE {level})
  /\ Abandon
  /\ UNCHANGED <<ready, slider_task, applied, bounds>>

MediaEnds ==
  /\ media /\ media' = FALSE
  /\ UNCHANGED <<slider, muted, alert, desired, override, asked, ready, queue,
                  slider_task, applied, level, bounds>>

-----------------------------------------------------------------------------
Slider == SliderWakes \/ SliderEnters \/ SliderApplied
AudioPath == AudioEnters \/ Provisioned \/ AudioPrepared
Users == (\E g \in SliderGains : SetVolume(g)) \/ Mute

Next ==
  \/ Slider \/ SliderFails \/ Users
  \/ StartMedia \/ MediaEnds \/ AlertChecked \/ AlertEnds
  \/ \E respect_mute \in BOOLEAN, gain \in {slider, AlertGain} :
       StartAlert(gain, respect_mute)
  \/ AudioPath \/ AudioFails \/ AudioCancelled

Spec == Init /\ [][Next]_vars

\* The sleeping task wakes, a lock is granted, a command returns.
FairSpec == /\ Spec
            /\ WF_vars(Slider \/ SliderFails) /\ WF_vars(AudioPath)

-----------------------------------------------------------------------------
(* Properties.                                                             *)

TypeOK ==
  /\ slider \in SliderGains /\ muted \in BOOLEAN /\ media \in BOOLEAN
  /\ alert \in {"none", "check", "gain", "plays", "over"}
  /\ desired \in Gains /\ sound_gain \in Gains \cup {NoGain}
  /\ sound_muted \in BOOLEAN /\ respect \in BOOLEAN
  /\ asked \in [gain : Gains, muted : BOOLEAN, respect : BOOLEAN]
  /\ ready \in BOOLEAN /\ lock \in Seq(Audio \cup {"slider"})
  /\ step \in {"enter", "provision", "command"} /\ sent \in 0..1023
  /\ slider_task \in {"none", "sleeping", "locking"}
  /\ applied \in -1..1023 /\ level \in 0..1023
  /\ sounds \in 0..MaxSounds /\ acts \in 0..MaxActs
  /\ starts \in 0..MaxStarts /\ faults \in 0..MaxFaults

\* Nothing is on its way to the control, and none of its commands failed.
Settled == ready /\ lock = <<>> /\ slider_task = "none"

\* However slider, mute, restarts, alerts and cancelled callers interleave, media
\* plays at the gain of slider and mute (README.md:64: volume and mute changes made
\* during an alert remain effective afterwards), an alert at its own gain whatever
\* the slider asks for meanwhile (local_audio.py:97-100, 211-226), and the gain of
\* an alert is never reused for media, also when its restore fails
\* (test_local_audio.py:195; the slider is never at AlertGain).  Only gain zero is
\* silent (local_audio.py:36).
RightGain ==
  /\ media /\ Settled => level = GainToLevel(Effective)
  /\ alert = "plays" /\ Settled =>
       level = GainToLevel(IF respect /\ sound_muted THEN 0 ELSE sound_gain)
  /\ media => level # GainToLevel(AlertGain)
  /\ media /\ Settled => (level = 0 <=> Effective = 0)

\* An alert played with respect_mute is silent while its hub is muted
\* (the table at SOUND_MUTE_POLICY_RO.md:62).
AlertRespectsMute == alert = "plays" /\ respect /\ muted /\ Settled => level = 0

\* What the slider asks for is in the end what is heard, whatever fails; the
\* code gives this up after one failed command (_ready, local_audio.py:259).
SliderAlwaysObeyed == <>[](media => level = GainToLevel(Effective))

\* A request that arrives while a command is carried out, waits or belongs to
\* an alert is not lost: as long as no command fails, what the slider asks for
\* is in the end what is heard.
SliderObeyed == [](faults = MaxFaults) => SliderAlwaysObeyed
=============================================================================
