--------------------------- MODULE LocalAudioProofs ---------------------------
(***************************************************************************)
(* For any number of positions of the slider, alerts, starts, failures and *)
(* cancelled callers: what plays on a hub plays at its own gain.           *)
(*                                                                         *)
(* RightGain is not inductive: a gain reaches the hub in steps, from the   *)
(* state read under the lock (Commands) by a command of whoever holds it   *)
(* (LockUsers), and a request in between is made good by the task of the       *)
(* slider, which is there as long as the level is not right (Heard).       *)
(***************************************************************************)
EXTENDS LocalAudio, TLAPS

\* The users of the lock: the task of the slider and one of the audio path, each of them
\* once, and what the player waits for says which.
LockUsers ==
  /\ \A i, j \in DOMAIN lock : (lock[i] = "slider" <=> lock[j] = "slider") => i = j
  /\ \A i \in DOMAIN lock :
       /\ lock[i] = "slider" => slider_task = "locking"
       /\ lock[i] = "media" => alert = "none"
       /\ lock[i] = "sound" => alert = "gain"
       /\ lock[i] = "restore" => alert = "over"

\* The gain of media follows slider and mute at once, that of an alert is set while it is
\* prepared and plays.
Asked == desired = Effective /\ (sound_gain # NoGain <=> alert \in {"gain", "plays"})

MediaLevels == {GainToLevel(g) : g \in SliderGains \cup {0}}

\* A command of the audio path carries the gain that is due, or the slider's task is there
\* to correct it; without an alert no command carries the gain of one.
Commands ==
  /\ lock = <<>> => step = "enter"
  /\ Holds({"slider"}) => step # "provision"
  /\ Holds(Audio) /\ step = "command" =>
       ready /\ (slider_task = "none" => sent = GainToLevel(Target))
  /\ alert = "none" /\ step = "command" => sent \in MediaLevels

\* What plays is heard at the level applied last, which is the one that is due unless the
\* slider's task is there.
Heard ==
  /\ media \/ alert = "plays" =>
       /\ \A i \in DOMAIN lock : lock[i] = "slider"
       /\ ready => level = applied
       /\ ready /\ slider_task = "none" => level = GainToLevel(Target)
  /\ media => alert = "none" /\ level \in MediaLevels

AudioInv == TypeOK /\ LockUsers /\ Asked /\ Commands /\ Heard

\* The bounds are numbers.
LEMMA BoundTypes ==
  /\ MaxSounds \in Nat /\ MaxActs \in Nat /\ MaxStarts \in Nat /\ MaxFaults \in Nat
  /\ SliderGains \subseteq Gains /\ AlertGain \in Gains /\ 0 \in Gains /\ NoGain \notin Gains
BY LocalAudioConstants DEF Gains, NoGain

-----------------------------------------------------------------------------
(* The levels of gains.                                                    *)

\* Rounded division does not leave the range of its quotients.
LEMMA RoundBound ==
  ASSUME NEW n \in Nat, NEW d \in Nat \ {0}, NEW k \in Nat, n <= k * d
  PROVE  Round(n, d) \in 0..k
<1>1. 2 * n + d \in Nat /\ 2 * d \in Nat \ {0}
  OBVIOUS
<1> DEFINE q == (2 * n + d) \div (2 * d)
<1>2. q \in Int /\ (2 * d) * q <= 2 * n + d /\ 2 * n + d < (2 * d) * (q + 1)
  BY <1>1
<1>3. q >= 0
  <2>1. SUFFICES ASSUME q <= -1 PROVE FALSE
    BY <1>2
  <2>2. (2 * d) * (q + 1) <= 0
    BY <1>1, <1>2, <2>1
  <2>3. QED
    BY <1>1, <1>2, <2>2
<1>4. q <= k
  <2>1. SUFFICES ASSUME q >= k + 1 PROVE FALSE
    BY <1>2
  <2>2. (2 * d) * q >= (2 * d) * (k + 1)
    BY <1>1, <1>2, <2>1
  <2>3. (2 * d) * (k + 1) = 2 * (k * d) + 2 * d
    OBVIOUS
  <2>4. QED
    BY <1>1, <1>2, <2>2, <2>3
<1>5. QED
  BY <1>2, <1>3, <1>4 DEF Round

\* A gain has a level of the control, and only silence has level 0.
LEMMA LevelOfGain ==
  ASSUME NEW g \in Gains
  PROVE  GainToLevel(g) \in 0..1023 /\ (GainToLevel(g) = 0 <=> g = 0)
<1>1. CASE g = 0
  BY <1>1 DEF GainToLevel
<1>2. CASE g # 0
  <2>1. g \in 1..Top /\ Top \in Nat \ {0, 1}
    BY <1>2, LocalAudioConstants DEF Gains
  <2>2. Top - 1 \in Nat \ {0} /\ 1023 * (g - 1) \in Nat
    BY <2>1
  <2>3. 1023 * (g - 1) <= 1023 * (Top - 1)
    BY <2>1
  <2>4. Round(1023 * (g - 1), Top - 1) \in 0..1023
    <3> DEFINE n == 1023 * (g - 1)
               d == Top - 1
               k == 1023
    <3>1. n \in Nat /\ d \in Nat \ {0} /\ k \in Nat /\ n <= k * d
      BY <2>2, <2>3
    <3> HIDE DEF n, d, k
    <3>2. Round(n, d) \in 0..k
      BY <3>1, RoundBound
    <3>3. QED
      BY <3>2 DEF n, d, k
  <2>5. QED
    BY <1>2, <2>4 DEF GainToLevel
<1>3. QED
  BY <1>1, <1>2

LEMMA TargetIsGain ==
  ASSUME TypeOK PROVE Target \in Gains /\ Effective \in SliderGains \cup {0}
BY LocalAudioConstants DEF TypeOK, Target, Effective, Gains, NoGain

\* The level that is due is one of media while there is no alert.
LEMMA LevelDue ==
  ASSUME AudioInv
  PROVE  /\ GainToLevel(Target) \in 0..1023
         /\ alert = "none" => GainToLevel(Target) \in MediaLevels
<1>1. Target \in Gains /\ Effective \in SliderGains \cup {0}
  BY TargetIsGain DEF AudioInv
<1>2. alert = "none" => Target = Effective
  BY DEF AudioInv, Asked, Target
<1>3. QED
  BY <1>1, <1>2, LevelOfGain DEF MediaLevels

-----------------------------------------------------------------------------
(* The lock.                                                               *)

Holders == Audio \cup {"slider"}

LEMMA Joined ==
  ASSUME NEW s \in Seq(Holders), NEW u \in Holders
  PROVE  /\ Append(s, u) \in Seq(Holders) /\ Append(s, u) # <<>>
         /\ DOMAIN Append(s, u) = DOMAIN s \cup {Len(s) + 1}
         /\ Append(s, u)[Len(s) + 1] = u /\ Len(s) + 1 \notin DOMAIN s
         /\ \A i \in DOMAIN s : Append(s, u)[i] = s[i]
         /\ Head(Append(s, u)) = IF s = <<>> THEN u ELSE Head(s)
OBVIOUS

LEMMA Left ==
  ASSUME NEW s \in Seq(Holders), s # <<>>
  PROVE  /\ Tail(s) \in Seq(Holders) /\ Head(s) \in Holders /\ 1 \in DOMAIN s /\ s[1] = Head(s)
         /\ \A i \in DOMAIN Tail(s) : i + 1 \in DOMAIN s /\ i + 1 # 1 /\ Tail(s)[i] = s[i + 1]
         /\ \A i, j \in DOMAIN Tail(s) : i + 1 = j + 1 => i = j
OBVIOUS

-----------------------------------------------------------------------------
(* The steps.                                                              *)

LEMMA InitAudioInv == Init => AudioInv
<1> SUFFICES ASSUME Init PROVE AudioInv
  OBVIOUS
<1>1. PICK g \in Gains : level = GainToLevel(g)
  BY DEF Init
<1>2. TypeOK
  <2>1. level \in 0..1023 /\ slider \in Gains
    <3>1. level \in 0..1023
      BY <1>1, LevelOfGain
    <3>2. slider \in Gains
      BY LocalAudioConstants DEF Init, Gains
    <3>3. QED
      BY <3>1, <3>2
  <2>2. /\ sounds \in 0..MaxSounds /\ acts \in 0..MaxActs
        /\ starts \in 0..MaxStarts /\ faults \in 0..MaxFaults
    BY LocalAudioConstants DEF Init
  <2>3. asked \in [gain : Gains, muted : BOOLEAN, respect : BOOLEAN]
    BY LocalAudioConstants DEF Init, NoAlert, Gains
  <2>4. lock \in Seq(Audio \cup {"slider"}) /\ applied \in -1..1023 /\ sent \in 0..1023
    BY DEF Init
  <2>5. slider \in SliderGains /\ muted \in BOOLEAN /\ media \in BOOLEAN /\ alert = "none"
        /\ desired \in Gains /\ sound_gain = NoGain /\ sound_muted \in BOOLEAN
        /\ respect \in BOOLEAN /\ ready \in BOOLEAN /\ step = "enter" /\ slider_task = "none"
    BY <2>1 DEF Init
  <2>6. QED
    BY <2>1, <2>2, <2>3, <2>4, <2>5 DEF TypeOK
<1>3. LockUsers /\ Asked /\ Commands /\ Heard
  BY DEF Init, LockUsers, Asked, Effective, Commands, Heard, Holds
<1>4. QED
  BY <1>2, <1>3 DEF AudioInv

\* A request sets the task of the slider to work, unless the hub is not provided for.
LEMMA RequestKeeps ==
  ASSUME AudioInv, Request, slider' \in SliderGains, muted' \in BOOLEAN
  PROVE  AudioInv'
<1> USE DEF AudioInv, Request, queue
<1>1. TypeOK'
  BY LocalAudioConstants DEF TypeOK, Gains
<1>2. LockUsers'
  BY DEF LockUsers
<1>3. Asked'
  BY DEF Asked, Effective
<1>4. Commands'
  BY DEF Commands, Holds, MediaLevels
<1>5. Heard'
  BY DEF Heard, MediaLevels
<1>6. QED
  BY <1>1, <1>2, <1>3, <1>4, <1>5

LEMMA SliderWakesKeeps ==
  ASSUME AudioInv, SliderWakes PROVE AudioInv'
<1> USE DEF AudioInv, SliderWakes, Join, player, override, bounds
<1>1. TypeOK'
  BY Joined DEF TypeOK, Holders
<1>2. LockUsers'
  BY SMTT(30), Joined DEF TypeOK, LockUsers, Holders, Audio
<1>3. Asked'
  BY DEF Asked, Effective
<1>4. Commands'
  BY SMTT(30), Joined DEF TypeOK, Commands, Holds, MediaLevels, Target, Holders, Audio
<1>5. Heard'
  BY Joined DEF TypeOK, Heard, MediaLevels, Target, Holders
<1>6. QED
  BY <1>1, <1>2, <1>3, <1>4, <1>5

\* The slider's task leaves only with the level that is due.
LEMMA SliderEntersKeeps ==
  ASSUME AudioInv, SliderEnters PROVE AudioInv'
<1> USE DEF AudioInv, SliderEnters, player, override, bounds
<1>1. Target' = Target /\ lock \in Seq(Holders) /\ lock # <<>> /\ Head(lock) = "slider"
  BY DEF Target, TypeOK, Holders, Holds
<1>2. Asked'
  BY DEF Asked, Effective
<1>3. CASE GainToLevel(Target) = applied
  <2> USE <1>3 DEF SliderNext, Leave
  <2>1. TypeOK'
    BY SMTT(30), <1>1, Left DEF TypeOK, Holders
  <2>2. LockUsers'
    BY SMTT(30), <1>1, Left DEF LockUsers, Holders
  <2>3. Commands'
    BY <1>1 DEF Commands
  <2>4. Heard'
    BY <1>1, Left DEF Heard, MediaLevels, Holders
  <2>5. QED
    BY <1>2, <2>1, <2>2, <2>3, <2>4
<1>4. CASE GainToLevel(Target) # applied
  <2> USE <1>4 DEF SliderNext
  <2>1. TypeOK'
    BY LevelDue DEF TypeOK
  <2>2. LockUsers'
    BY DEF LockUsers
  <2>3. Commands'
    BY <1>1, LevelDue DEF Commands, Holds, MediaLevels, Audio
  <2>4. Heard'
    BY <1>1 DEF Heard, MediaLevels
  <2>5. QED
    BY <1>2, <2>1, <2>2, <2>3, <2>4
<1>5. QED
  BY <1>3, <1>4

\* Its command is applied, and it goes on or leaves as above.
LEMMA SliderAppliedKeeps ==
  ASSUME AudioInv, SliderApplied PROVE AudioInv'
<1> USE DEF AudioInv, SliderApplied, player, override, bounds
<1>1. Target' = Target /\ lock \in Seq(Holders) /\ lock # <<>> /\ Head(lock) = "slider"
  BY DEF Target, TypeOK, Holders, Holds
<1>2. Asked'
  BY DEF Asked, Effective
<1>3. media => sent \in MediaLevels
  BY DEF Heard, Commands
<1>4. CASE GainToLevel(Target) = sent
  <2>1. lock' = Tail(lock) /\ step' = "enter" /\ sent' = 0 /\ slider_task' = "none"
    BY <1>4 DEF SliderNext, Leave
  <2>2. TypeOK'
    <3>1. lock' \in Seq(Holders) /\ sent \in 0..1023
      BY <1>1, <2>1, Left DEF TypeOK
    <3>2. QED
      BY <2>1, <3>1 DEF TypeOK, Holders
  <2>3. LockUsers'
    BY <1>1, <2>1, Left DEF LockUsers, Holders
  <2>4. Commands'
    BY <1>1, <2>1 DEF Commands
  <2>5. Heard'
    BY <1>1, <1>3, <1>4, <2>1, Left DEF Heard, MediaLevels, Holders
  <2>6. QED
    BY <1>2, <2>2, <2>3, <2>4, <2>5
<1>5. CASE GainToLevel(Target) # sent
  <2> USE <1>5 DEF SliderNext
  <2>1. TypeOK'
    BY LevelDue DEF TypeOK
  <2>2. LockUsers'
    BY DEF LockUsers
  <2>3. Commands'
    BY <1>1, LevelDue DEF Commands, Holds, MediaLevels, Audio
  <2>4. slider_task = "locking"
    BY <1>1, Left DEF LockUsers
  <2>5. Heard'
    BY <1>1, <1>3, <2>4 DEF Heard, MediaLevels
  <2>6. QED
    BY <1>2, <2>1, <2>2, <2>3, <2>5
<1>6. QED
  BY <1>4, <1>5

\* A failed command leaves the control at either level, and the hub to be provided for.
LEMMA SliderFailsKeeps ==
  ASSUME AudioInv, SliderFails PROVE AudioInv'
<1> USE DEF AudioInv
<1>1. Target' = Target /\ lock \in Seq(Holders) /\ lock # <<>> /\ Head(lock) = "slider"
  BY DEF SliderFails, player, override, Target, TypeOK, Holders, Holds
<1>2. TypeOK'
  <2>1. lock' \in Seq(Holders) /\ level' \in 0..1023 /\ faults' \in 0..MaxFaults
    BY <1>1, Left, BoundTypes DEF SliderFails, Fault, Leave, TypeOK
  <2>2. /\ ready' \in BOOLEAN /\ step' = "enter" /\ sent' = 0 /\ slider_task' = "none"
        /\ UNCHANGED <<slider, muted, media, alert, desired, sound_gain, sound_muted, respect,
                       asked, applied, sounds, acts, starts>>
    BY DEF SliderFails, Leave, player, override
  <2>3. QED
    BY <2>1, <2>2 DEF TypeOK, Holders
<1> USE DEF SliderFails, Fault, Leave, player, override
<1>3. LockUsers'
  BY <1>1, Left DEF LockUsers, Holders
<1>4. Asked'
  BY DEF Asked, Effective
<1>5. Commands'
  BY <1>1 DEF Commands, Holds
<1>6. Heard'
  BY <1>1, Left DEF Heard, Commands, MediaLevels, Holders
<1>7. QED
  BY <1>2, <1>3, <1>4, <1>5, <1>6

\* Media waits for the lock alone.
LEMMA StartMediaKeeps ==
  ASSUME AudioInv, StartMedia PROVE AudioInv'
<1> USE DEF AudioInv
<1>1. Target' = Target /\ lock \in Seq(Holders)
  BY DEF StartMedia, override, Target, TypeOK, Holders, Asked
<1>2. TypeOK'
  <2>1. lock' \in Seq(Holders) /\ starts' \in 0..MaxStarts /\ desired' \in Gains
    BY <1>1, Joined, BoundTypes DEF StartMedia, Join, TypeOK, Holders, Audio, Asked
  <2>2. /\ media' \in BOOLEAN
        /\ UNCHANGED <<slider, muted, alert, sound_gain, sound_muted, respect, asked, ready,
                       step, sent, slider_task, applied, level, sounds, acts, faults>>
    BY DEF StartMedia, Join, override
  <2>3. QED
    BY <2>1, <2>2 DEF TypeOK, Holders
<1> USE DEF StartMedia, Join, override
<1>3. LockUsers'
  BY SMTT(30), <1>1, Joined DEF LockUsers, Holders, Idle, Audio, TypeOK
<1>4. Asked'
  BY DEF Asked, Effective
<1>5. Commands'
  BY <1>1, Joined DEF Commands, Holds, MediaLevels, Holders, Audio
<1>6. Heard'
  BY DEF Heard
<1>7. QED
  BY <1>2, <1>3, <1>4, <1>5, <1>6

LEMMA StartAlertKeeps ==
  ASSUME AudioInv, NEW gain \in {slider, AlertGain}, NEW respect_mute \in BOOLEAN,
         StartAlert(gain, respect_mute)
  PROVE  AudioInv'
<1> USE DEF AudioInv
<1>1. Target' = Target /\ lock \in Seq(Holders)
  BY DEF StartAlert, override, Target, TypeOK, Holders
<1>2. gain \in Gains /\ sounds' \in 0..MaxSounds
  BY BoundTypes DEF StartAlert, TypeOK
<1>3. TypeOK'
  <2>1. asked' \in [gain : Gains, muted : BOOLEAN, respect : BOOLEAN]
    BY <1>2 DEF StartAlert, TypeOK
  <2>2. /\ media' \in BOOLEAN /\ alert' = "check"
        /\ UNCHANGED <<slider, muted, desired, sound_gain, sound_muted, respect, ready, lock,
                       step, sent, slider_task, applied, level, acts, starts, faults>>
    BY DEF StartAlert, override, queue
  <2>3. QED
    BY <1>2, <2>1, <2>2 DEF TypeOK
<1> USE DEF StartAlert, override, queue
<1>4. LockUsers'
  BY <1>1 DEF LockUsers, Idle, Audio, TypeOK
<1>5. Asked'
  BY DEF Asked, Effective
<1>6. Commands'
  BY <1>1 DEF Commands, Holds
<1>7. Heard'
  BY DEF Heard
<1>8. QED
  BY <1>3, <1>4, <1>5, <1>6, <1>7

\* The alert waits for the lock alone: a command on its way is the slider's.
LEMMA AlertCheckedKeeps ==
  ASSUME AudioInv, AlertChecked PROVE AudioInv'
<1> USE DEF AudioInv, AlertChecked, Join, bounds
<1>1. lock \in Seq(Holders) /\ asked.gain \in Gains /\ \A i \in DOMAIN lock : lock[i] = "slider"
  BY DEF TypeOK, Holders, LockUsers, Audio
<1>2. asked.gain # NoGain
  BY <1>1, LocalAudioConstants DEF Gains, NoGain
<1>3. TypeOK'
  BY SMTT(30), <1>1, Joined, LocalAudioConstants DEF TypeOK, Holders, Audio, NoAlert, Gains
<1>4. LockUsers'
  BY <1>1, Joined DEF LockUsers, Holders, Audio
<1>5. Asked'
  BY <1>2 DEF Asked, Effective
<1>6. Commands'
  BY <1>1, Joined, Left DEF Commands, Holds, Holders, Audio
<1>7. Heard'
  BY DEF Heard
<1>8. QED
  BY <1>3, <1>4, <1>5, <1>6, <1>7

\* The alert's gain is dropped before the restore waits for the lock.
LEMMA AlertEndsKeeps ==
  ASSUME AudioInv, AlertEnds PROVE AudioInv'
<1> USE DEF AudioInv
<1>1. /\ lock \in Seq(Holders) /\ \A i \in DOMAIN lock : lock[i] = "slider"
      /\ lock' = Append(lock, "restore") /\ UNCHANGED <<step, sent, ready, slider_task, applied, level>>
  BY DEF AlertEnds, RestoreMedia, Join, TypeOK, Holders, LockUsers, Audio, Heard
<1>2. /\ alert' = "over" /\ desired' = Effective /\ sound_gain' = NoGain
      /\ sound_muted' = FALSE /\ respect' = TRUE /\ asked' = NoAlert
      /\ UNCHANGED <<slider, muted, media, sounds, acts, starts>>
  BY DEF AlertEnds, RestoreMedia
<1>3. media = FALSE
  BY DEF AlertEnds, Heard, TypeOK
<1>4. TypeOK'
  <2>1. lock' \in Seq(Holders) /\ desired' \in Gains
    BY <1>1, <1>2, Joined, TargetIsGain, BoundTypes DEF Holders, Audio
  <2>2. faults' \in 0..MaxFaults
    BY BoundTypes DEF AlertEnds, Fault, TypeOK
  <2>3. asked' \in [gain : Gains, muted : BOOLEAN, respect : BOOLEAN]
    BY <1>2, BoundTypes DEF NoAlert
  <2>4. sound_muted' \in BOOLEAN /\ respect' \in BOOLEAN
    BY <1>2
  <2>5. /\ alert' = "over" /\ sound_gain' = NoGain
        /\ UNCHANGED <<step, sent, ready, slider_task, applied, level, slider, muted, media,
                       sounds, acts, starts>>
    BY <1>1, <1>2
  <2>6. QED
    BY <2>1, <2>2, <2>3, <2>4, <2>5 DEF TypeOK, Holders
<1>5. LockUsers'
  BY <1>1, <1>2, Joined DEF LockUsers, Holders, Audio
<1>6. Asked'
  BY <1>2 DEF Asked, Effective
<1>7. Commands'
  BY <1>1, <1>2, Joined, Left DEF Commands, Holds, Holders, Audio
<1>8. Heard'
  BY <1>2, <1>3 DEF Heard
<1>9. QED
  BY <1>4, <1>5, <1>6, <1>7, <1>8

\* The gain of the command is computed when the command is sent.
LEMMA AudioSends ==
  ASSUME AudioInv, Holds(Audio), step' = "command", sent' = GainToLevel(Target), ready',
         ready => step = "enter", TypeOK', LockUsers', Heard',
         UNCHANGED <<player, desired, override, lock, slider_task>>
  PROVE  AudioInv'
<1> USE DEF AudioInv, player, override
<1>1. Target' = Target
  BY DEF Target
<1>2. Asked'
  BY DEF Asked, Effective
<1>3. Commands'
  BY <1>1, LevelDue DEF Commands, Holds, MediaLevels, Audio
<1>4. QED
  BY <1>2, <1>3

LEMMA AudioEntersKeeps ==
  ASSUME AudioInv, AudioEnters PROVE AudioInv'
<1> USE DEF AudioInv
<1>1. Target' = Target
  BY DEF AudioEnters, override, Target
<1>2. TypeOK'
  <2>1. step' \in {"command", "provision"}
    BY DEF AudioEnters
  <2>2. sent' \in 0..1023
    <3>1. sent' \in {sent, GainToLevel(Target)} /\ sent \in 0..1023
      BY DEF AudioEnters, TypeOK
    <3>2. QED
      BY <3>1, LevelDue
  <2>3. UNCHANGED <<slider, muted, media, alert, desired, sound_gain, sound_muted, respect, asked,
                    ready, lock, slider_task, applied, level, sounds, acts, starts, faults>>
    BY DEF AudioEnters, player, override, bounds
  <2>4. QED
    BY <2>1, <2>2, <2>3 DEF TypeOK
<1> USE DEF AudioEnters, player, override, bounds
<1>3. LockUsers'
  BY DEF LockUsers
<1>4. Heard'
  BY <1>1 DEF Heard, MediaLevels
<1>5. CASE ready
  BY <1>2, <1>3, <1>4, <1>5, AudioSends
<1>6. CASE ~ready
  <2>1. Asked'
    BY DEF Asked, Effective
  <2>2. Commands'
    BY <1>6 DEF Commands, Holds, Audio
  <2>3. QED
    BY <1>2, <1>3, <1>4, <2>1, <2>2
<1>7. QED
  BY <1>5, <1>6

LEMMA ProvisionedKeeps ==
  ASSUME AudioInv, Provisioned PROVE AudioInv'
<1> USE DEF AudioInv, Provisioned, player, override, bounds
<1>1. TypeOK'
  BY LevelDue DEF TypeOK
<1>2. LockUsers'
  BY DEF LockUsers
<1>3. ~media /\ alert # "plays"
  BY Left DEF TypeOK, Holds, Heard, Audio, Holders
<1>4. Heard'
  BY <1>3 DEF Heard
<1>5. Asked'
  BY DEF Asked, Effective
<1>6. Commands'
  <2>1. Target' = Target
    BY DEF Target
  <2>2. QED
    BY <2>1, LevelDue DEF Commands, Holds, MediaLevels, Audio
<1>7. QED
  BY <1>1, <1>2, <1>4, <1>5, <1>6

\* What is left of the queue when the audio path leaves it: the slider's task.
LEMMA AudioLeaves ==
  ASSUME AudioInv, Holds(Audio), lock' = Tail(lock), UNCHANGED slider_task
  PROVE  /\ LockUsers' /\ lock' \in Seq(Holders) /\ ~media /\ alert # "plays"
         /\ \A i \in DOMAIN lock' : lock'[i] = "slider"
         /\ Head(lock) = lock[1] /\ 1 \in DOMAIN lock
<1>1. lock \in Seq(Holders) /\ lock # <<>> /\ Head(lock) \in Audio
  BY DEF AudioInv, TypeOK, Holders, Holds
<1>2. lock' \in Seq(Holders) /\ 1 \in DOMAIN lock /\ lock[1] = Head(lock)
  BY <1>1, Left
<1>3. \A i \in DOMAIN lock' : lock'[i] = "slider"
  BY <1>1, Left DEF AudioInv, LockUsers, Audio
<1>4. LockUsers'
  BY <1>1, <1>3, Left DEF AudioInv, LockUsers, Audio
<1>5. ~media /\ alert # "plays"
  BY <1>1, <1>2 DEF AudioInv, Heard, Audio
<1>6. QED
  BY <1>2, <1>3, <1>4, <1>5

\* The level is the one due, or the slider's task is there.
LEMMA AudioPreparedKeeps ==
  ASSUME AudioInv, AudioPrepared PROVE AudioInv'
<1> USE DEF AudioInv
<1>1. /\ lock' = Tail(lock) /\ step' = "enter" /\ sent' = 0 /\ level' = sent /\ applied' = sent
      /\ UNCHANGED <<slider, muted, desired, sound_gain, sound_muted, respect, asked, ready,
                     slider_task, sounds, acts, starts, faults>>
      /\ Holds(Audio) /\ step = "command"
  BY DEF AudioPrepared, Leave, override, bounds
<1>2. /\ LockUsers' /\ lock' \in Seq(Holders) /\ ~media /\ alert # "plays"
      /\ \A i \in DOMAIN lock' : lock'[i] = "slider"
      /\ Head(lock) = lock[1] /\ 1 \in DOMAIN lock
  BY <1>1, AudioLeaves
<1>3. Target' = Target
  BY <1>1 DEF Target
<1>4. \/ lock[1] = "media" /\ media' = TRUE /\ alert' = alert /\ alert = "none"
      \/ lock[1] = "sound" /\ media' = media /\ alert' = "plays" /\ alert = "gain"
      \/ lock[1] = "restore" /\ media' = media /\ alert' = "none" /\ alert = "over"
  BY <1>1, <1>2 DEF AudioPrepared, Holds, Audio, LockUsers
<1>5. TypeOK'
  <2>1. media' \in BOOLEAN
    <3>1. media \in BOOLEAN
      BY DEF TypeOK
    <3>2. media' = TRUE \/ media' = media
      BY <1>4
    <3>3. QED
      BY <3>1, <3>2
  <2>2. alert' \in {"none", "plays"} /\ level' \in 0..1023 /\ applied' \in -1..1023
    BY <1>1, <1>4 DEF TypeOK
  <2>3. QED
    BY <1>1, <1>2, <2>1, <2>2 DEF TypeOK, Holders
<1>6. Asked'
  BY <1>1, <1>4 DEF Asked, Effective
<1>7. Commands'
  BY <1>1 DEF Commands
<1>8. Heard'
  BY <1>1, <1>2, <1>3, <1>4 DEF Heard, Commands, MediaLevels
<1>9. QED
  BY <1>2, <1>5, <1>6, <1>7, <1>8

\* Whoever leaves without its gain leaves nothing that plays; an alert is given up and its
\* restore takes its place in the queue.
LEMMA AbandonKeeps ==
  ASSUME AudioInv, Holds(Audio), Abandon, level' \in {level, sent}, ready' \in BOOLEAN,
         faults' \in 0..MaxFaults, UNCHANGED <<slider_task, applied, sounds, acts, starts>>
  PROVE  AudioInv'
<1> USE DEF AudioInv
<1>1. lock \in Seq(Holders) /\ lock # <<>> /\ Head(lock) \in Audio /\ lock[1] = Head(lock)
      /\ 1 \in DOMAIN lock /\ ~media /\ alert # "plays"
  BY Left DEF TypeOK, Holders, Holds, Heard, Audio
<1>2. step' = "enter" /\ sent' = 0 /\ UNCHANGED <<slider, muted, media>>
  BY DEF Abandon, Leave, RestoreMedia, player
<1>3. level' \in 0..1023
  BY DEF TypeOK
<1>4. CASE Head(lock) = "sound"
  <2>1. /\ lock' = Append(Tail(lock), "restore") /\ alert' = "over" /\ desired' = Effective
        /\ sound_gain' = NoGain /\ sound_muted' = FALSE /\ respect' = TRUE /\ asked' = NoAlert
    BY <1>4 DEF Abandon, RestoreMedia
  <2>2. Tail(lock) \in Seq(Holders) /\ \A i \in DOMAIN Tail(lock) : Tail(lock)[i] = "slider"
    BY <1>1, Left DEF LockUsers, Audio
  <2>3. TypeOK'
    <3>1. lock' \in Seq(Holders) /\ desired' \in Gains
      BY <2>1, <2>2, Joined, TargetIsGain, BoundTypes DEF Holders, Audio
    <3>2. asked' \in [gain : Gains, muted : BOOLEAN, respect : BOOLEAN]
      BY <2>1, BoundTypes DEF NoAlert
    <3>3. sound_muted' \in BOOLEAN /\ respect' \in BOOLEAN
      BY <2>1
    <3>4. alert' = "over" /\ sound_gain' = NoGain
      BY <2>1
    <3>5. QED
      BY <1>2, <1>3, <3>1, <3>2, <3>3, <3>4 DEF TypeOK, Holders
  <2>4. LockUsers'
    <3>1. DOMAIN lock' = DOMAIN Tail(lock) \cup {Len(Tail(lock)) + 1}
          /\ lock'[Len(Tail(lock)) + 1] = "restore"
          /\ \A i \in DOMAIN Tail(lock) : lock'[i] = "slider" /\ lock[i + 1] = "slider"
                                           /\ i + 1 \in DOMAIN lock
      BY <1>1, <2>1, <2>2, Joined, Left DEF Holders, Audio
    <3>2. \A i, j \in DOMAIN Tail(lock) : i = j
      <4>1. \A i, j \in DOMAIN Tail(lock) : i + 1 = j + 1
        BY <3>1 DEF LockUsers
      <4>2. QED
        BY <1>1, <4>1, Left
    <3>3. QED
      BY <2>1, <3>1, <3>2 DEF LockUsers
  <2>5. Asked'
    BY <1>2, <2>1 DEF Asked, Effective
  <2>6. Commands' /\ Heard'
    BY <1>1, <1>2, <2>1, <2>2, Joined DEF Commands, Heard, Holders, Audio
  <2>7. QED
    BY <2>3, <2>4, <2>5, <2>6
<1>5. CASE Head(lock) # "sound"
  <2>1. /\ lock' = Tail(lock)
        /\ \/ Head(lock) = "media" /\ alert' = alert
           \/ Head(lock) = "restore" /\ alert' = "none"
        /\ UNCHANGED <<desired, sound_gain, sound_muted, respect, asked>>
    BY <1>5 DEF Abandon, Leave, player, override
  <2>2. LockUsers' /\ lock' \in Seq(Holders)
    BY <2>1, AudioLeaves
  <2>3. TypeOK'
    <3>1. alert' \in {alert, "none"}
      BY <2>1
    <3>2. QED
      BY <1>2, <1>3, <2>1, <2>2, <3>1 DEF TypeOK, Holders
  <2>4. Asked'
    BY <1>1, <1>2, <2>1 DEF Asked, Effective, LockUsers
  <2>5. Commands' /\ Heard'
    BY <1>1, <1>2, <2>1 DEF Commands, Heard
  <2>6. QED
    BY <2>2, <2>3, <2>4, <2>5
<1>6. QED
  BY <1>4, <1>5

LEMMA AudioFailsKeeps ==
  ASSUME AudioInv, AudioFails PROVE AudioInv'
<1>1. Holds(Audio) /\ Abandon /\ ready' = FALSE
      /\ UNCHANGED <<slider_task, applied, sounds, acts, starts>>
  BY DEF AudioFails
<1>2. level' \in {level, sent}
  BY DEF AudioFails
<1>3. faults' \in 0..MaxFaults
  BY BoundTypes DEF AudioFails, Fault, AudioInv, TypeOK
<1>4. ready' \in BOOLEAN
  BY <1>1
<1>5. QED
  BY <1>1, <1>2, <1>3, <1>4, AbandonKeeps

LEMMA AudioCancelledKeeps ==
  ASSUME AudioInv, AudioCancelled PROVE AudioInv'
<1>1. Holds(Audio) /\ Abandon /\ UNCHANGED <<slider_task, applied, sounds, acts, starts>>
  BY LocalAudioConstants DEF AudioCancelled, Holds, Audio, bounds
<1>2. level' \in {level, sent} /\ ready' = ready /\ faults' = faults
  BY DEF AudioCancelled, bounds
<1>3. ready' \in BOOLEAN /\ faults' \in 0..MaxFaults
  BY <1>2 DEF AudioInv, TypeOK
<1>4. QED
  BY <1>1, <1>2, <1>3, AbandonKeeps

LEMMA MediaEndsKeeps ==
  ASSUME AudioInv, MediaEnds PROVE AudioInv'
<1> USE DEF AudioInv
<1>1. UNCHANGED <<slider, muted, alert, desired, sound_gain, sound_muted, respect, asked, ready,
                  lock, step, sent, slider_task, applied, level, sounds, acts, starts, faults>>
  BY DEF MediaEnds, override, queue, bounds
<1>2. media' \in BOOLEAN
  BY DEF MediaEnds
<1>3. TypeOK'
  BY <1>1, <1>2 DEF TypeOK
<1>4. LockUsers' /\ Asked'
  BY <1>1 DEF LockUsers, Asked, Effective
<1>5. Target' = Target
  BY <1>1 DEF Target
<1>6. Commands'
  BY <1>1, <1>5 DEF Commands, Holds
<1>7. Heard'
  BY <1>1, <1>5 DEF MediaEnds, Heard
<1>8. QED
  BY <1>3, <1>4, <1>6, <1>7

-----------------------------------------------------------------------------
(* The theorems.                                                           *)

LEMMA NextKeeps == AudioInv /\ [Next]_vars => AudioInv'
<1> SUFFICES ASSUME AudioInv, [Next]_vars PROVE AudioInv'
  OBVIOUS
<1>1. CASE Slider
  BY <1>1, SliderWakesKeeps, SliderEntersKeeps, SliderAppliedKeeps DEF Slider
<1>2. CASE Users
  <2>1. Request /\ slider' \in SliderGains /\ muted' \in BOOLEAN
    <3>1. slider \in SliderGains /\ muted \in BOOLEAN
      BY DEF AudioInv, TypeOK
    <3>2. CASE \E g \in SliderGains : SetVolume(g)
      BY <3>1, <3>2 DEF SetVolume
    <3>3. CASE Mute
      BY <3>1, <3>3 DEF Mute
    <3>4. QED
      BY <1>2, <3>2, <3>3 DEF Users
  <2>2. QED
    BY <2>1, RequestKeeps
<1>3. CASE StartMedia \/ MediaEnds \/ AlertChecked \/ AlertEnds
  BY <1>3, StartMediaKeeps, MediaEndsKeeps, AlertCheckedKeeps, AlertEndsKeeps
<1>4. CASE \E respect_mute \in BOOLEAN, gain \in {slider, AlertGain} :
             StartAlert(gain, respect_mute)
  BY <1>4, StartAlertKeeps
<1>5. CASE AudioPath
  BY <1>5, AudioEntersKeeps, ProvisionedKeeps, AudioPreparedKeeps DEF AudioPath
<1>6. CASE SliderFails \/ AudioFails \/ AudioCancelled
  BY <1>6, SliderFailsKeeps, AudioFailsKeeps, AudioCancelledKeeps
<1>7. CASE UNCHANGED vars
  <2>1. UNCHANGED <<slider, muted, media, alert, desired, sound_gain, sound_muted, respect, asked,
                    ready, lock, step, sent, slider_task, applied, level, sounds, acts, starts,
                    faults>>
    BY <1>7 DEF vars, player, override, queue, bounds
  <2>2. Target' = Target
    BY <2>1 DEF Target
  <2>3. TypeOK'
    BY <2>1 DEF AudioInv, TypeOK
  <2>4. LockUsers' /\ Asked'
    BY <2>1 DEF AudioInv, LockUsers, Asked, Effective
  <2>5. Commands' /\ Heard'
    BY <2>1, <2>2 DEF AudioInv, Commands, Heard, Holds
  <2>6. QED
    BY <2>3, <2>4, <2>5 DEF AudioInv
<1>8. QED
  BY <1>1, <1>2, <1>3, <1>4, <1>5, <1>6, <1>7 DEF Next

\* The controller, the player and the hub stay in AudioInv, whatever interleaves.
THEOREM AudioInvariant == Spec => []AudioInv
BY InitAudioInv, NextKeeps, PTL DEF Spec

\* The state keeps its types: every command carries a level of the control.
THEOREM TypeCorrect == Spec => []TypeOK
<1>1. AudioInv => TypeOK
  BY DEF AudioInv
<1>2. QED
  BY <1>1, AudioInvariant, PTL

\* The slider is never at a position that has the level of an alert.
AlertStandsOut ==
  \A g \in SliderGains \cup {0} : GainToLevel(g) # GainToLevel(AlertGain)

\* As in RightGain: media plays at the gain of slider and mute, an alert at its own, and
\* the gain of an alert is never reused for media, however the requests, the alerts, the
\* failed commands and the cancelled callers interleave.
THEOREM PlaysAtItsOwnGain ==
  ASSUME AlertStandsOut PROVE Spec => []RightGain
<1>1. AudioInv => RightGain
  <2> SUFFICES ASSUME AudioInv PROVE RightGain
    OBVIOUS
  <2>1. ASSUME media PROVE Target = Effective
    BY <2>1 DEF AudioInv, Heard, Asked, Target
  <2>2. Effective \in Gains /\ (GainToLevel(Effective) = 0 <=> Effective = 0)
    BY TargetIsGain, LevelOfGain, BoundTypes DEF AudioInv
  <2>3. ASSUME media, Settled PROVE level = GainToLevel(Effective)
    BY <2>1, <2>3 DEF AudioInv, Heard, Settled
  <2>4. ASSUME alert = "plays", Settled
        PROVE  level = GainToLevel(IF respect /\ sound_muted THEN 0 ELSE sound_gain)
    BY <2>4 DEF AudioInv, Heard, Asked, Settled, Target
  <2>5. media => level # GainToLevel(AlertGain)
    BY AlertStandsOut DEF AlertStandsOut, AudioInv, Heard, MediaLevels
  <2>6. QED
    BY <2>2, <2>3, <2>4, <2>5 DEF RightGain
<1>2. QED
  BY <1>1, AudioInvariant, PTL
===============================================================================
