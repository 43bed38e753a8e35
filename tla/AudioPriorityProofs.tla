------------------------- MODULE AudioPriorityProofs -------------------------
(***************************************************************************)
(* For any number of sounds, actions of users and failures: the radio      *)
(* yields to a sound, a Stop is not undone, and the loudspeaker keeps its  *)
(* contract, Speaker.                                                      *)
(*                                                                         *)
(* The argument: a sound that has priority keeps the radio suspended; a    *)
(* task of the radio that can still open the device is fresh, was let past *)
(* its start with the radio not suspended, is wanted, and has confirmed    *)
(* the media gain.  The claim of a sound and a Stop make every task of the *)
(* radio stale at once.                                                    *)
(***************************************************************************)
EXTENDS AudioPriority, SequenceTheorems, WellFoundedInduction, TLAPS

SoundTasks == [op : {"play", "stop", "finish"}, id : 0..MaxSounds]
RadioTasks == [op : RadioOps, fresh : BOOLEAN, busy : BOOLEAN, resume : BOOLEAN]

-----------------------------------------------------------------------------
(* The inductive invariant.                                                *)

SoundTypes ==
  /\ sound_lock \in Seq(SoundTasks) /\ spc \in SoundSteps
  /\ token \in 0..MaxSounds /\ old \in 0..MaxSounds
  /\ watch \in {"none", "polling", "waiting"}
  /\ interruption \in BOOLEAN /\ resume_radio \in BOOLEAN
  /\ temporary \in BOOLEAN /\ cancelled \in BOOLEAN
  /\ retried \in {"no", "idle", "start"} /\ override \in BOOLEAN

Transports == {"none", "run", "rebuild_gain", "rebuild_start", "rebuild_connect"}

RadioTypes ==
  /\ radio_lock \in Seq(RadioTasks) /\ rpc \in RadioSteps
  /\ resolving \in {"none", "play_media", "media_play"} /\ orphans \in Nat
  /\ intent \in BOOLEAN /\ suspended \in BOOLEAN /\ expected \in BOOLEAN
  /\ ffmpeg \in BOOLEAN /\ wfresh \in BOOLEAN /\ ended \in BOOLEAN /\ retry \in BOOLEAN
  /\ wpc \in Transports

HubTypes ==
  /\ level \in {"media", "alert"} /\ playing \in 0..MaxSounds
  /\ alsa \in {"closed", "empty", "radio", "sound"}

BoundTypes ==
  /\ sounds \in 0..MaxSounds /\ acts \in Nat /\ faults \in Nat
  /\ accepted \in BOOLEAN

\* Where the task of the sound is, and what it holds there.
Priority ==
  /\ sound_lock = <<>> => spc = "enter"
  /\ temporary => interruption /\ suspended
  /\ override => temporary
  /\ interruption /\ spc \notin {"claim", "suspend"} => temporary
  /\ spc \in {"claim", "suspend"} => interruption
  /\ spc = "suspend" => suspended
  /\ spc \in {"restore", "resume"} => ~temporary
  /\ spc \in {"idle", "gain", "start", "cleanup", "stop_new"} => temporary
  /\ spc = "cleanup" => retried # "no"
  /\ spc = "gain" => override
  /\ spc # "enter" => token = 0

\* From the confirmed yield on, its start and the retry of it included.
Yields == \/ temporary /\ spc \notin {"idle", "cleanup"}
          \/ spc = "cleanup" /\ retried = "start"

PlaysAreNumbered(lock) == \A i \in 1..Len(lock) : lock[i].op = "play" => lock[i].id # 0

\* The alert that has priority is heard at its gain, and the radio is not.
Silent ==
  /\ token # 0 \/ spc = "start" \/ (spc = "cleanup" /\ retried = "start")
     => override /\ level = "alert"
  /\ Yields \/ override => alsa # "radio"
  /\ alsa = "sound" => playing # 0
  /\ PlaysAreNumbered(sound_lock)

\* The sound waits for one task of the radio at a time, by the name of that await.
Awaited == {"suspend", "cleanup", "resume"}
AwaitedIs(lock, step) ==
  /\ \A i \in 1..Len(lock) : lock[i].op \in Awaited => lock[i].op = step
  /\ \A i, j \in 1..Len(lock) : lock[i].op \in Awaited /\ lock[j].op \in Awaited => i = j

RadioLock == (radio_lock = <<>> => rpc = "enter") /\ AwaitedIs(radio_lock, spc)

\* What is fresh is wanted.
FreshIsWanted(lock, wish) ==
  \A i \in 1..Len(lock) :
    lock[i].fresh /\ lock[i].op \in {"media_play", "resume", "restart"} => wish

Wanted == (resolving = "media_play" => intent) /\ FreshIsWanted(radio_lock, intent)

\* The start that is under way may open the device if it is fresh.
Opens(lock, step) ==
  lock # <<>> /\ Head(lock).op \in Starters /\ Head(lock).fresh /\ step # "enter"

MayOpen ==
  /\ Opens(radio_lock, rpc)
     => intent /\ ~suspended /\ (rpc \in {"start", "connect"} => level = "media")
  /\ wfresh => ~suspended /\ (wpc \in {"rebuild_start", "rebuild_connect"} => level = "media")
  /\ wpc \in Transports \ {"none", "run"} => alsa # "radio"

HasStop(lock) == \E i \in 1..Len(lock) : lock[i].op = "media_stop"

StopStands == ~intent /\ ~HasStop(radio_lock) => ~ffmpeg

PriorityInv ==
  /\ SoundTypes /\ RadioTypes /\ HubTypes /\ BoundTypes /\ Priority /\ Silent
  /\ RadioLock /\ Wanted /\ MayOpen /\ StopStands

-----------------------------------------------------------------------------
(* Cancelling: what is left of a lock.                                     *)

\* A set of numbers has a least one; and so induction over the numbers of a set.
LEMMA Least ==
  ASSUME NEW S \in SUBSET Nat, S # {}
  PROVE  \E m \in S : \A n \in S : m <= n
<1> DEFINE R == OpToRel(<, Nat)
<1>1. IsWellFoundedOn(R, Nat)
  BY NatLessThanWellFounded
<1>2. \A a, b \in Nat : a < b => <<a, b>> \in R
  BY DEF OpToRel
<1> HIDE DEF R
<1>3. PICK m \in S : \A n \in S : ~(<<n, m>> \in R)
  BY <1>1, WFMin
<1>4. ASSUME NEW n \in S PROVE m <= n
  <2>1. m \in Nat /\ n \in Nat /\ ~(n < m)
    BY <1>2, <1>3
  <2>2. QED
    BY <2>1
<1>5. QED
  BY <1>4

LEMMA Induction ==
  ASSUME NEW S \in SUBSET Nat, 0 \in S, \A n \in S : n + 1 \in S
  PROVE  S = Nat
<1>1. SUFFICES ASSUME Nat \ S # {} PROVE FALSE
  OBVIOUS
<1>2. PICK m \in Nat \ S : \A n \in Nat \ S : m <= n
  BY <1>1, Least
<1>3. m - 1 \in Nat /\ m - 1 \in S
  BY <1>2
<1>4. QED
  BY <1>2, <1>3

\* What Without keeps of each prefix, up to the k-th task.
Keeping(tasks, ops, kept, k) ==
  kept = [n \in 0..k |-> IF n = 0 THEN <<>>
                         ELSE IF tasks[n].op \in ops THEN kept[n - 1]
                                                     ELSE Append(kept[n - 1], tasks[n])]

LEMMA KeepingExists ==
  ASSUME NEW tasks, NEW ops
  PROVE  \A k \in Nat : \E kept : Keeping(tasks, ops, kept, k)
<1> DEFINE S == {k \in Nat : \E kept : Keeping(tasks, ops, kept, k)}
<1>1. 0 \in S
  <2>1. Keeping(tasks, ops, [n \in 0..0 |-> <<>>], 0)
    BY DEF Keeping
  <2>2. QED
    BY <2>1
<1>2. ASSUME NEW k \in S PROVE k + 1 \in S
  <2>1. PICK kept : Keeping(tasks, ops, kept, k)
    OBVIOUS
  <2> DEFINE last == IF tasks[k+1].op \in ops THEN kept[k] ELSE Append(kept[k], tasks[k+1])
             next == [n \in 0..(k+1) |-> IF n = k+1 THEN last ELSE kept[n]]
  <2>2. ASSUME NEW n \in 0..(k+1)
        PROVE  next[n] = IF n = 0 THEN <<>>
                         ELSE IF tasks[n].op \in ops THEN next[n - 1]
                                                     ELSE Append(next[n - 1], tasks[n])
    <3>1. CASE n = 0
      BY <2>1, <3>1 DEF Keeping
    <3>2. CASE n = k + 1
      <4>1. n # 0 /\ n - 1 = k /\ k \in 0..(k+1) /\ k # k + 1
        BY <3>2
      <4>2. next[n - 1] = kept[k] /\ next[n] = last
        BY <4>1, <3>2
      <4> HIDE DEF next
      <4>3. QED
        BY <4>1, <4>2, <3>2
    <3>3. CASE n \in 1..k
      <4>1. /\ n - 1 \in 0..(k+1) /\ n # k + 1 /\ n - 1 # k + 1 /\ n # 0 /\ n \in 0..k
        BY <3>3
      <4>2. next[n] = kept[n] /\ next[n - 1] = kept[n - 1]
        BY <4>1
      <4> HIDE DEF next
      <4>3. QED
        BY <4>1, <4>2, <2>1 DEF Keeping
    <3>4. QED
      BY <3>1, <3>2, <3>3
  <2>3. Keeping(tasks, ops, next, k + 1)
    BY <2>2 DEF Keeping
  <2>4. QED
    BY <2>3
<1>3. QED
  <2>1. S \in SUBSET Nat
    OBVIOUS
  <2> HIDE DEF S
  <2>2. S = Nat
    BY <1>1, <1>2, <2>1, Induction
  <2>3. QED
    BY <2>2 DEF S

\* Of the first n tasks those of the other operations are kept, in their order.
Kept(rest, tasks, n, ops, places) ==
  /\ places \in [1..Len(rest) -> 1..n]
  /\ \A k \in 1..Len(rest) : rest[k] = tasks[places[k]] /\ rest[k].op \notin ops
  /\ \A i \in 1..n : tasks[i].op \notin ops => \E k \in 1..Len(rest) : places[k] = i
  /\ \A k, l \in 1..Len(rest) : k < l => places[k] < places[l]

LEMMA WithoutKeeps ==
  ASSUME NEW T, NEW tasks \in Seq(T), NEW ops
  PROVE  /\ Without(tasks, ops) \in Seq(T)
         /\ \E places : Kept(Without(tasks, ops), tasks, Len(tasks), ops, places)
<1> DEFINE kept == CHOOSE kept : Keeping(tasks, ops, kept, Len(tasks))
           Good(n) == kept[n] \in Seq(T) /\ \E places : Kept(kept[n], tasks, n, ops, places)
           S == {n \in Nat : n <= Len(tasks) => Good(n)}
<1>1. Keeping(tasks, ops, kept, Len(tasks))
  BY KeepingExists
<1>2. Without(tasks, ops) = kept[Len(tasks)]
  BY DEF Without, Keeping
<1> HIDE DEF kept
<1>3. kept[0] = <<>>
  BY <1>1 DEF Keeping
<1>4. 0 \in S
  <2>1. Kept(<<>>, tasks, 0, ops, [k \in {} |-> 0])
    BY DEF Kept
  <2>2. kept[0] \in Seq(T)
    BY <1>3
  <2>3. Good(0)
    BY <1>3, <2>1, <2>2
  <2>4. QED
    BY <2>3
<1>5. ASSUME NEW n \in S PROVE n + 1 \in S
  <2>1. SUFFICES ASSUME n + 1 <= Len(tasks) PROVE Good(n + 1)
    OBVIOUS
  <2>2. PICK places : Kept(kept[n], tasks, n, ops, places)
    BY <2>1
  <2>3. kept[n] \in Seq(T) /\ n + 1 \in 1..Len(tasks) /\ n \in Nat /\ tasks[n + 1] \in T
    BY <2>1
  <2>4. kept[n + 1] = IF tasks[n + 1].op \in ops THEN kept[n] ELSE Append(kept[n], tasks[n + 1])
    <3>1. n + 1 \in 0..Len(tasks) /\ n + 1 # 0 /\ (n + 1) - 1 = n
      BY <2>3
    <3>2. QED
      BY <1>1, <3>1 DEF Keeping
  <2>5. CASE tasks[n + 1].op \in ops
    <3>1. Kept(kept[n], tasks, n + 1, ops, places)
      <4>1. 1..n \subseteq 1..(n + 1) /\ \A i \in 1..(n + 1) : i \in 1..n \/ i = n + 1
        BY <2>3
      <4>2. QED
        BY <2>2, <2>5, <4>1 DEF Kept
    <3>2. QED
      BY <2>3, <2>4, <2>5, <3>1
  <2>6. CASE tasks[n + 1].op \notin ops
    <3> DEFINE rest == Append(kept[n], tasks[n + 1])
               more == [k \in 1..(Len(kept[n]) + 1) |->
                          IF k = Len(kept[n]) + 1 THEN n + 1 ELSE places[k]]
    <3>1. /\ rest \in Seq(T) /\ Len(rest) = Len(kept[n]) + 1 /\ Len(kept[n]) \in Nat
          /\ \A k \in 1..Len(kept[n]) : rest[k] = (kept[n])[k]
          /\ rest[Len(kept[n]) + 1] = tasks[n + 1]
      BY <2>3, AppendProperties, LenProperties
    <3> DEFINE last == Len(kept[n])
    <3>2. /\ more[last + 1] = n + 1 /\ \A k \in 1..last : more[k] = places[k]
          /\ DOMAIN more = 1..(last + 1)
      BY <3>1
    <3>3. \A k \in 1..(last + 1) : k \in 1..last \/ k = last + 1
      BY <3>1
    <3>4. \A k \in 1..last : places[k] \in 1..n
      BY <2>2 DEF Kept
    <3>5. more \in [1..Len(rest) -> 1..(n + 1)]
      BY <3>1, <3>2, <3>3, <3>4, <2>3
    <3>6. \A k \in 1..Len(rest) : rest[k] = tasks[more[k]] /\ rest[k].op \notin ops
      BY <2>2, <2>6, <3>1, <3>2, <3>3 DEF Kept
    <3>7. ASSUME NEW i \in 1..(n + 1), tasks[i].op \notin ops
          PROVE  \E k \in 1..Len(rest) : more[k] = i
      <4>1. CASE i = n + 1
        <5>1. last + 1 \in 1..Len(rest)
          BY <3>1
        <5>2. QED
          BY <4>1, <5>1, <3>2
      <4>2. CASE i \in 1..n
        <5>1. PICK k \in 1..last : places[k] = i
          BY <2>2, <3>7, <4>2 DEF Kept
        <5>2. k \in 1..Len(rest) /\ more[k] = i
          BY <5>1, <3>1, <3>2
        <5>3. QED
          BY <5>2
      <4>3. i \in 1..n \/ i = n + 1
        BY <2>3
      <4> HIDE DEF rest, more
      <4>4. QED
        BY <4>1, <4>2, <4>3
    <3>8. ASSUME NEW k \in 1..Len(rest), NEW l \in 1..Len(rest), k < l
          PROVE  more[k] < more[l]
      <4>1. k \in 1..last
        BY <3>1, <3>8
      <4>2. CASE l \in 1..last
        BY <2>2, <3>2, <3>8, <4>1, <4>2 DEF Kept
      <4>3. CASE l = last + 1
        <5>1. more[l] = n + 1 /\ more[k] = places[k] /\ places[k] \in 1..n
          BY <3>2, <3>4, <4>1, <4>3
        <5>2. QED
          BY <5>1, <2>3
      <4>4. QED
        BY <3>1, <3>3, <4>2, <4>3
    <3>9. Kept(rest, tasks, n + 1, ops, more)
      <4> HIDE DEF rest, more
      <4>1. QED
        BY <3>5, <3>6, <3>7, <3>8 DEF Kept
    <3>10. QED
      BY <2>4, <2>6, <3>1, <3>9
  <2>7. QED
    BY <2>5, <2>6
<1>6. S = Nat
  <2>1. S \in SUBSET Nat
    OBVIOUS
  <2> HIDE DEF S
  <2>2. QED
    BY <1>4, <1>5, <2>1, Induction
<1>7. Good(Len(tasks))
  <2>1. Len(tasks) \in Nat /\ Len(tasks) <= Len(tasks)
    OBVIOUS
  <2>2. QED
    BY <1>6, <2>1
<1>8. QED
  BY <1>2, <1>7

ComesFrom(rest, tasks, ops) ==
  \A k \in 1..Len(rest) : \E i \in 1..Len(tasks) : rest[k] = tasks[i] /\ rest[k].op \notin ops

\* Two places of what is left stand for two of what was there.
Apart(rest, tasks) ==
  \A k, l \in 1..Len(rest) :
    \E i, j \in 1..Len(tasks) : rest[k] = tasks[i] /\ rest[l] = tasks[j] /\ (i = j => k = l)

LEMMA WithoutProperties ==
  ASSUME NEW T, NEW tasks \in Seq(T), NEW ops, NEW rest, rest = Without(tasks, ops)
  PROVE  /\ rest \in Seq(T)
         /\ tasks = <<>> => rest = <<>>
         /\ tasks # <<>> /\ Head(tasks).op \notin ops => rest # <<>> /\ Head(rest) = Head(tasks)
         /\ ComesFrom(rest, tasks, ops)
         /\ \A i \in 1..Len(tasks) :
              tasks[i].op \notin ops => \E k \in 1..Len(rest) : rest[k] = tasks[i]
         /\ Apart(rest, tasks)
<1>1. rest \in Seq(T) /\ Len(rest) \in Nat /\ Len(tasks) \in Nat
  BY WithoutKeeps
<1>2. PICK places : Kept(rest, tasks, Len(tasks), ops, places)
  BY WithoutKeeps
<1>3. \A k \in 1..Len(rest) :
        \E i \in 1..Len(tasks) : rest[k] = tasks[i] /\ rest[k].op \notin ops
  BY <1>2 DEF Kept
<1>4. \A i \in 1..Len(tasks) :
        tasks[i].op \notin ops => \E k \in 1..Len(rest) : rest[k] = tasks[i]
  <2>1. SUFFICES ASSUME NEW i \in 1..Len(tasks), tasks[i].op \notin ops
                 PROVE  \E k \in 1..Len(rest) : rest[k] = tasks[i]
    OBVIOUS
  <2>2. PICK k \in 1..Len(rest) : places[k] = i
    BY <1>2, <2>1 DEF Kept
  <2>3. rest[k] = tasks[i]
    BY <1>2, <2>2 DEF Kept
  <2>4. QED
    BY <2>3
<1>5. ASSUME NEW k \in 1..Len(rest), NEW l \in 1..Len(rest)
      PROVE  \E i, j \in 1..Len(tasks) :
               rest[k] = tasks[i] /\ rest[l] = tasks[j] /\ (i = j => k = l)
  <2>1. /\ places[k] \in 1..Len(tasks) /\ places[l] \in 1..Len(tasks)
        /\ rest[k] = tasks[places[k]] /\ rest[l] = tasks[places[l]]
        /\ (k < l => places[k] < places[l]) /\ (l < k => places[l] < places[k])
    BY <1>2 DEF Kept
  <2>2. places[k] = places[l] => k = l
    BY <1>1, <2>1
  <2>3. QED
    BY <2>1, <2>2
<1>6. tasks = <<>> => rest = <<>>
  <2>1. SUFFICES ASSUME tasks = <<>>, rest # <<>> PROVE FALSE
    OBVIOUS
  <2>2. 1 \in 1..Len(rest) /\ Len(tasks) = 0
    BY <1>1, <2>1
  <2>3. QED
    BY <1>3, <2>2
<1>7. ASSUME tasks # <<>>, Head(tasks).op \notin ops
      PROVE  rest # <<>> /\ Head(rest) = Head(tasks)
  <2>1. 1 \in 1..Len(tasks) /\ Head(tasks) = tasks[1]
    BY <1>7
  <2>2. PICK k \in 1..Len(rest) : places[k] = 1
    BY <1>2, <1>7, <2>1 DEF Kept
  <2>3. 1 \in 1..Len(rest) /\ places[1] \in 1..Len(tasks) /\ (1 < k => places[1] < places[k])
    BY <1>1, <1>2, <2>2 DEF Kept
  <2>4. k = 1
    BY <1>1, <2>2, <2>3
  <2>5. rest[1] = tasks[1]
    BY <1>2, <2>2, <2>4 DEF Kept
  <2>6. QED
    BY <1>1, <2>1, <2>3, <2>5
<1>8. QED
  BY <1>1, <1>3, <1>4, <1>5, <1>6, <1>7 DEF ComesFrom, Apart

-----------------------------------------------------------------------------
(* The locks: tasks join at the end, leave from the head, go stale or are  *)
(* cancelled.                                                              *)

LEMMA NothingAwaited ==
  ASSUME NEW lock, NEW step, NEW other, step \notin Awaited, AwaitedIs(lock, step)
  PROVE  AwaitedIs(lock, other)
BY DEF AwaitedIs

LEMMA Joins ==
  ASSUME NEW lock \in Seq(RadioTasks), NEW task \in RadioTasks,
         NEW more, more = Append(lock, task)
  PROVE  /\ more \in Seq(RadioTasks) /\ more # <<>>
         /\ Head(more) = (IF lock = <<>> THEN task ELSE Head(lock))
         /\ lock \o <<task>> = more
         /\ \A wish : FreshIsWanted(lock, wish)
                      /\ (task.fresh /\ task.op \in {"media_play", "resume", "restart"} => wish)
                      => FreshIsWanted(more, wish)
         /\ \A step : AwaitedIs(lock, step) /\ task.op \notin Awaited => AwaitedIs(more, step)
         /\ \A step : AwaitedIs(lock, step) /\ step \notin Awaited => AwaitedIs(more, task.op)
         /\ HasStop(lock) \/ task.op = "media_stop" => HasStop(more)
<1> DEFINE n == Len(lock)
<1>1. /\ more \in Seq(RadioTasks) /\ more # <<>> /\ Len(more) = n + 1 /\ n \in Nat
      /\ \A i \in 1..n : more[i] = lock[i]
      /\ more[n + 1] = task
  BY AppendProperties, LenProperties
<1>2. Head(more) = (IF lock = <<>> THEN task ELSE Head(lock))
  BY HeadTailAppend
<1>3. lock \o <<task>> = more
  BY AppendIsConcat
<1> HIDE DEF n
<1>4. \A i \in 1..Len(more) : i \in 1..n \/ i = n + 1
  BY <1>1
<1>5. 1..n \subseteq 1..Len(more) /\ n + 1 \in 1..Len(more) /\ 1..n = 1..Len(lock)
  BY <1>1 DEF n
<1>6. ASSUME NEW wish, FreshIsWanted(lock, wish),
             task.fresh /\ task.op \in {"media_play", "resume", "restart"} => wish
      PROVE  FreshIsWanted(more, wish)
  BY <1>1, <1>4, <1>5, <1>6 DEF FreshIsWanted
<1>7. ASSUME NEW step, AwaitedIs(lock, step), task.op \notin Awaited
      PROVE  AwaitedIs(more, step)
  BY <1>1, <1>4, <1>5, <1>7 DEF AwaitedIs
<1>8. ASSUME NEW step, AwaitedIs(lock, step), step \notin Awaited
      PROVE  AwaitedIs(more, task.op)
  <2>1. \A i \in 1..n : lock[i].op \notin Awaited
    <3>1. ASSUME NEW i \in 1..n, lock[i].op \in Awaited PROVE FALSE
      <4>1. i \in 1..Len(lock)
        BY <1>5
      <4>2. lock[i].op = step
        BY <1>8, <3>1, <4>1 DEF AwaitedIs
      <4>3. QED
        BY <1>8, <3>1, <4>2
    <3>2. QED
      BY <3>1
  <2>2. QED
    BY <1>1, <1>4, <2>1 DEF AwaitedIs
<1>9. HasStop(lock) \/ task.op = "media_stop" => HasStop(more)
  BY <1>1, <1>5 DEF HasStop
<1>10. QED
  BY <1>1, <1>2, <1>3, <1>6, <1>7, <1>8, <1>9

LEMMA Leaves ==
  ASSUME NEW lock \in Seq(RadioTasks), lock # <<>>, NEW rest, rest = Tail(lock)
  PROVE  /\ rest \in Seq(RadioTasks)
         /\ \A wish : FreshIsWanted(lock, wish) => FreshIsWanted(rest, wish)
         /\ \A step : AwaitedIs(lock, step) => AwaitedIs(rest, step)
         /\ \A step, other : AwaitedIs(lock, step) /\ Head(lock).op \in Awaited
                            => AwaitedIs(rest, other)
         /\ HasStop(lock) /\ Head(lock).op # "media_stop" => HasStop(rest)
<1>1. /\ rest \in Seq(RadioTasks) /\ Len(rest) = Len(lock) - 1 /\ Len(rest) \in Nat
      /\ \A i \in 1..Len(rest) : rest[i] = lock[i + 1]
      /\ Head(lock) = lock[1] /\ 1 \in 1..Len(lock)
  OBVIOUS
<1>2. \A i \in 1..Len(rest) : i + 1 \in 1..Len(lock)
  BY <1>1
<1>3. ASSUME NEW wish, FreshIsWanted(lock, wish) PROVE FreshIsWanted(rest, wish)
  BY <1>1, <1>2, <1>3 DEF FreshIsWanted
<1>4. ASSUME NEW step, AwaitedIs(lock, step) PROVE AwaitedIs(rest, step)
  <2>1. ASSUME NEW i \in 1..Len(rest), NEW j \in 1..Len(rest),
               rest[i].op \in Awaited, rest[j].op \in Awaited
        PROVE  i = j
    <3>1. i + 1 = j + 1
      BY <1>1, <1>2, <1>4, <2>1 DEF AwaitedIs
    <3>2. QED
      BY <3>1
  <2>2. \A i \in 1..Len(rest) : rest[i].op \in Awaited => rest[i].op = step
    BY <1>1, <1>2, <1>4 DEF AwaitedIs
  <2>3. QED
    BY <2>1, <2>2 DEF AwaitedIs
<1>5. ASSUME NEW step, NEW other, AwaitedIs(lock, step), Head(lock).op \in Awaited
      PROVE  AwaitedIs(rest, other)
  <2>1. ASSUME NEW i \in 1..Len(rest), rest[i].op \in Awaited PROVE FALSE
    <3>1. i + 1 = 1
      BY <1>1, <1>2, <1>5, <2>1 DEF AwaitedIs
    <3>2. QED
      BY <3>1
  <2>2. QED
    BY <2>1 DEF AwaitedIs
<1>6. ASSUME HasStop(lock), Head(lock).op # "media_stop" PROVE HasStop(rest)
  <2>1. PICK i \in 1..Len(lock) : lock[i].op = "media_stop"
    BY <1>6 DEF HasStop
  <2>2. i - 1 \in 1..Len(rest) /\ (i - 1) + 1 = i
    BY <1>1, <1>6, <2>1
  <2>3. rest[i - 1] = lock[i]
    BY <1>1, <2>2
  <2>4. QED
    BY <2>1, <2>2, <2>3 DEF HasStop
<1>7. QED
  BY <1>1, <1>3, <1>4, <1>5, <1>6

\* A new generation: every task is as it was, but stale.
LEMMA GoesStale ==
  ASSUME NEW lock \in Seq(RadioTasks), NEW stale, stale = Stale(lock)
  PROVE  /\ stale \in Seq(RadioTasks) /\ Len(stale) = Len(lock)
         /\ (stale = <<>>) <=> (lock = <<>>)
         /\ lock # <<>> => Head(stale).op = Head(lock).op /\ ~Head(stale).fresh
         /\ \A wish : FreshIsWanted(stale, wish)
         /\ \A step : AwaitedIs(lock, step) => AwaitedIs(stale, step)
         /\ HasStop(lock) => HasStop(stale)
<1>1. /\ stale \in Seq(RadioTasks) /\ Len(stale) = Len(lock) /\ Len(lock) \in Nat
      /\ \A i \in 1..Len(lock) : stale[i].op = lock[i].op /\ ~stale[i].fresh
  <2>1. \A i \in 1..Len(lock) : lock[i] \in RadioTasks
    OBVIOUS
  <2>2. \A i \in 1..Len(lock) : /\ [lock[i] EXCEPT !.fresh = FALSE] \in RadioTasks
                                /\ [lock[i] EXCEPT !.fresh = FALSE].op = lock[i].op
                                /\ ~[lock[i] EXCEPT !.fresh = FALSE].fresh
    BY <2>1 DEF RadioTasks
  <2>3. /\ Len(lock) \in Nat /\ stale \in [1..Len(lock) -> RadioTasks]
        /\ \A i \in 1..Len(lock) : stale[i] = [lock[i] EXCEPT !.fresh = FALSE]
    BY <2>2 DEF Stale
  <2>4. stale \in Seq(RadioTasks) /\ Len(stale) = Len(lock)
    BY <2>3
  <2>5. QED
    BY <2>2, <2>3, <2>4
<1>2. lock # <<>> => 1 \in 1..Len(lock) /\ Head(lock) = lock[1] /\ Head(stale) = stale[1]
  BY <1>1
<1>3. (stale = <<>>) <=> (lock = <<>>)
  BY <1>1
<1>4. \A wish : FreshIsWanted(stale, wish)
  BY <1>1 DEF FreshIsWanted
<1>5. \A step : AwaitedIs(lock, step) => AwaitedIs(stale, step)
  BY <1>1 DEF AwaitedIs
<1>6. HasStop(lock) => HasStop(stale)
  BY <1>1 DEF HasStop
<1>7. QED
  BY <1>1, <1>2, <1>3, <1>4, <1>5, <1>6

\* Cancelled tasks have left, the others wait as before.
LEMMA Cancels ==
  ASSUME NEW lock \in Seq(RadioTasks), NEW ops, NEW rest, rest = Without(lock, ops)
  PROVE  /\ rest \in Seq(RadioTasks)
         /\ lock = <<>> => rest = <<>>
         /\ lock # <<>> /\ Head(lock).op \notin ops => rest # <<>> /\ Head(rest) = Head(lock)
         /\ \A wish : FreshIsWanted(lock, wish) => FreshIsWanted(rest, wish)
         /\ \A step : AwaitedIs(lock, step) => AwaitedIs(rest, step)
         /\ \A step, other : AwaitedIs(lock, step) /\ step \in ops => AwaitedIs(rest, other)
         /\ HasStop(lock) /\ "media_stop" \notin ops => HasStop(rest)
<1>1. /\ rest \in Seq(RadioTasks)
      /\ lock = <<>> => rest = <<>>
      /\ lock # <<>> /\ Head(lock).op \notin ops => rest # <<>> /\ Head(rest) = Head(lock)
  BY WithoutProperties
<1>2. ComesFrom(rest, lock, ops)
  BY WithoutProperties
<1>3. \A i \in 1..Len(lock) :
        lock[i].op \notin ops => \E k \in 1..Len(rest) : rest[k] = lock[i]
  BY WithoutProperties
<1>4. Apart(rest, lock)
  BY WithoutProperties
<1>5. ASSUME NEW wish, FreshIsWanted(lock, wish) PROVE FreshIsWanted(rest, wish)
  BY <1>2, <1>5 DEF FreshIsWanted, ComesFrom
<1>6. ASSUME NEW step, AwaitedIs(lock, step) PROVE AwaitedIs(rest, step)
  <2>1. \A k \in 1..Len(rest) : rest[k].op \in Awaited => rest[k].op = step
    BY <1>2, <1>6 DEF AwaitedIs, ComesFrom
  <2>2. ASSUME NEW k \in 1..Len(rest), NEW l \in 1..Len(rest),
               rest[k].op \in Awaited, rest[l].op \in Awaited
        PROVE  k = l
    <3>1. PICK i \in 1..Len(lock), j \in 1..Len(lock) :
              rest[k] = lock[i] /\ rest[l] = lock[j] /\ (i = j => k = l)
      BY <1>4 DEF Apart
    <3>2. QED
      BY <1>6, <2>2, <3>1 DEF AwaitedIs
  <2>3. QED
    BY <2>1, <2>2 DEF AwaitedIs
<1>7. ASSUME NEW step, NEW other, AwaitedIs(lock, step), step \in ops PROVE AwaitedIs(rest, other)
  <2>1. \A k \in 1..Len(rest) : rest[k].op \notin Awaited
    BY <1>2, <1>7 DEF AwaitedIs, ComesFrom
  <2>2. QED
    BY <2>1 DEF AwaitedIs
<1>8. HasStop(lock) /\ "media_stop" \notin ops => HasStop(rest)
  BY <1>3 DEF HasStop
<1>9. QED
  BY <1>1, <1>5, <1>6, <1>7, <1>8

\* A new generation with its recoveries cancelled and a task more, or none.
Preempted(lock, new) == Without(Stale(lock), {"restart"}) \o new

LEMMA Preempts ==
  ASSUME NEW lock \in Seq(RadioTasks), NEW new, new = <<>> \/ \E task \in RadioTasks : new = <<task>>,
         NEW next, next = Preempted(lock, new)
  PROVE  /\ next \in Seq(RadioTasks)
         /\ next = <<>> => lock = <<>> \/ Head(lock).op = "restart"
         /\ lock # <<>> /\ Head(lock).op # "restart" => ~Head(next).fresh
         /\ \A wish :
              (new # <<>> /\ Head(new).fresh /\ Head(new).op \in {"media_play", "resume", "restart"}
                 => wish)
              => FreshIsWanted(next, wish)
         /\ \A step : AwaitedIs(lock, step) /\ (new # <<>> => Head(new).op \notin Awaited)
                      => AwaitedIs(next, step)
         /\ \A step : AwaitedIs(lock, step) /\ step \notin Awaited /\ new # <<>>
                      => AwaitedIs(next, Head(new).op)
         /\ HasStop(lock) => HasStop(next)
         /\ new # <<>> /\ Head(new).op = "media_stop" => HasStop(next)
<1> DEFINE stale == Stale(lock)
           rest == Without(stale, {"restart"})
<1>1. /\ stale \in Seq(RadioTasks)
      /\ (stale = <<>>) <=> (lock = <<>>)
      /\ lock # <<>> => Head(stale).op = Head(lock).op /\ ~Head(stale).fresh
      /\ \A wish : FreshIsWanted(stale, wish)
      /\ \A step : AwaitedIs(lock, step) => AwaitedIs(stale, step)
      /\ HasStop(lock) => HasStop(stale)
  BY GoesStale
<1> HIDE DEF stale
<1>2. /\ rest \in Seq(RadioTasks)
      /\ stale # <<>> /\ Head(stale).op # "restart" => rest # <<>> /\ Head(rest) = Head(stale)
      /\ \A wish : FreshIsWanted(rest, wish)
      /\ \A step : AwaitedIs(stale, step) => AwaitedIs(rest, step)
      /\ HasStop(stale) => HasStop(rest)
  BY <1>1, Cancels
<1> HIDE DEF rest
<1>3. next = rest \o new
  BY DEF rest, stale, Preempted
<1>4. CASE new = <<>>
  <2>1. next = rest
    BY <1>2, <1>3, <1>4, ConcatEmptySeq
  <2>2. QED
    BY <1>1, <1>2, <1>4, <2>1
<1>5. ASSUME NEW task \in RadioTasks, new = <<task>>
      PROVE  /\ next \in Seq(RadioTasks)
             /\ next # <<>>
             /\ lock # <<>> /\ Head(lock).op # "restart" => ~Head(next).fresh
             /\ \A wish :
                  (Head(new).fresh /\ Head(new).op \in {"media_play", "resume", "restart"} => wish)
                  => FreshIsWanted(next, wish)
             /\ \A step : AwaitedIs(lock, step) /\ Head(new).op \notin Awaited
                          => AwaitedIs(next, step)
             /\ \A step : AwaitedIs(lock, step) /\ step \notin Awaited
                          => AwaitedIs(next, Head(new).op)
             /\ HasStop(lock) => HasStop(next)
             /\ Head(new).op = "media_stop" => HasStop(next)
  <2>1. Head(new) = task
    BY <1>5
  <2>2. Append(rest, task) = next
    BY <1>2, <1>3, <1>5, Joins
  <2>3. /\ next \in Seq(RadioTasks) /\ next # <<>>
        /\ Head(next) = (IF rest = <<>> THEN task ELSE Head(rest))
    BY <1>2, <2>2, Joins
  <2>4. \A wish : FreshIsWanted(rest, wish)
                  /\ (task.fresh /\ task.op \in {"media_play", "resume", "restart"} => wish)
                  => FreshIsWanted(next, wish)
    BY <1>2, <2>2, Joins
  <2>5. \A step : AwaitedIs(rest, step) /\ task.op \notin Awaited => AwaitedIs(next, step)
    BY <1>2, <2>2, Joins
  <2>6. \A step : AwaitedIs(rest, step) /\ step \notin Awaited => AwaitedIs(next, task.op)
    BY <1>2, <2>2, Joins
  <2>7. HasStop(rest) \/ task.op = "media_stop" => HasStop(next)
    BY <1>2, <2>2, Joins
  <2>8. lock # <<>> /\ Head(lock).op # "restart" => ~Head(next).fresh
    BY <1>1, <1>2, <2>3
  <2>9. QED
    BY <1>1, <1>2, <2>1, <2>3, <2>4, <2>5, <2>6, <2>7, <2>8
<1>6. QED
  BY <1>4, <1>5

-----------------------------------------------------------------------------
(* What a step may do with the device and its gain, and what of the        *)
(* invariant the two players keep for one another.                         *)

Speaks == [Contract!Next]_<<Output, level>>

\* The gain changes to that of who is heard or heard next, and the device is opened by who has
\* the gain.
UsesDevice ==
  /\ alsa' \in {"closed", "empty", "radio", "sound"}
  /\ playing' \in 0..MaxSounds
  /\ level' \in {level, Target}
  /\ level' = level \/ Output' = Output
  /\ alsa' = "radio" => alsa = "radio" \/ (alsa = "empty" /\ level = "media" /\ ~suspended)
  /\ alsa' = "sound" => \/ alsa = "sound" /\ playing' = playing /\ token' \in {token, 0}
                        \/ alsa = "closed" /\ level = "alert" /\ playing' # 0

LEMMA GainType ==
  ASSUME PriorityInv, level' \in {level, Target}
  PROVE  /\ level' \in {"media", "alert"}
         /\ override /\ level = "alert" => level' = "alert"
         /\ ~suspended /\ level = "media" => level' = "media"
BY DEF PriorityInv, HubTypes, Target, Priority

LEMMA KeepsContract ==
  ASSUME PriorityInv, UsesDevice
  PROVE  Speaks /\ HubTypes' /\ (alsa' = "sound" => playing' # 0)
<1>1. HubTypes' /\ (alsa' = "sound" => playing' # 0)
  BY GainType DEF UsesDevice, HubTypes, PriorityInv, Silent
<1> SUFFICES Speaks
  BY <1>1
<1>2. CASE level' # level
  <2>1. level' = Target /\ Output' = Output
    BY <1>2 DEF UsesDevice
  <2>2. Output = "media" => level' = "media"
    BY <2>1 DEF Output, Target, PriorityInv, Silent, HubTypes
  <2>3. Output = "alert" => level' = "alert"
    BY <2>1 DEF Output, Target, PriorityInv, Silent, HubTypes
  <2>4. level' \in {"media", "alert"}
    BY <1>1 DEF HubTypes
  <2>5. QED
    BY <2>1, <2>2, <2>3, <2>4 DEF Speaks, Contract!Next, Contract!SetGain
<1>3. CASE level' = level
  <2>1. CASE alsa' \in {"closed", "empty"}
    <3>1. Output' = "silent"
      BY <2>1 DEF Output
    <3>2. QED
      BY <1>3, <3>1 DEF Speaks, Contract!Next, Contract!Silenced
  <2>2. CASE alsa' = "radio"
    <3>1. Output' = "media"
      BY <2>2 DEF Output
    <3>2. CASE alsa = "radio"
      BY <1>3, <3>1, <3>2 DEF Speaks, Output
    <3>3. CASE alsa = "empty" /\ level = "media"
      <4>1. Output = "silent"
        BY <3>3 DEF Output
      <4>2. QED
        BY <1>3, <3>1, <3>3, <4>1 DEF Speaks, Contract!Next, Contract!MediaStarts
    <3>4. QED
      BY <2>2, <3>2, <3>3 DEF UsesDevice
  <2>3. CASE alsa' = "sound"
    <3>1. Output' \in {"alert", "stray"}
      BY <2>3 DEF Output
    <3>2. CASE alsa = "sound" /\ playing' = playing /\ token' \in {token, 0}
      <4>1. Output' = Output \/ (Output = "alert" /\ Output' = "stray")
        BY <2>3, <3>2 DEF Output, PriorityInv, Silent
      <4>2. QED
        BY <1>3, <4>1 DEF Speaks, Contract!Next, Contract!AlertAbandoned
    <3>3. CASE alsa = "closed" /\ level = "alert"
      <4>1. Output = "silent"
        BY <3>3 DEF Output
      <4>2. QED
        BY <1>3, <3>1, <3>3, <4>1 DEF Speaks, Contract!Next, Contract!AlertStarts
    <3>4. QED
      BY <2>3, <3>2, <3>3 DEF UsesDevice
  <2>4. QED
    BY <2>1, <2>2, <2>3 DEF UsesDevice
<1>4. QED
  BY <1>2, <1>3

soundSide == <<sound_lock, spc, token, old, watch, claim, retried, cancelled, override>>
radioSide == <<radio_lock, rpc, resolving, wfresh, ended, retry, orphans, radioState>>

\* A step of the radio alone.
LEMMA SoundFrame ==
  ASSUME PriorityInv, UsesDevice, UNCHANGED <<soundSide, suspended>>
  PROVE  SoundTypes' /\ Priority' /\ Silent'
<1>1. UNCHANGED <<sound_lock, spc, token, old, watch, interruption, resume_radio, temporary,
                   retried, cancelled, override, suspended>>
  BY DEF soundSide, claim
<1>2. SoundTypes' /\ Priority'
  BY <1>1 DEF PriorityInv, SoundTypes, Priority
<1>3. (Yields \/ override) => suspended /\ alsa # "radio"
  BY DEF PriorityInv, Yields, Priority, Silent
<1>4. Silent'
  <2>1. token' # 0 \/ spc' = "start" \/ (spc' = "cleanup" /\ retried' = "start")
        => override' /\ level' = "alert"
    BY <1>1, GainType DEF PriorityInv, Silent, UsesDevice
  <2>2. Yields' \/ override' => alsa' # "radio"
    <3>1. Yields' <=> Yields
      BY <1>1 DEF Yields
    <3>2. QED
      BY <1>1, <1>3, <3>1 DEF UsesDevice
  <2>3. PlaysAreNumbered(sound_lock)'
    BY <1>1 DEF PriorityInv, Silent, PlaysAreNumbered
  <2>4. QED
    BY <2>1, <2>2, <2>3, KeepsContract DEF Silent
<1>5. QED
  BY <1>2, <1>4

\* The tasks of the radio wait: a step of the sound, of the hub or of a watcher.
LEMMA RadioWaits ==
  ASSUME PriorityInv, UsesDevice, UNCHANGED <<radio_lock, rpc, wfresh, intent>>,
         resolving' \in {resolving, "none"}, orphans' \in Nat,
         expected' \in BOOLEAN, ended' \in BOOLEAN, retry' \in BOOLEAN,
         ffmpeg' \in {ffmpeg, FALSE}, wpc' \in Transports,
         wfresh /\ wpc' \in {"rebuild_start", "rebuild_connect"} => level' = "media",
         wpc' \in Transports \ {"none", "run"} => alsa' # "radio",
         suspended' \in BOOLEAN, suspended' => suspended,
         spc' = spc \/ spc \notin Awaited
  PROVE  RadioTypes' /\ RadioLock' /\ Wanted' /\ MayOpen' /\ StopStands'
<1>1. RadioTypes'
  <2>1. resolving' \in {"none", "play_media", "media_play"} /\ ffmpeg' \in BOOLEAN
    BY DEF PriorityInv, RadioTypes
  <2>2. QED
    BY <2>1 DEF PriorityInv, RadioTypes
<1>2. RadioLock'
  <2>1. AwaitedIs(radio_lock, spc')
    BY NothingAwaited DEF PriorityInv, RadioLock
  <2>2. QED
    BY <2>1 DEF PriorityInv, RadioLock
<1>3. Wanted' /\ StopStands'
  <2>1. Wanted'
    BY DEF PriorityInv, Wanted, FreshIsWanted
  <2>2. (~intent /\ ~HasStop(radio_lock))' => ~ffmpeg
    BY DEF PriorityInv, StopStands, HasStop
  <2>3. ffmpeg' = ffmpeg \/ ffmpeg' = FALSE
    OBVIOUS
  <2>4. StopStands'
    BY <2>2, <2>3 DEF StopStands
  <2>5. QED
    BY <2>1, <2>4
<1>4. MayOpen'
  <2>1. ~suspended => (level = "media" => level' = "media") /\ ~suspended'
    BY GainType DEF UsesDevice
  <2>2. Opens(radio_lock, rpc)' <=> Opens(radio_lock, rpc)
    BY DEF Opens
  <2>3. QED
    BY <2>1, <2>2 DEF PriorityInv, MayOpen
<1>5. QED
  BY <1>1, <1>2, <1>3, <1>4

\* A step of the sound alone.
LEMMA RadioFrame ==
  ASSUME PriorityInv, UsesDevice, UNCHANGED radioSide,
         suspended' \in BOOLEAN, suspended' => suspended,
         spc' = spc \/ spc \notin Awaited, alsa' = "radio" => alsa = "radio"
  PROVE  RadioTypes' /\ RadioLock' /\ Wanted' /\ MayOpen' /\ StopStands'
<1>1. UNCHANGED <<radio_lock, rpc, resolving, wfresh, ended, retry, orphans,
                   intent, expected, ffmpeg, wpc>>
  BY DEF radioSide, radioState
<1>2. /\ resolving' \in {resolving, "none"} /\ orphans' \in Nat /\ expected' \in BOOLEAN
      /\ ended' \in BOOLEAN /\ retry' \in BOOLEAN /\ ffmpeg' \in {ffmpeg, FALSE}
      /\ wpc' \in Transports
  BY <1>1 DEF PriorityInv, RadioTypes
<1>3. wfresh /\ wpc' \in {"rebuild_start", "rebuild_connect"} => level' = "media"
  BY <1>1, GainType DEF PriorityInv, MayOpen, UsesDevice
<1>4. wpc' \in Transports \ {"none", "run"} => alsa' # "radio"
  BY <1>1 DEF PriorityInv, MayOpen
<1>5. QED
  BY <1>1, <1>2, <1>3, <1>4, RadioWaits

\* A task joins the radio's lock.
LEMMA RadioJoins ==
  ASSUME PriorityInv, UsesDevice, NEW task \in RadioTasks,
         radio_lock' = Append(radio_lock, task), UNCHANGED <<rpc, wfresh, radioState, suspended>>,
         resolving' \in {resolving, "none"}, orphans' \in Nat, ended' \in BOOLEAN,
         retry' \in BOOLEAN, alsa' = "radio" => alsa = "radio",
         task.fresh /\ task.op \in {"media_play", "resume", "restart"} => intent,
         \/ task.op \notin Awaited /\ spc' = spc
         \/ spc \notin Awaited /\ spc' = task.op
  PROVE  RadioTypes' /\ RadioLock' /\ Wanted' /\ MayOpen' /\ StopStands'
<1>1. UNCHANGED <<rpc, wfresh, intent, expected, ffmpeg, wpc, suspended>>
  BY DEF radioState
<1>2. radio_lock \in Seq(RadioTasks)
  BY DEF PriorityInv, RadioTypes
<1>3. /\ radio_lock' \in Seq(RadioTasks) /\ radio_lock' # <<>>
      /\ Head(radio_lock') = (IF radio_lock = <<>> THEN task ELSE Head(radio_lock))
      /\ HasStop(radio_lock) => HasStop(radio_lock')
      /\ FreshIsWanted(radio_lock, intent) => FreshIsWanted(radio_lock', intent)
  BY <1>2, Joins
<1>4. AwaitedIs(radio_lock, spc) => AwaitedIs(radio_lock', spc')
  <2>1. CASE task.op \notin Awaited /\ spc' = spc
    BY <1>2, <2>1, Joins
  <2>2. CASE spc \notin Awaited /\ spc' = task.op
    BY <1>2, <2>2, Joins
  <2>3. QED
    BY <2>1, <2>2
<1>5. RadioTypes'
  <2>1. resolving' \in {"none", "play_media", "media_play"}
    BY DEF PriorityInv, RadioTypes
  <2>2. QED
    BY <1>1, <1>3, <2>1 DEF PriorityInv, RadioTypes
<1>6. RadioLock'
  BY <1>1, <1>3, <1>4 DEF PriorityInv, RadioLock
<1>7. Wanted' /\ StopStands'
  BY <1>1, <1>3 DEF PriorityInv, Wanted, StopStands
<1>8. MayOpen'
  <2>1. ~suspended /\ level = "media" => level' = "media"
    BY GainType DEF UsesDevice
  <2>2. Opens(radio_lock, rpc)' => Opens(radio_lock, rpc)
    BY <1>1, <1>3 DEF Opens, PriorityInv, RadioLock
  <2>3. QED
    BY <1>1, <2>1, <2>2 DEF PriorityInv, MayOpen
<1>9. QED
  BY <1>5, <1>6, <1>7, <1>8

LEMMA FaultBound ==
  ASSUME PriorityInv, UNCHANGED faults \/ \E kind : Fault(kind)
  PROVE  faults' \in Nat
BY DEF PriorityInv, BoundTypes, Fault

LEMMA BoundsKept ==
  ASSUME PriorityInv, UNCHANGED sounds, UNCHANGED acts \/ \E kind : Act(kind),
         UNCHANGED faults \/ \E kind : Fault(kind), accepted' \in BOOLEAN
  PROVE  BoundTypes'
<1>1. faults' \in Nat /\ acts' \in Nat
  BY FaultBound DEF PriorityInv, BoundTypes, Act
<1>2. QED
  BY <1>1 DEF PriorityInv, BoundTypes

\* What a step shows of the invariant after it, and of the contract.
Stands == PriorityInv' /\ Speaks

-----------------------------------------------------------------------------
(* The hub and the watcher of a transport.                                 *)

LEMMA HubKeeps ==
  ASSUME PriorityInv, Hub \/ ReceiverDies
  PROVE  Stands
<1>1. /\ UNCHANGED <<sound_lock, spc, token, old, watch, interruption, resume_radio, temporary,
                      retried, cancelled, override, suspended, level>>
      /\ UNCHANGED <<radio_lock, rpc, resolving, wfresh, ended, retry, intent, expected, ffmpeg,
                      wpc, sounds, acts, accepted>>
      /\ orphans' = orphans \/ (orphans > 0 /\ orphans' = orphans - 1)
      /\ UNCHANGED faults \/ Fault("receiver")
      /\ \/ alsa' = "closed" /\ playing' \in {playing, 0}
         \/ alsa' = Started /\ playing' = playing
  BY DEF Hub, SoundEnds, Drained, OrphanStarts, ReceiverDies, hubKept, player, claim, radioState
<1>2. UsesDevice
  BY <1>1, AudioConstants DEF UsesDevice, PriorityInv, HubTypes, Started
<1>3. SoundTypes' /\ Priority' /\ Silent'
  BY <1>1, <1>2, SoundFrame DEF soundSide, claim
<1>4. RadioTypes' /\ RadioLock' /\ Wanted' /\ MayOpen' /\ StopStands'
  <2>1. orphans' \in Nat /\ resolving' \in {resolving, "none"} /\ ffmpeg' \in {ffmpeg, FALSE}
    BY <1>1 DEF PriorityInv, RadioTypes
  <2>2. /\ expected' \in BOOLEAN /\ ended' \in BOOLEAN /\ retry' \in BOOLEAN /\ wpc' \in Transports
        /\ suspended' \in BOOLEAN /\ (suspended' => suspended) /\ spc' = spc
    BY <1>1 DEF PriorityInv, RadioTypes
  <2>3. wfresh /\ wpc' \in {"rebuild_start", "rebuild_connect"} => level' = "media"
    BY <1>1 DEF PriorityInv, MayOpen
  <2>4. wpc' \in Transports \ {"none", "run"} => alsa' # "radio"
    BY <1>1 DEF Started
  <2>5. QED
    BY <1>1, <1>2, <2>1, <2>2, <2>3, <2>4, RadioWaits
<1>5. BoundTypes'
  BY <1>1, BoundsKept DEF PriorityInv, BoundTypes
<1>6. QED
  BY <1>2, <1>3, <1>4, <1>5, KeepsContract DEF Stands, PriorityInv

\* A step of the radio while its tasks wait.
LEMMA WaitingRadio ==
  ASSUME PriorityInv, UsesDevice, UNCHANGED <<soundSide, suspended>>,
         UNCHANGED <<radio_lock, rpc, wfresh, intent, expected, sounds>>,
         resolving' \in {resolving, "none"}, orphans' = orphans,
         ended' \in BOOLEAN, retry' \in BOOLEAN, accepted' \in BOOLEAN,
         ffmpeg' \in {ffmpeg, FALSE}, wpc' \in Transports,
         wfresh /\ wpc' \in {"rebuild_start", "rebuild_connect"} => level' = "media",
         wpc' \in Transports \ {"none", "run"} => alsa' # "radio",
         UNCHANGED acts, UNCHANGED faults \/ \E kind : Fault(kind)
  PROVE  Stands
<1>1. SoundTypes' /\ Priority' /\ Silent'
  BY SoundFrame
<1>2. /\ orphans' \in Nat /\ expected' \in BOOLEAN /\ suspended' \in BOOLEAN
      /\ (suspended' => suspended) /\ spc' = spc
  BY DEF PriorityInv, RadioTypes, soundSide
<1>3. RadioTypes' /\ RadioLock' /\ Wanted' /\ MayOpen' /\ StopStands'
  BY <1>2, RadioWaits
<1>4. BoundTypes'
  BY BoundsKept
<1>5. QED
  BY <1>1, <1>3, <1>4, KeepsContract DEF Stands, PriorityInv

LEMMA WatcherKeeps ==
  ASSUME PriorityInv, Watcher \/ SourceFails
  PROVE  Stands
<1>1. /\ UNCHANGED <<sound_lock, spc, token, old, watch, interruption, resume_radio, temporary,
                      retried, cancelled, override, suspended, playing>>
      /\ UNCHANGED <<radio_lock, rpc, resolving, wfresh, retry, orphans, intent, expected,
                      sounds, acts, accepted>>
  BY DEF Watcher, RebuildReceiver, RebuildGain, RebuildStart, RebuildConnect, SourceFails,
         watchKept, soundKept, soundTask, claim
<1>2. UNCHANGED <<soundSide, suspended>>
  BY <1>1 DEF soundSide, claim
<1>3. /\ resolving' \in {resolving, "none"} /\ retry' \in BOOLEAN /\ accepted' \in BOOLEAN
      /\ wfresh \in BOOLEAN /\ expected \in BOOLEAN /\ ended \in BOOLEAN /\ ffmpeg \in BOOLEAN
  BY <1>1 DEF PriorityInv, RadioTypes, BoundTypes
<1>4. \A b \in BOOLEAN, c \in BOOLEAN : (b /\ ~c) \in BOOLEAN
  OBVIOUS
<1>5. (wfresh /\ ~expected) \in BOOLEAN
  BY <1>3, <1>4
<1>6. WatcherExits => ended' \in BOOLEAN /\ ffmpeg' \in {ffmpeg, FALSE} /\ wpc' = "none"
  BY <1>5 DEF WatcherExits
<1>7. \A step : WatcherAt(step) => ended' \in BOOLEAN /\ ffmpeg' \in {ffmpeg, FALSE} /\ wpc' = step
  BY <1>3 DEF WatcherAt
<1>8. CASE SourceFails
  <2>1. WatcherExits /\ UNCHANGED <<level, alsa>> /\ Fault("source")
    BY <1>8 DEF SourceFails
  <2>2. UsesDevice
    BY <1>1, <2>1 DEF UsesDevice, PriorityInv, HubTypes, Silent
  <2>3. QED
    BY <1>1, <1>2, <1>3, <1>6, <2>1, <2>2, WaitingRadio DEF Transports
<1>9. CASE RebuildReceiver
  <2>1. WatcherAt("rebuild_gain") /\ UNCHANGED <<level, alsa, faults>> /\ alsa # "radio"
    BY <1>9 DEF RebuildReceiver
  <2>2. UsesDevice
    BY <1>1, <2>1 DEF UsesDevice, PriorityInv, HubTypes, Silent
  <2>3. ended' \in BOOLEAN /\ ffmpeg' \in {ffmpeg, FALSE} /\ wpc' = "rebuild_gain"
    BY <1>7, <2>1
  <2>4. QED
    BY <1>1, <1>2, <1>3, <2>1, <2>2, <2>3, WaitingRadio DEF Transports
<1>10. CASE RebuildGain
  <2>1. /\ wpc = "rebuild_gain" /\ alsa' = alsa /\ level' \in {level, Target}
        /\ UNCHANGED faults \/ Fault("command")
        /\ WatcherExits \/ (level' = Target /\ ~suspended /\ WatcherAt("rebuild_start"))
    BY <1>10 DEF RebuildGain
  <2>2. Output' = Output
    BY <1>1, <2>1 DEF Output
  <2>3. UsesDevice
    BY <1>1, <2>1, <2>2 DEF UsesDevice, PriorityInv, HubTypes, Silent
  <2>4. ~suspended => Target = "media"
    BY DEF PriorityInv, Priority, Target
  <2>5. alsa' # "radio"
    BY <2>1 DEF PriorityInv, MayOpen, Transports
  <2>6. CASE WatcherExits
    BY <1>1, <1>2, <1>3, <1>6, <2>1, <2>3, <2>6, WaitingRadio DEF Transports
  <2>7. CASE level' = Target /\ ~suspended /\ WatcherAt("rebuild_start")
    BY <1>1, <1>2, <1>3, <1>7, <2>1, <2>3, <2>4, <2>5, <2>7, WaitingRadio DEF Transports
  <2>8. QED
    BY <2>1, <2>6, <2>7
<1>11. CASE RebuildStart
  <2>1. /\ wpc = "rebuild_start" /\ alsa' \in {alsa, Started} /\ level' = level
        /\ UNCHANGED faults \/ Fault("command")
        /\ WatcherExits \/ WatcherAt("rebuild_connect")
    BY <1>11 DEF RebuildStart
  <2>2. UsesDevice
    BY <1>1, <2>1 DEF UsesDevice, PriorityInv, HubTypes, Silent, Started
  <2>3. alsa' # "radio" /\ (wfresh => level = "media")
    BY <2>1 DEF PriorityInv, MayOpen, Transports, Started
  <2>4. CASE WatcherExits
    BY <1>1, <1>2, <1>3, <1>6, <2>1, <2>2, <2>4, WaitingRadio DEF Transports
  <2>5. CASE WatcherAt("rebuild_connect")
    BY <1>1, <1>2, <1>3, <1>7, <2>1, <2>2, <2>3, <2>5, WaitingRadio DEF Transports
  <2>6. QED
    BY <2>1, <2>4, <2>5
<1>12. CASE RebuildConnect
  <2>1. /\ wpc = "rebuild_connect" /\ level' = level /\ UNCHANGED faults
        /\ \/ wfresh /\ ~suspended /\ alsa = "empty" /\ alsa' = "radio" /\ WatcherAt("run")
           \/ alsa' = alsa /\ WatcherExits
    BY <1>12 DEF RebuildConnect
  <2>2. wfresh => level = "media"
    BY <2>1 DEF PriorityInv, MayOpen
  <2>3. UsesDevice
    BY <1>1, <2>1, <2>2 DEF UsesDevice, PriorityInv, HubTypes, Silent
  <2>4. CASE WatcherExits
    BY <1>1, <1>2, <1>3, <1>6, <2>1, <2>3, <2>4, WaitingRadio DEF Transports
  <2>5. CASE WatcherAt("run")
    <3>1. ended' \in BOOLEAN /\ ffmpeg' \in {ffmpeg, FALSE} /\ wpc' = "run"
      BY <1>7, <2>5
    <3>2. QED
      BY <1>1, <1>2, <1>3, <2>1, <2>3, <3>1, WaitingRadio DEF Transports
  <2>6. QED
    BY <2>1, <2>4, <2>5
<1>13. QED
  BY <1>8, <1>9, <1>10, <1>11, <1>12 DEF Watcher

LEMMA ReportsKeep ==
  ASSUME PriorityInv, WatcherReports \/ ResolveFails
  PROVE  Stands
<1>1. /\ UNCHANGED <<sound_lock, spc, token, old, watch, interruption, resume_radio, temporary,
                      retried, cancelled, override, suspended, playing, level, alsa>>
      /\ UNCHANGED <<radio_lock, rpc, wfresh, orphans, intent, expected, ffmpeg, wpc, sounds, acts>>
      /\ resolving' \in {resolving, "none"} /\ ended' \in {ended, FALSE}
      /\ accepted' \in {accepted, FALSE} /\ retry' \in {retry, retry \/ intent}
      /\ UNCHANGED faults \/ Fault("resolve")
  BY DEF WatcherReports, ResolveFails, watchKept, soundKept, soundTask, claim, radioState
<1>2. UNCHANGED <<soundSide, suspended>>
  BY <1>1 DEF soundSide, claim
<1>3. UsesDevice
  BY <1>1 DEF UsesDevice, PriorityInv, HubTypes, Silent
<1>4. retry' \in BOOLEAN
  <2>1. retry \in BOOLEAN /\ intent \in BOOLEAN
    BY DEF PriorityInv, RadioTypes
  <2>2. (retry \/ intent) \in BOOLEAN
    BY <2>1
  <2>3. QED
    BY <1>1, <2>1, <2>2
<1>5. ended' \in BOOLEAN /\ accepted' \in BOOLEAN /\ ffmpeg' \in {ffmpeg, FALSE}
  BY <1>1 DEF PriorityInv, RadioTypes, BoundTypes
<1>6. /\ wpc' \in Transports
      /\ (wfresh /\ wpc' \in {"rebuild_start", "rebuild_connect"} => level' = "media")
      /\ (wpc' \in Transports \ {"none", "run"} => alsa' # "radio")
  BY <1>1 DEF PriorityInv, RadioTypes, MayOpen
<1>7. QED
  BY <1>1, <1>2, <1>3, <1>4, <1>5, <1>6, WaitingRadio

-----------------------------------------------------------------------------
(* Users and timers of the radio.                                          *)

LEMMA TaskType ==
  ASSUME NEW op \in RadioOps
  PROVE  Task(op) \in RadioTasks /\ Task(op).op = op /\ Task(op).fresh
BY DEF Task, RadioTasks

LEMMA JoiningRadio ==
  ASSUME PriorityInv, Resolved \/ RetryFires
  PROVE  Stands
<1>1. /\ UNCHANGED <<sound_lock, spc, token, old, watch, interruption, resume_radio, temporary,
                      retried, cancelled, override, suspended, playing, level, alsa>>
      /\ UNCHANGED <<rpc, wfresh, ended, orphans, intent, expected, ffmpeg, wpc, sounds, acts,
                      faults, accepted>>
      /\ resolving' \in {resolving, "none"} /\ retry' \in {retry, FALSE}
  BY DEF Resolved, RetryFires, soundKept, soundTask, claim, radioState, bounds
<1>2. /\ radio_lock \in Seq(RadioTasks)
      /\ \/ radio_lock' = radio_lock \o <<>>
         \/ resolving # "none" /\ radio_lock' = radio_lock \o <<Task(resolving)>>
         \/ intent /\ radio_lock' = radio_lock \o <<Task("restart")>>
  BY DEF Resolved, RetryFires, PriorityInv, RadioTypes
<1>3. UNCHANGED <<soundSide, suspended>>
  BY <1>1 DEF soundSide, claim
<1>4. UsesDevice
  BY <1>1 DEF UsesDevice, PriorityInv, HubTypes, Silent
<1>5. SoundTypes' /\ Priority' /\ Silent'
  BY <1>3, <1>4, SoundFrame
<1>6. /\ orphans' \in Nat /\ expected' \in BOOLEAN /\ ended' \in BOOLEAN /\ retry' \in BOOLEAN
      /\ ffmpeg' \in {ffmpeg, FALSE} /\ wpc' \in Transports
      /\ suspended' \in BOOLEAN /\ (suspended' => suspended) /\ spc' = spc
  BY <1>1 DEF PriorityInv, RadioTypes
<1>7. /\ (wfresh /\ wpc' \in {"rebuild_start", "rebuild_connect"} => level' = "media")
      /\ (wpc' \in Transports \ {"none", "run"} => alsa' # "radio")
  BY <1>1 DEF PriorityInv, MayOpen
<1>8. UNCHANGED <<rpc, wfresh, radioState, suspended>>
  BY <1>1 DEF radioState
<1>9. RadioTypes' /\ RadioLock' /\ Wanted' /\ MayOpen' /\ StopStands'
  <2>1. CASE radio_lock' = radio_lock \o <<>>
    <3>1. radio_lock' = radio_lock
      BY <1>2, <2>1, ConcatEmptySeq
    <3>2. QED
      BY <1>1, <1>4, <1>6, <1>7, <3>1, RadioWaits
  <2>2. ASSUME NEW op \in {"play_media", "media_play", "restart"},
               radio_lock' = radio_lock \o <<Task(op)>>,
               op \in {"media_play", "restart"} => intent
        PROVE  RadioTypes' /\ RadioLock' /\ Wanted' /\ MayOpen' /\ StopStands'
    <3>1. Task(op) \in RadioTasks /\ Task(op).op = op
      BY TaskType DEF RadioOps
    <3>2. radio_lock' = Append(radio_lock, Task(op))
      BY <1>2, <2>2, <3>1, Joins
    <3>3. QED
      BY <1>1, <1>4, <1>6, <1>8, <2>2, <3>1, <3>2, RadioJoins DEF Awaited
  <2>3. resolving \in {"none", "play_media", "media_play"} /\ (resolving = "media_play" => intent)
    BY DEF PriorityInv, RadioTypes, Wanted
  <2>4. QED
    BY <1>2, <2>1, <2>2, <2>3
<1>10. BoundTypes'
  BY <1>1, BoundsKept DEF PriorityInv, BoundTypes
<1>11. QED
  BY <1>4, <1>5, <1>9, <1>10, KeepsContract DEF Stands, PriorityInv

\* A new generation: nothing that was under way may open the device.
LEMMA NothingOpens ==
  ASSUME PriorityInv, NEW new, new = <<>> \/ \E task \in RadioTasks : new = <<task>>, Preempt(new)
  PROVE  /\ radio_lock' \in Seq(RadioTasks) /\ rpc' \in RadioSteps /\ orphans' \in Nat
         /\ ended' = FALSE /\ retry' = FALSE /\ wfresh' = FALSE /\ level' \in {level, Target}
         /\ radio_lock' = <<>> => rpc' = "enter"
         /\ ~Opens(radio_lock', rpc')
         /\ HasStop(radio_lock) => HasStop(radio_lock')
<1>1. /\ radio_lock' = Preempted(radio_lock, new)
      /\ ended' = FALSE /\ retry' = FALSE /\ wfresh' = FALSE
      /\ rpc' = (IF RestartHolds THEN "enter" ELSE rpc) /\ level' \in {level, Target}
      /\ orphans' = orphans + (IF RestartHolds /\ rpc = "start" THEN 1 ELSE 0)
  BY DEF Preempt, NextGeneration, Preempted
<1>2. radio_lock \in Seq(RadioTasks) /\ rpc \in RadioSteps /\ orphans \in Nat
  BY DEF PriorityInv, RadioTypes
<1>3. /\ radio_lock' \in Seq(RadioTasks)
      /\ radio_lock' = <<>> => radio_lock = <<>> \/ Head(radio_lock).op = "restart"
      /\ radio_lock # <<>> /\ Head(radio_lock).op # "restart" => ~Head(radio_lock').fresh
      /\ HasStop(radio_lock) => HasStop(radio_lock')
  BY <1>1, <1>2, Preempts
<1>4. rpc' \in RadioSteps /\ orphans' \in Nat
  BY <1>1, <1>2 DEF RadioSteps
<1>5. radio_lock = <<>> => rpc = "enter"
  BY DEF PriorityInv, RadioLock
<1>6. radio_lock' = <<>> => rpc' = "enter"
  BY <1>1, <1>3, <1>5 DEF RestartHolds
<1>7. ~Opens(radio_lock', rpc')
  BY <1>1, <1>3, <1>5 DEF RestartHolds, Opens
<1>8. QED
  BY <1>1, <1>3, <1>4, <1>6, <1>7

LEMMA RequestsKeep ==
  ASSUME PriorityInv, MediaStop \/ (\E op \in {"play_media", "media_play"} : Play(op))
  PROVE  Stands
<1>1. /\ UNCHANGED <<sound_lock, spc, token, old, watch, interruption, resume_radio, temporary,
                      retried, cancelled, override, suspended, playing, alsa>>
      /\ UNCHANGED <<ffmpeg, wpc, sounds, faults>>
      /\ expected' \in {expected, TRUE} /\ accepted' \in {accepted, FALSE}
      /\ \E kind : Act(kind)
  BY DEF MediaStop, Play, soundKept, soundTask, claim
<1>2. PICK new : /\ new = <<>> \/ \E task \in RadioTasks : new = <<task>>
                 /\ new # <<>> => Head(new) = Task(Head(new).op)
                                  /\ Head(new).op \in {"play_media", "media_play", "media_stop"}
                 /\ Preempt(new)
                 /\ resolving' \in {"none", "play_media", "media_play"}
                 /\ \/ /\ new # <<>> /\ Head(new).op = "media_stop"
                       /\ intent' = FALSE /\ resolving' = "none"
                    \/ /\ intent' \in BOOLEAN /\ (intent => intent')
                       /\ resolving' = "media_play" => intent'
                       /\ new # <<>> /\ Head(new).op = "media_play" => intent'
                       /\ new # <<>> => Head(new).op # "media_stop"
  <2>1. CASE MediaStop
    <3>1. Task("media_stop") \in RadioTasks /\ Task("media_stop").op = "media_stop"
      BY TaskType DEF RadioOps
    <3>2. Head(<<Task("media_stop")>>) = Task("media_stop")
      OBVIOUS
    <3>3. Preempt(<<Task("media_stop")>>) /\ intent' = FALSE /\ resolving' = "none"
      BY <2>1 DEF MediaStop
    <3>4. QED
      BY <3>1, <3>2, <3>3
  <2>2. ASSUME NEW op \in {"play_media", "media_play"}, Play(op)
        PROVE  /\ intent' \in BOOLEAN /\ (intent => intent') /\ (op = "media_play" => intent')
               /\ \/ Preempt(<<Task(op)>>) /\ resolving' = "none"
                  \/ Preempt(<<>>) /\ resolving' = op
    <3>1. intent \in BOOLEAN
      BY DEF PriorityInv, RadioTypes
    <3>2. \/ Preempt(<<Task(op)>>) /\ resolving' = "none"
          \/ Preempt(<<>>) /\ resolving' = op
      BY <2>2 DEF Play
    <3>3. intent' = (intent \/ op = "media_play")
      BY <2>2 DEF Play
    <3>4. intent' \in BOOLEAN
      BY <3>1, <3>3
    <3>5. QED
      BY <3>2, <3>3, <3>4
  <2>3. CASE \E op \in {"play_media", "media_play"} : Play(op)
    <3>1. PICK op \in {"play_media", "media_play"} : Play(op)
      BY <2>3
    <3>2. /\ intent' \in BOOLEAN /\ (intent => intent') /\ (op = "media_play" => intent')
          /\ \/ Preempt(<<Task(op)>>) /\ resolving' = "none"
             \/ Preempt(<<>>) /\ resolving' = op
      BY <2>2, <3>1
    <3>3. Task(op) \in RadioTasks /\ Task(op).op = op
      BY <3>1, TaskType DEF RadioOps
    <3>4. Head(<<Task(op)>>) = Task(op) /\ <<Task(op)>> # <<>>
      OBVIOUS
    <3>5. QED
      BY <3>1, <3>2, <3>3, <3>4
  <2>4. QED
    BY <2>1, <2>3
<1>3. /\ radio_lock' \in Seq(RadioTasks) /\ rpc' \in RadioSteps /\ orphans' \in Nat
      /\ ended' = FALSE /\ retry' = FALSE /\ wfresh' = FALSE /\ level' \in {level, Target}
      /\ radio_lock' = <<>> => rpc' = "enter"
      /\ ~Opens(radio_lock', rpc')
      /\ HasStop(radio_lock) => HasStop(radio_lock')
  BY <1>2, NothingOpens
<1>4. Output' = Output
  BY <1>1 DEF Output
<1>5. UsesDevice
  BY <1>1, <1>3, <1>4 DEF UsesDevice, PriorityInv, HubTypes, Silent
<1>6. UNCHANGED <<soundSide, suspended>>
  BY <1>1 DEF soundSide, claim
<1>7. SoundTypes' /\ Priority' /\ Silent'
  BY <1>5, <1>6, SoundFrame
<1>8. RadioTypes'
  <2>1. expected' \in BOOLEAN /\ intent' \in BOOLEAN
    BY <1>1, <1>2 DEF PriorityInv, RadioTypes
  <2>2. QED
    BY <1>1, <1>2, <1>3, <2>1 DEF PriorityInv, RadioTypes
<1>9. radio_lock \in Seq(RadioTasks) /\ radio_lock' = Preempted(radio_lock, new)
  BY <1>2 DEF PriorityInv, RadioTypes, Preempt, NextGeneration, Preempted
<1>10. RadioLock'
  <2>1. AwaitedIs(radio_lock, spc)
    BY DEF PriorityInv, RadioLock
  <2>2. new # <<>> => Head(new).op \notin Awaited
    BY <1>2 DEF Awaited
  <2>3. AwaitedIs(radio_lock', spc)
    BY <1>2, <1>9, <2>1, <2>2, Preempts
  <2>4. QED
    BY <1>1, <1>3, <2>3 DEF RadioLock
<1>11. Wanted'
  <2>1. new # <<>> /\ Head(new).fresh /\ Head(new).op \in {"media_play", "resume", "restart"}
        => intent'
    BY <1>2
  <2>2. FreshIsWanted(radio_lock', intent')
    BY <1>2, <1>9, <2>1, Preempts
  <2>3. resolving' = "media_play" => intent'
    BY <1>2
  <2>4. QED
    BY <2>2, <2>3 DEF Wanted
<1>12. MayOpen'
  BY <1>1, <1>3 DEF PriorityInv, MayOpen
<1>13. StopStands'
  <2>1. new # <<>> /\ Head(new).op = "media_stop" => HasStop(radio_lock')
    BY <1>2, <1>9, Preempts
  <2>2. ~intent' /\ ~HasStop(radio_lock') => ~ffmpeg
    BY <1>2, <1>3, <2>1 DEF PriorityInv, StopStands
  <2>3. QED
    BY <1>1, <2>2 DEF StopStands
<1>14. BoundTypes'
  BY <1>1, BoundsKept DEF PriorityInv, BoundTypes
<1>15. QED
  BY <1>5, <1>7, <1>8, <1>10, <1>11, <1>12, <1>13, <1>14, KeepsContract DEF Stands, PriorityInv

-----------------------------------------------------------------------------
(* The starts.                                                             *)

\* The sound gives its priority back, or has given it back.
LEMMA SoundIdle ==
  ASSUME PriorityInv, sound_lock # <<>>, sound_lock' \in {sound_lock, Tail(sound_lock)},
         spc' \in {"enter", "restore", "resume"}, spc' # "enter" => sound_lock' = sound_lock,
         token' = 0, old' \in 0..MaxSounds, watch' \in {"none", "polling", "waiting"},
         interruption' = FALSE, temporary' = FALSE, override' = FALSE,
         resume_radio' \in BOOLEAN, cancelled' \in BOOLEAN, retried' \in {"no", "idle", "start"},
         alsa' = "sound" => playing' # 0
  PROVE  SoundTypes' /\ Priority' /\ Silent'
<1>1. sound_lock \in Seq(SoundTasks) /\ PlaysAreNumbered(sound_lock)
  BY DEF PriorityInv, SoundTypes, Silent
<1>2. sound_lock' \in Seq(SoundTasks)
  BY <1>1
<1>3. PlaysAreNumbered(sound_lock')
  <2>1. CASE sound_lock' = sound_lock
    BY <1>1, <2>1
  <2>2. CASE sound_lock' = Tail(sound_lock)
    <3>1. /\ Len(sound_lock') = Len(sound_lock) - 1 /\ Len(sound_lock) \in Nat
          /\ \A i \in 1..Len(sound_lock') : sound_lock'[i] = sound_lock[i + 1]
      BY <1>1, <2>2
    <3>2. \A i \in 1..Len(sound_lock') : i + 1 \in 1..Len(sound_lock)
      BY <3>1
    <3>3. QED
      BY <1>1, <3>1, <3>2 DEF PlaysAreNumbered
  <2>3. QED
    BY <2>1, <2>2
<1>4. SoundTypes'
  <2>1. spc' \in SoundSteps /\ token' \in 0..MaxSounds
    BY AudioConstants DEF SoundSteps, CallerAwaits
  <2>2. interruption' \in BOOLEAN /\ temporary' \in BOOLEAN /\ override' \in BOOLEAN
    OBVIOUS
  <2>3. QED
    BY <1>2, <2>1, <2>2 DEF SoundTypes
<1>5. Priority'
  BY DEF Priority
<1>6. Silent'
  <2>1. ~Yields'
    BY DEF Yields
  <2>2. QED
    BY <1>3, <2>1 DEF Silent
<1>7. QED
  BY <1>4, <1>5, <1>6

LEMMA StartEnds ==
  ASSUME PriorityInv, UsesDevice, radio_lock # <<>>, Head(radio_lock).op \in Starters,
         NEW raised \in BOOLEAN, EndStart(raised), UNCHANGED <<token, old, watch, override, suspended>>
  PROVE  /\ SoundTypes' /\ Priority' /\ Silent' /\ RadioLock'
         /\ radio_lock' \in Seq(RadioTasks) /\ FreshIsWanted(radio_lock', intent)
         /\ HasStop(radio_lock) => HasStop(radio_lock')
         /\ rpc' = "enter" /\ retry' \in BOOLEAN /\ accepted' \in BOOLEAN
<1>1. /\ radio_lock' = Tail(radio_lock) /\ rpc' = "enter"
      /\ Head(radio_lock).op = "resume" => LeaveSound /\ UNCHANGED claim
      /\ Head(radio_lock).op # "resume" => UNCHANGED soundTask
      /\ retry' = \/ retry
                  \/ Head(radio_lock).op = "resume" /\ raised
                  \/ Head(radio_lock).op = "restart" /\ Head(radio_lock).fresh /\ intent /\ ~ffmpeg'
      /\ accepted' = (accepted /\ ~(raised /\ Head(radio_lock).op \in {"play_media", "media_play"}))
  BY DEF EndStart
<1>2. /\ radio_lock \in Seq(RadioTasks) /\ Head(radio_lock) = radio_lock[1]
      /\ 1 \in 1..Len(radio_lock) /\ Head(radio_lock) \in RadioTasks
  BY DEF PriorityInv, RadioTypes
<1>3. AwaitedIs(radio_lock, spc) /\ FreshIsWanted(radio_lock, intent)
  BY DEF PriorityInv, RadioLock, Wanted
<1>4. retry' \in BOOLEAN
  BY <1>1, <1>2 DEF PriorityInv, RadioTypes
<1>5. accepted' \in BOOLEAN
  BY <1>1 DEF PriorityInv, BoundTypes
<1>6. /\ radio_lock' \in Seq(RadioTasks) /\ FreshIsWanted(radio_lock', intent)
      /\ HasStop(radio_lock) => HasStop(radio_lock')
  <2>1. Head(radio_lock).op # "media_stop"
    BY DEF Starters
  <2>2. QED
    BY <1>1, <1>2, <1>3, <2>1, Leaves
<1>7. CASE Head(radio_lock).op = "resume"
  <2>1. spc = "resume"
    BY <1>2, <1>3, <1>7 DEF AwaitedIs, Awaited
  <2>2. sound_lock # <<>> /\ ~temporary /\ ~interruption /\ ~override /\ token = 0
    BY <2>1 DEF PriorityInv, Priority
  <2>3. /\ sound_lock' = Tail(sound_lock) /\ spc' = "enter" /\ retried' = "no"
        /\ cancelled' = FALSE
        /\ UNCHANGED <<interruption, resume_radio, temporary, token, old, watch, override>>
    BY <1>1, <1>7 DEF LeaveSound, claim
  <2>4. /\ interruption' = FALSE /\ temporary' = FALSE /\ override' = FALSE /\ token' = 0
        /\ old' \in 0..MaxSounds /\ watch' \in {"none", "polling", "waiting"}
        /\ resume_radio' \in BOOLEAN /\ cancelled' \in BOOLEAN
        /\ retried' \in {"no", "idle", "start"}
    BY <2>2, <2>3 DEF PriorityInv, SoundTypes
  <2>5. SoundTypes' /\ Priority' /\ Silent'
    BY <2>2, <2>3, <2>4, KeepsContract, SoundIdle
  <2>6. AwaitedIs(radio_lock', spc')
    BY <1>1, <1>2, <1>3, <1>7, Leaves DEF Awaited
  <2>7. QED
    BY <1>1, <1>4, <1>5, <1>6, <2>5, <2>6 DEF RadioLock
<1>8. CASE Head(radio_lock).op # "resume"
  <2>1. UNCHANGED soundTask
    BY <1>1, <1>8
  <2>2. UNCHANGED <<soundSide, suspended>>
    BY <2>1 DEF soundSide, soundTask
  <2>3. SoundTypes' /\ Priority' /\ Silent'
    BY <2>2, SoundFrame
  <2>4. AwaitedIs(radio_lock', spc')
    <3>1. AwaitedIs(radio_lock', spc)
      BY <1>1, <1>2, <1>3, Leaves
    <3>2. QED
      BY <2>1, <3>1 DEF soundTask
  <2>5. QED
    BY <1>1, <1>4, <1>5, <1>6, <2>3, <2>4 DEF RadioLock
<1>9. QED
  BY <1>7, <1>8

\* The start goes on, under the conditions on which it may, or ends.
LEMMA StartStep ==
  ASSUME PriorityInv, UsesDevice, radio_lock # <<>>, Head(radio_lock).op \in Starters,
         (\E step \in RadioSteps : Proceed(step)) \/ EndStart(TRUE) \/ EndStart(FALSE),
         UNCHANGED <<token, old, watch, override, suspended, sounds, acts, resolving, ended,
                     intent, expected>>,
         ffmpeg' \in BOOLEAN, wpc' \in Transports, wfresh' \in BOOLEAN, orphans' \in Nat,
         UNCHANGED faults \/ \E kind : Fault(kind), ffmpeg' => ffmpeg \/ intent,
         Opens(radio_lock, rpc') => intent /\ ~suspended,
         Opens(radio_lock, rpc') /\ rpc' \in {"start", "connect"} => level' = "media",
         wfresh' => ~suspended,
         wfresh' /\ wpc' \in {"rebuild_start", "rebuild_connect"} => level' = "media",
         wpc' \in Transports \ {"none", "run"} => alsa' # "radio"
  PROVE  Stands
<1>1. /\ radio_lock \in Seq(RadioTasks) /\ AwaitedIs(radio_lock, spc)
      /\ FreshIsWanted(radio_lock, intent)
  BY DEF PriorityInv, RadioTypes, RadioLock, Wanted
<1>2. /\ SoundTypes' /\ Priority' /\ Silent' /\ RadioLock'
      /\ radio_lock' \in Seq(RadioTasks) /\ FreshIsWanted(radio_lock', intent)
      /\ HasStop(radio_lock) => HasStop(radio_lock')
      /\ rpc' \in RadioSteps /\ retry' \in BOOLEAN /\ accepted' \in BOOLEAN
      /\ rpc' = "enter" \/ radio_lock' = radio_lock
  <2>1. CASE \E step \in RadioSteps : Proceed(step)
    <3>1. UNCHANGED <<radio_lock, soundTask, retry, accepted>> /\ rpc' \in RadioSteps
      BY <2>1 DEF Proceed
    <3>2. UNCHANGED <<soundSide, suspended>>
      BY <3>1 DEF soundSide, soundTask
    <3>3. SoundTypes' /\ Priority' /\ Silent'
      BY <3>2, SoundFrame
    <3>4. spc' = spc
      BY <3>1 DEF soundTask
    <3>5. RadioLock'
      BY <1>1, <3>1, <3>4 DEF RadioLock
    <3>6. retry' \in BOOLEAN /\ accepted' \in BOOLEAN
      BY <3>1 DEF PriorityInv, RadioTypes, BoundTypes
    <3>7. QED
      BY <1>1, <3>1, <3>3, <3>5, <3>6
  <2>2. CASE EndStart(TRUE)
    BY <2>2, StartEnds DEF RadioSteps
  <2>3. CASE EndStart(FALSE)
    BY <2>3, StartEnds DEF RadioSteps
  <2>4. QED
    BY <2>1, <2>2, <2>3
<1>3. RadioTypes'
  BY <1>2 DEF PriorityInv, RadioTypes
<1>4. Wanted'
  BY <1>2 DEF PriorityInv, Wanted
<1>5. MayOpen'
  <2>1. Opens(radio_lock, rpc)' => Opens(radio_lock, rpc')
    BY <1>2 DEF Opens
  <2>2. QED
    BY <2>1 DEF MayOpen
<1>6. StopStands'
  BY <1>2 DEF PriorityInv, StopStands
<1>7. BoundTypes'
  BY <1>2, BoundsKept
<1>8. QED
  BY <1>2, <1>3, <1>4, <1>5, <1>6, <1>7, KeepsContract DEF Stands, PriorityInv

LEMMA StoppedDevice ==
  ASSUME PriorityInv, StopCommand, playing' = playing, token' = token, level' = level
  PROVE  UsesDevice /\ (alsa' = "radio" => alsa = "radio")
<1>1. alsa' \in {alsa, Stopped}
  BY DEF StopCommand
<1>2. QED
  BY <1>1 DEF UsesDevice, Stopped, PriorityInv, HubTypes, Silent

\* Tearing down the transport makes nothing heard at another gain: its watcher
\* sets the gain only while the receiver is silent.
LEMMA DetachedDevice ==
  ASSUME PriorityInv, alsa' \in {alsa, Stopped}, Detach, playing' = playing, token' = token
  PROVE  /\ UsesDevice /\ (alsa' = "radio" => alsa = "radio")
         /\ ffmpeg' = FALSE /\ wpc' = "none" /\ orphans' \in Nat
<1>1. /\ ffmpeg' = FALSE /\ wpc' = "none"
      /\ level' = (IF wpc = "rebuild_gain" THEN Target ELSE level)
      /\ orphans' = orphans + (IF wpc = "rebuild_start" THEN 1 ELSE 0)
  BY DEF Detach
<1>2. orphans' \in Nat
  BY <1>1 DEF PriorityInv, RadioTypes
<1>3. level' = level \/ Output' = Output
  <2>1. CASE wpc = "rebuild_gain"
    <3>1. alsa # "radio"
      BY <2>1 DEF PriorityInv, MayOpen, Transports
    <3>2. alsa' = alsa \/ (alsa = "empty" /\ alsa' = "closed")
      BY <3>1 DEF Stopped
    <3>3. QED
      BY <3>1, <3>2 DEF Output
  <2>2. CASE wpc # "rebuild_gain"
    BY <1>1, <2>2
  <2>3. QED
    BY <2>1, <2>2
<1>4. UsesDevice
  BY <1>1, <1>3 DEF UsesDevice, Stopped, PriorityInv, HubTypes, Silent
<1>5. alsa' = "radio" => alsa = "radio"
  BY DEF Stopped
<1>6. QED
  BY <1>1, <1>2, <1>4, <1>5

LEMMA FreshStart ==
  ASSUME PriorityInv, radio_lock # <<>>, Head(radio_lock).op \in Starters, Head(radio_lock).fresh,
         rpc # "enter"
  PROVE  intent /\ ~suspended /\ (rpc \in {"start", "connect"} => level = "media") /\ Current
BY DEF PriorityInv, MayOpen, Opens, Current

\* A fresh watcher is there for a radio that is not suspended, at the media gain.
LEMMA FreshWatcher ==
  ASSUME PriorityInv, level' \in {level, Target}
  PROVE  /\ wfresh => ~suspended
         /\ wfresh /\ wpc \in {"rebuild_start", "rebuild_connect"} => level' = "media"
         /\ ~suspended /\ level = "media" => level' = "media"
         /\ ~suspended => Target = "media"
<1>1. ~suspended => ~override
  BY DEF PriorityInv, Priority
<1>2. QED
  BY <1>1, GainType DEF PriorityInv, MayOpen, Target

LEMMA EnterStartKeeps ==
  ASSUME PriorityInv, EnterStart
  PROVE  Stands
<1>1. /\ UNCHANGED <<token, old, watch, override, suspended, playing, level, alsa>>
      /\ UNCHANGED <<sounds, acts, resolving, ended, wfresh, orphans, ffmpeg, wpc, faults>>
      /\ radio_lock # <<>> /\ Head(radio_lock).op \in Starters /\ rpc = "enter"
  BY DEF EnterStart, RadioHolder, startKept, soundKept
<1>2. UsesDevice
  BY <1>1 DEF UsesDevice, PriorityInv, HubTypes, Silent
<1>3. /\ ffmpeg' \in BOOLEAN /\ wpc' \in Transports /\ wfresh' \in BOOLEAN /\ orphans' \in Nat
      /\ (ffmpeg' => ffmpeg \/ intent) /\ (wfresh' => ~suspended)
      /\ (wfresh' /\ wpc' \in {"rebuild_start", "rebuild_connect"} => level' = "media")
      /\ (wpc' \in Transports \ {"none", "run"} => alsa' # "radio")
  BY <1>1 DEF PriorityInv, RadioTypes, MayOpen
<1>4. CASE EndStart(FALSE) /\ UNCHANGED <<intent, expected>>
  <2>1. rpc' = "enter"
    BY <1>4 DEF EndStart
  <2>2. ~Opens(radio_lock, rpc')
    BY <2>1 DEF Opens
  <2>3. QED
    BY <1>1, <1>2, <1>3, <1>4, <2>2, StartStep
<1>5. ASSUME Current, rpc' = "claim", expected' = FALSE,
             intent' = (intent \/ Head(radio_lock).op = "play_media"),
             accepted' = (accepted \/ Head(radio_lock).op \in {"play_media", "media_play"}),
             UNCHANGED <<radio_lock, soundTask, retry>>
      PROVE  Stands
  <2>1. UNCHANGED <<soundSide, suspended>> /\ spc' = spc
    BY <1>1, <1>5 DEF soundSide, soundTask
  <2>2. SoundTypes' /\ Priority' /\ Silent'
    BY <1>2, <2>1, SoundFrame
  <2>3. intent \in BOOLEAN /\ accepted \in BOOLEAN
    BY DEF PriorityInv, RadioTypes, BoundTypes
  <2>4. intent' \in BOOLEAN
    BY <1>5, <2>3
  <2>5. accepted' \in BOOLEAN
    BY <1>5, <2>3
  <2>6. intent => intent'
    BY <1>5
  <2>7. expected' \in BOOLEAN /\ rpc' \in RadioSteps
    BY <1>5 DEF RadioSteps
  <2>8. RadioTypes'
    BY <1>1, <1>5, <2>4, <2>7 DEF PriorityInv, RadioTypes
  <2>9. RadioLock'
    BY <1>1, <1>5, <2>1 DEF PriorityInv, RadioLock
  <2>10. FreshIsWanted(radio_lock, intent)
    BY DEF PriorityInv, Wanted
  <2>11. Wanted'
    <3>1. FreshIsWanted(radio_lock, intent')
      BY <2>6, <2>10 DEF FreshIsWanted
    <3>2. resolving = "media_play" => intent'
      BY <2>6 DEF PriorityInv, Wanted
    <3>3. QED
      BY <1>1, <1>5, <3>1, <3>2 DEF Wanted
  <2>12. intent'
    <3>1. /\ Head(radio_lock) = radio_lock[1] /\ 1 \in 1..Len(radio_lock)
          /\ Head(radio_lock).fresh
      BY <1>1, <1>5 DEF PriorityInv, RadioTypes, Current
    <3>2. Head(radio_lock).op \in {"media_play", "resume", "restart"} => intent
      BY <2>10, <3>1 DEF FreshIsWanted
    <3>3. QED
      BY <1>1, <1>5, <3>2 DEF Starters
  <2>13. MayOpen'
    BY <1>1, <1>3, <1>5, <2>12 DEF PriorityInv, MayOpen, Current
  <2>14. StopStands'
    BY <2>12 DEF StopStands
  <2>15. BoundTypes'
    BY <1>1, <2>5, BoundsKept
  <2>16. QED
    BY <1>2, <2>2, <2>8, <2>9, <2>11, <2>13, <2>14, <2>15, KeepsContract DEF Stands, PriorityInv
<1>6. QED
  BY <1>4, <1>5 DEF EnterStart

LEMMA StartsKeep ==
  ASSUME PriorityInv,
         \/ IndividualClaimed \/ PreStopped \/ MediaGain \/ ReceiverStarted \/ Connected
         \/ StaleCleaned
  PROVE  Stands
<1>1. /\ UNCHANGED <<token, old, watch, override, suspended, playing>>
      /\ UNCHANGED <<sounds, acts, resolving, ended, intent, expected>>
      /\ radio_lock # <<>> /\ Head(radio_lock).op \in Starters /\ rpc # "enter"
  BY DEF IndividualClaimed, PreStopped, MediaGain, ReceiverStarted, Connected, StaleCleaned,
         RadioHolder, startKept, soundKept, radioState
<1>2. Opens(radio_lock, rpc') => intent /\ ~suspended /\ Current
  BY <1>1, FreshStart DEF Opens
<1>3. Opens(radio_lock, rpc') /\ rpc \in {"start", "connect"} => level = "media"
  BY <1>1, FreshStart DEF Opens
<1>4. /\ ffmpeg \in BOOLEAN /\ wpc \in Transports /\ wfresh \in BOOLEAN /\ orphans \in Nat
      /\ (wfresh => ~suspended)
      /\ (wfresh /\ wpc \in {"rebuild_start", "rebuild_connect"} => level = "media")
      /\ (wpc \in Transports \ {"none", "run"} => alsa # "radio")
  BY DEF PriorityInv, RadioTypes, MayOpen
<1>5. \A step \in RadioSteps :
        ProceedIfCurrent(step)
        => (\E other \in RadioSteps : Proceed(other)) \/ EndStart(TRUE) \/ EndStart(FALSE)
  BY DEF ProceedIfCurrent
<1>6. CASE IndividualClaimed
  <2>1. /\ UNCHANGED <<wfresh, orphans, ffmpeg, wpc, level, alsa, faults>>
        /\ ProceedIfCurrent(IF ffmpeg THEN "prestop" ELSE "gain")
    BY <1>6 DEF IndividualClaimed, radioState
  <2>2. UsesDevice
    BY <1>1, <2>1 DEF UsesDevice, PriorityInv, HubTypes, Silent
  <2>3. rpc' \notin {"start", "connect"}
    BY <2>1 DEF ProceedIfCurrent, Proceed, EndStart
  <2>4. (\E step \in RadioSteps : Proceed(step)) \/ EndStart(TRUE) \/ EndStart(FALSE)
    BY <1>5, <2>1 DEF RadioSteps
  <2>5. QED
    BY <1>1, <1>2, <1>4, <2>1, <2>2, <2>3, <2>4, StartStep
<1>7. CASE PreStopped
  <2>1. StopCommand /\ Detach /\ ProceedIfCurrent("gain") /\ UNCHANGED wfresh
    BY <1>7 DEF PreStopped
  <2>2. alsa' \in {alsa, Stopped} /\ (UNCHANGED faults \/ \E kind : Fault(kind))
    BY <2>1 DEF StopCommand
  <2>3. UsesDevice /\ ffmpeg' = FALSE /\ wpc' = "none" /\ orphans' \in Nat
    BY <1>1, <2>1, <2>2, DetachedDevice
  <2>4. rpc' \notin {"start", "connect"}
    BY <2>1 DEF ProceedIfCurrent, Proceed, EndStart
  <2>5. (\E step \in RadioSteps : Proceed(step)) \/ EndStart(TRUE) \/ EndStart(FALSE)
    BY <1>5, <2>1 DEF RadioSteps
  <2>6. QED
    BY <1>1, <1>2, <1>4, <2>1, <2>2, <2>3, <2>4, <2>5, StartStep DEF Transports
<1>8. CASE MediaGain
  <2>1. /\ UNCHANGED <<wfresh, orphans, ffmpeg, wpc, alsa>> /\ level' \in {level, Target}
        /\ UNCHANGED faults \/ Fault("command")
        /\ EndStart(TRUE) \/ (level' = Target /\ ProceedIfCurrent("start"))
    BY <1>8 DEF MediaGain, radioState
  <2>2. Output' = Output
    BY <1>1, <2>1 DEF Output
  <2>3. UsesDevice
    BY <1>1, <2>1, <2>2 DEF UsesDevice, PriorityInv, HubTypes, Silent
  <2>4. Opens(radio_lock, rpc') /\ rpc' \in {"start", "connect"} => level' = "media"
    <3>1. CASE EndStart(TRUE)
      BY <3>1 DEF EndStart
    <3>2. CASE level' = Target /\ ProceedIfCurrent("start")
      BY <1>2, <2>1, <3>2, FreshWatcher
    <3>3. QED
      BY <2>1, <3>1, <3>2
  <2>5. (\E step \in RadioSteps : Proceed(step)) \/ EndStart(TRUE) \/ EndStart(FALSE)
    BY <1>5, <2>1 DEF RadioSteps
  <2>6. wfresh' /\ wpc' \in {"rebuild_start", "rebuild_connect"} => level' = "media"
    BY <2>1, FreshWatcher
  <2>7. QED
    BY <1>1, <1>2, <1>4, <2>1, <2>3, <2>4, <2>5, <2>6, StartStep
<1>9. CASE ReceiverStarted
  <2>1. /\ UNCHANGED <<wfresh, orphans, ffmpeg, wpc, level>> /\ alsa' \in {alsa, Started}
        /\ UNCHANGED faults \/ Fault("command")
        /\ EndStart(TRUE) \/ Proceed(IF Current THEN "connect" ELSE "clean")
        /\ rpc = "start"
    BY <1>9 DEF ReceiverStarted, RadioHolder, radioState
  <2>2. UsesDevice /\ (alsa' = "radio" => alsa = "radio")
    BY <1>1, <2>1 DEF UsesDevice, Started, PriorityInv, HubTypes, Silent
  <2>3. (\E step \in RadioSteps : Proceed(step)) \/ EndStart(TRUE) \/ EndStart(FALSE)
    BY <2>1 DEF RadioSteps
  <2>4. QED
    BY <1>1, <1>2, <1>3, <1>4, <2>1, <2>2, <2>3, StartStep
<1>10. CASE Connected
  <2>1. UNCHANGED <<orphans, level>> /\ rpc = "connect"
    BY <1>10 DEF Connected, RadioHolder
  <2>2. CASE /\ ~Current /\ Proceed("clean") /\ UNCHANGED <<wfresh, ffmpeg, wpc, alsa, faults>>
    <3>1. UsesDevice
      BY <1>1, <2>1, <2>2 DEF UsesDevice, PriorityInv, HubTypes, Silent
    <3>2. (\E step \in RadioSteps : Proceed(step)) \/ EndStart(TRUE) \/ EndStart(FALSE)
      BY <2>2 DEF RadioSteps
    <3>3. QED
      BY <1>1, <1>2, <1>3, <1>4, <2>1, <2>2, <3>1, <3>2, StartStep
  <2>3. CASE /\ Current /\ alsa = "empty" /\ alsa' = "radio" /\ ffmpeg' = TRUE
             /\ wpc' = "run" /\ wfresh' = TRUE /\ EndStart(FALSE) /\ UNCHANGED faults
    <3>1. intent /\ ~suspended /\ level = "media"
      BY <1>1, <2>1, <2>3, FreshStart DEF Current
    <3>2. UsesDevice
      BY <1>1, <2>1, <2>3, <3>1 DEF UsesDevice, PriorityInv, HubTypes, Silent
    <3>3. ffmpeg' \in BOOLEAN /\ wfresh' \in BOOLEAN
      BY <2>3
    <3>4. QED
      BY <1>1, <1>2, <1>3, <1>4, <2>1, <2>3, <3>1, <3>2, <3>3, StartStep DEF Transports
  <2>4. CASE /\ UNCHANGED faults \/ Fault("receiver")
             /\ alsa' = Stopped /\ UNCHANGED <<wfresh, ffmpeg, wpc>> /\ EndStart(TRUE)
    <3>1. UsesDevice /\ alsa' # "radio"
      BY <1>1, <2>1, <2>4 DEF UsesDevice, Stopped, PriorityInv, HubTypes, Silent
    <3>2. QED
      BY <1>1, <1>2, <1>3, <1>4, <2>1, <2>4, <3>1, StartStep
  <2>5. QED
    BY <1>10, <2>2, <2>3, <2>4 DEF Connected
<1>11. CASE StaleCleaned
  <2>1. UNCHANGED <<wfresh, orphans, ffmpeg, wpc, level>> /\ StopCommand /\ EndStart(FALSE)
    BY <1>11 DEF StaleCleaned, radioState
  <2>2. UsesDevice /\ (alsa' = "radio" => alsa = "radio")
    BY <1>1, <2>1, StoppedDevice
  <2>3. rpc' = "enter" /\ (UNCHANGED faults \/ \E kind : Fault(kind))
    BY <2>1 DEF EndStart, StopCommand
  <2>4. QED
    BY <1>1, <1>2, <1>4, <2>1, <2>2, <2>3, StartStep
<1>12. QED
  BY <1>6, <1>7, <1>8, <1>9, <1>10, <1>11

-----------------------------------------------------------------------------
(* The tasks that stop the transport.                                      *)

\* The radio has yielded: its device may be asked for.
LEMMA RadioYielded ==
  ASSUME PriorityInv, UsesDevice, radio_lock # <<>>, Head(radio_lock).op = "suspend", Yielded,
         UNCHANGED <<token, old, watch, override, suspended>>
  PROVE  SoundTypes' /\ Priority' /\ Silent' /\ AwaitedIs(radio_lock', spc')
<1>1. /\ radio_lock \in Seq(RadioTasks) /\ Head(radio_lock) = radio_lock[1]
      /\ 1 \in 1..Len(radio_lock) /\ Head(radio_lock) \in RadioTasks
      /\ AwaitedIs(radio_lock, spc)
  BY DEF PriorityInv, RadioTypes, RadioLock
<1>2. spc = "suspend"
  BY <1>1 DEF AwaitedIs, Awaited
<1>3. /\ radio_lock' = Tail(radio_lock) /\ spc' = "idle" /\ temporary' = TRUE
      /\ resume_radio' = Head(radio_lock).resume
      /\ UNCHANGED <<sound_lock, interruption, retried, cancelled>>
  BY DEF Yielded
<1>4. AwaitedIs(radio_lock', spc')
  BY <1>1, <1>3, Leaves DEF Awaited
<1>5. SoundTypes'
  <2>1. resume_radio' \in BOOLEAN
    BY <1>1, <1>3 DEF RadioTasks
  <2>2. temporary' \in BOOLEAN
    BY <1>3
  <2>3. spc' \in SoundSteps
    BY <1>3 DEF SoundSteps, CallerAwaits
  <2>4. QED
    BY <1>3, <2>1, <2>2, <2>3 DEF PriorityInv, SoundTypes
<1>6. interruption /\ suspended /\ token = 0 /\ sound_lock # <<>> /\ (override => temporary)
  BY <1>2 DEF PriorityInv, Priority
<1>7. Priority'
  BY <1>3, <1>6 DEF Priority
<1>8. Silent'
  <2>1. ~Yields'
    BY <1>3 DEF Yields
  <2>2. override' => alsa' # "radio"
    BY <1>6 DEF PriorityInv, Silent, UsesDevice
  <2>3. PlaysAreNumbered(sound_lock')
    BY <1>3 DEF PriorityInv, Silent
  <2>4. token' = 0 /\ spc' # "start" /\ spc' # "cleanup"
    BY <1>3, <1>6
  <2>5. QED
    BY <2>1, <2>2, <2>3, <2>4, KeepsContract DEF Silent
<1>9. QED
  BY <1>4, <1>5, <1>7, <1>8

\* A receiver was cleaned for the sound, which repeats the step that was refused.
LEMMA Cleaned ==
  ASSUME PriorityInv, UsesDevice, radio_lock # <<>>, Head(radio_lock).op = "cleanup",
         radio_lock' = Tail(radio_lock), spc' = retried,
         UNCHANGED <<sound_lock, claim, retried, cancelled, token, old, watch, override, suspended>>
  PROVE  SoundTypes' /\ Priority' /\ Silent' /\ AwaitedIs(radio_lock', spc')
<1>1. /\ radio_lock \in Seq(RadioTasks) /\ Head(radio_lock) = radio_lock[1]
      /\ 1 \in 1..Len(radio_lock) /\ AwaitedIs(radio_lock, spc)
  BY DEF PriorityInv, RadioTypes, RadioLock
<1>2. spc = "cleanup"
  BY <1>1 DEF AwaitedIs, Awaited
<1>3. AwaitedIs(radio_lock', spc')
  BY <1>1, Leaves DEF Awaited
<1>4. UNCHANGED <<interruption, resume_radio, temporary>>
  BY DEF claim
<1>5. spc' \in {"idle", "start"} /\ temporary /\ interruption /\ suspended /\ token = 0
      /\ sound_lock # <<>>
  BY <1>2 DEF PriorityInv, SoundTypes, Priority
<1>6. SoundTypes'
  BY <1>4, <1>5 DEF PriorityInv, SoundTypes, SoundSteps, CallerAwaits
<1>7. Priority'
  BY <1>4, <1>5 DEF PriorityInv, Priority
<1>8. Silent'
  <2>1. spc' = "start" => Yields /\ override /\ level = "alert"
    BY <1>2 DEF Yields, PriorityInv, Silent
  <2>2. level' \in {level, Target}
    BY DEF UsesDevice
  <2>3. spc' = "start" => override' /\ level' = "alert"
    BY <2>1, <2>2, GainType
  <2>4. Yields \/ override => alsa' # "radio"
    BY <1>5 DEF PriorityInv, Silent, UsesDevice
  <2>5. Yields' => Yields
    BY <1>5, <2>1 DEF Yields
  <2>6. token' = 0 /\ spc' # "cleanup" /\ PlaysAreNumbered(sound_lock')
    BY <1>5 DEF PriorityInv, Silent
  <2>7. QED
    BY <2>3, <2>4, <2>5, <2>6, KeepsContract DEF Silent
<1>9. QED
  BY <1>3, <1>6, <1>7, <1>8

LEMMA StopsKeep ==
  ASSUME PriorityInv, EnterMediaStop \/ EnterSuspend \/ TransportStopped
  PROVE  Stands
<1>1. /\ UNCHANGED <<token, old, watch, override, suspended, playing>>
      /\ UNCHANGED <<sounds, acts, resolving, ended, retry, wfresh, intent, expected, accepted>>
      /\ radio_lock # <<>> /\ Head(radio_lock).op \in {"media_stop", "suspend", "cleanup"}
  BY DEF EnterMediaStop, EnterSuspend, TransportStopped, RadioHolder, soundKept, radioState, bounds
<1>2. /\ radio_lock \in Seq(RadioTasks) /\ AwaitedIs(radio_lock, spc)
      /\ FreshIsWanted(radio_lock, intent)
      /\ (resolving = "media_play" => intent)
  BY DEF PriorityInv, RadioTypes, RadioLock, Wanted
<1>3. /\ UsesDevice /\ (alsa' = "radio" => alsa = "radio")
      /\ orphans' \in Nat /\ (UNCHANGED faults \/ \E kind : Fault(kind))
      /\ \/ UNCHANGED <<ffmpeg, wpc, level>>
         \/ ffmpeg' = FALSE /\ wpc' = "none"
  <2>1. CASE EnterMediaStop
    <3>1. UNCHANGED <<level, alsa, faults, orphans, ffmpeg, wpc>>
      BY <2>1 DEF EnterMediaStop, radioState, bounds
    <3>2. UsesDevice
      BY <1>1, <3>1 DEF UsesDevice, PriorityInv, HubTypes, Silent
    <3>3. orphans' \in Nat
      BY <3>1 DEF PriorityInv, RadioTypes
    <3>4. QED
      BY <3>1, <3>2, <3>3
  <2>2. CASE EnterSuspend
    <3>1. Detach /\ UNCHANGED <<alsa, faults>>
      BY <2>2 DEF EnterSuspend, bounds
    <3>2. QED
      BY <1>1, <3>1, DetachedDevice
  <2>3. CASE TransportStopped
    <3>1. Detach /\ alsa' \in {alsa, Stopped} /\ (UNCHANGED faults \/ \E kind : Fault(kind))
      BY <2>3 DEF TransportStopped, StopCommand
    <3>2. QED
      BY <1>1, <3>1, DetachedDevice
  <2>4. QED
    BY <2>1, <2>2, <2>3
<1>4. /\ SoundTypes' /\ Priority' /\ Silent' /\ AwaitedIs(radio_lock', spc')
      /\ rpc' \in {"enter", "stop"} /\ (rpc' = "stop" => radio_lock' = radio_lock)
      /\ radio_lock' = radio_lock \/ radio_lock' = Tail(radio_lock)
      /\ ffmpeg' => radio_lock' = radio_lock
  <2>1. CASE UNCHANGED <<radio_lock, soundTask>> /\ rpc' = "stop"
    <3>1. UNCHANGED <<soundSide, suspended>> /\ spc' = spc
      BY <1>1, <2>1 DEF soundSide, soundTask
    <3>2. SoundTypes' /\ Priority' /\ Silent'
      BY <1>3, <3>1, SoundFrame
    <3>3. QED
      BY <1>2, <2>1, <3>1, <3>2
  <2>2. CASE Yielded /\ Head(radio_lock).op = "suspend" /\ ffmpeg' = FALSE
    <3>1. SoundTypes' /\ Priority' /\ Silent' /\ AwaitedIs(radio_lock', spc')
      BY <1>1, <1>3, <2>2, RadioYielded
    <3>2. radio_lock' = Tail(radio_lock) /\ rpc' = "enter"
      BY <2>2 DEF Yielded
    <3>3. QED
      BY <2>2, <3>1, <3>2
  <2>3. CASE /\ Head(radio_lock).op = "media_stop" /\ radio_lock' = Tail(radio_lock)
             /\ rpc' = "enter" /\ UNCHANGED soundTask /\ ffmpeg' = FALSE
    <3>1. UNCHANGED <<soundSide, suspended>> /\ spc' = spc
      BY <1>1, <2>3 DEF soundSide, soundTask
    <3>2. SoundTypes' /\ Priority' /\ Silent'
      BY <1>3, <3>1, SoundFrame
    <3>3. AwaitedIs(radio_lock', spc)
      BY <1>1, <1>2, <2>3, Leaves
    <3>4. QED
      BY <2>3, <3>1, <3>2, <3>3
  <2>4. CASE /\ Head(radio_lock).op = "cleanup" /\ radio_lock' = Tail(radio_lock)
             /\ rpc' = "enter" /\ spc' = retried
             /\ UNCHANGED <<sound_lock, claim, retried, cancelled>> /\ ffmpeg' = FALSE
    <3>1. SoundTypes' /\ Priority' /\ Silent' /\ AwaitedIs(radio_lock', spc')
      BY <1>1, <1>3, <2>4, Cleaned
    <3>2. QED
      BY <2>4, <3>1
  <2>5. EnterMediaStop => UNCHANGED <<radio_lock, soundTask>> /\ rpc' = "stop"
    BY DEF EnterMediaStop
  <2>6. EnterSuspend => \/ UNCHANGED <<radio_lock, soundTask>> /\ rpc' = "stop"
                        \/ Yielded /\ Head(radio_lock).op = "suspend" /\ ffmpeg' = FALSE
    BY DEF EnterSuspend, RadioHolder, Detach
  <2>7. TransportStopped =>
          \/ Yielded /\ Head(radio_lock).op = "suspend" /\ ffmpeg' = FALSE
          \/ /\ Head(radio_lock).op = "media_stop" /\ radio_lock' = Tail(radio_lock)
             /\ rpc' = "enter" /\ UNCHANGED soundTask /\ ffmpeg' = FALSE
          \/ /\ Head(radio_lock).op = "cleanup" /\ radio_lock' = Tail(radio_lock)
             /\ rpc' = "enter" /\ spc' = retried
             /\ UNCHANGED <<sound_lock, claim, retried, cancelled>> /\ ffmpeg' = FALSE
    BY DEF TransportStopped, Detach
  <2>8. QED
    BY <2>1, <2>2, <2>3, <2>4, <2>5, <2>6, <2>7
<1>5. /\ radio_lock' \in Seq(RadioTasks) /\ FreshIsWanted(radio_lock', intent)
      /\ rpc' \in RadioSteps
  <2>1. Tail(radio_lock) \in Seq(RadioTasks) /\ FreshIsWanted(Tail(radio_lock), intent)
    BY <1>1, <1>2, Leaves
  <2>2. QED
    BY <1>2, <1>4, <2>1 DEF RadioSteps
<1>6. ffmpeg' \in BOOLEAN /\ wpc' \in Transports
  BY <1>3 DEF PriorityInv, RadioTypes, Transports
<1>7. RadioTypes'
  BY <1>1, <1>3, <1>5, <1>6 DEF PriorityInv, RadioTypes
<1>8. RadioLock'
  BY <1>1, <1>4 DEF RadioLock
<1>9. Wanted'
  BY <1>1, <1>2, <1>5 DEF Wanted
<1>10. MayOpen'
  <2>1. ~Opens(radio_lock', rpc')
    BY <1>1, <1>4 DEF Opens, Starters
  <2>2. wfresh => ~suspended
    BY DEF PriorityInv, MayOpen
  <2>3. QED
    BY <1>1, <1>3, <2>1, <2>2 DEF PriorityInv, MayOpen
<1>11. StopStands'
  <2>1. ffmpeg' => ffmpeg /\ radio_lock' = radio_lock
    BY <1>3, <1>4
  <2>2. QED
    BY <1>1, <2>1 DEF PriorityInv, StopStands
<1>12. BoundTypes'
  BY <1>1, <1>3, BoundsKept DEF PriorityInv, BoundTypes
<1>13. QED
  BY <1>3, <1>4, <1>7, <1>8, <1>9, <1>10, <1>11, <1>12, KeepsContract DEF Stands, PriorityInv

-----------------------------------------------------------------------------
(* The sound gives the radio its turn back.                                *)

\* The radio is asked to resume, or has nothing to resume.
LEMMA RadioResumes ==
  ASSUME PriorityInv, UsesDevice, NEW should, ResumeRadio(should), spc \notin Awaited,
         UNCHANGED radioState, alsa' = "radio" => alsa = "radio"
  PROVE  /\ RadioTypes' /\ RadioLock' /\ Wanted' /\ MayOpen' /\ StopStands'
         /\ sound_lock' \in {sound_lock, Tail(sound_lock)} /\ spc' \in {"enter", "resume"}
         /\ spc' # "enter" => sound_lock' = sound_lock
         /\ cancelled' \in {cancelled, FALSE} /\ retried' \in {retried, "no"}
<1>1. suspended' = FALSE /\ UNCHANGED <<intent, expected, ffmpeg, wpc>>
  BY DEF ResumeRadio, radioState
<1>2. CASE LeaveSound /\ UNCHANGED radioTasks
  <2>1. UNCHANGED radioSide
    BY <1>2 DEF radioSide, radioTasks
  <2>2. suspended' \in BOOLEAN /\ (suspended' => suspended)
    BY <1>1
  <2>3. RadioTypes' /\ RadioLock' /\ Wanted' /\ MayOpen' /\ StopStands'
    BY <2>1, <2>2, RadioFrame
  <2>4. QED
    BY <1>2, <2>3 DEF LeaveSound
<1>3. ASSUME intent, NextGeneration(Append(Stale(radio_lock), Task("resume"))),
             spc' = "resume", resolving' = "none",
             UNCHANGED <<sound_lock, rpc, orphans, retried, cancelled>>
      PROVE  /\ RadioTypes' /\ RadioLock' /\ Wanted' /\ MayOpen' /\ StopStands'
             /\ sound_lock' \in {sound_lock, Tail(sound_lock)} /\ spc' \in {"enter", "resume"}
             /\ spc' # "enter" => sound_lock' = sound_lock
             /\ cancelled' \in {cancelled, FALSE} /\ retried' \in {retried, "no"}
  <2> DEFINE stale == Stale(radio_lock)
  <2>1. /\ radio_lock' = Append(stale, Task("resume"))
        /\ ended' = FALSE /\ retry' = FALSE /\ wfresh' = FALSE
    BY <1>3 DEF NextGeneration
  <2>2. radio_lock \in Seq(RadioTasks)
    BY DEF PriorityInv, RadioTypes
  <2>3. Task("resume") \in RadioTasks /\ Task("resume").op = "resume"
    BY TaskType DEF RadioOps
  <2>4. /\ stale \in Seq(RadioTasks)
        /\ (stale = <<>>) <=> (radio_lock = <<>>)
        /\ radio_lock # <<>> => ~Head(stale).fresh
        /\ FreshIsWanted(stale, intent)
        /\ AwaitedIs(radio_lock, spc) => AwaitedIs(stale, spc)
    BY <2>2, GoesStale
  <2> HIDE DEF stale
  <2>5. /\ radio_lock' \in Seq(RadioTasks) /\ radio_lock' # <<>>
        /\ Head(radio_lock') = (IF stale = <<>> THEN Task("resume") ELSE Head(stale))
        /\ FreshIsWanted(radio_lock', intent)
    <3>1. /\ radio_lock' \in Seq(RadioTasks) /\ radio_lock' # <<>>
          /\ Head(radio_lock') = (IF stale = <<>> THEN Task("resume") ELSE Head(stale))
      BY <2>1, <2>3, <2>4, Joins
    <3>2. FreshIsWanted(radio_lock', intent)
      BY <1>3, <2>1, <2>3, <2>4, Joins
    <3>3. QED
      BY <3>1, <3>2
  <2>6. AwaitedIs(radio_lock', "resume")
    <3>1. AwaitedIs(stale, spc) /\ spc \notin Awaited
      BY <2>4 DEF PriorityInv, RadioLock
    <3>2. AwaitedIs(radio_lock', Task("resume").op)
      BY <2>1, <2>3, <2>4, <3>1, Joins
    <3>3. QED
      BY <2>3, <3>2
  <2>7. RadioTypes'
    <3>1. ended' \in BOOLEAN /\ retry' \in BOOLEAN /\ wfresh' \in BOOLEAN
      BY <2>1
    <3>2. suspended' \in BOOLEAN
      BY <1>1
    <3>3. QED
      BY <1>1, <1>3, <2>5, <3>1, <3>2 DEF PriorityInv, RadioTypes
  <2>8. RadioLock'
    BY <1>3, <2>5, <2>6 DEF RadioLock
  <2>9. Wanted' /\ StopStands'
    BY <1>1, <1>3, <2>5 DEF Wanted, StopStands
  <2>10. MayOpen'
    <3>1. ~Opens(radio_lock', rpc')
      <4>1. CASE radio_lock = <<>>
        BY <1>3, <4>1 DEF Opens, PriorityInv, RadioLock
      <4>2. CASE radio_lock # <<>>
        <5>1. ~Head(radio_lock').fresh
          BY <2>4, <2>5, <4>2
        <5>2. QED
          BY <5>1 DEF Opens
      <4>3. QED
        BY <4>1, <4>2
    <3>2. QED
      BY <1>1, <2>1, <3>1 DEF PriorityInv, MayOpen
  <2>11. QED
    BY <1>3, <2>7, <2>8, <2>9, <2>10
<1>4. QED
  BY <1>2, <1>3 DEF ResumeRadio

\* A step of the sound alone.
LEMMA SoundStep ==
  ASSUME PriorityInv, UsesDevice, SoundTypes', Priority', Silent', UNCHANGED radioSide,
         suspended' \in BOOLEAN, suspended' => suspended,
         spc' = spc \/ spc \notin Awaited, alsa' = "radio" => alsa = "radio",
         UNCHANGED <<sounds, acts, accepted>>, UNCHANGED faults \/ \E kind : Fault(kind)
  PROVE  Stands
<1>1. RadioTypes' /\ RadioLock' /\ Wanted' /\ MayOpen' /\ StopStands'
  BY RadioFrame
<1>2. BoundTypes'
  BY BoundsKept DEF PriorityInv, BoundTypes
<1>3. QED
  BY <1>1, <1>2, KeepsContract DEF Stands, PriorityInv

LEMMA FinishKeeps ==
  ASSUME PriorityInv, UsesDevice, FinishPriority, sound_lock # <<>>,
         spc \notin Awaited, spc # "restore", token' = 0,
         watch' \in {"none", "polling", "waiting"}, alsa' = "radio" => alsa = "radio",
         UNCHANGED <<radioState, sounds, acts, accepted>>,
         UNCHANGED faults \/ \E kind : Fault(kind)
  PROVE  Stands
<1>1. /\ old' = 0 /\ interruption' = FALSE /\ temporary' = FALSE
      /\ override' = (override /\ ~temporary)
  BY DEF FinishPriority
<1>2. override' = FALSE
  BY <1>1 DEF PriorityInv, Priority
<1>3. old' \in 0..MaxSounds
  BY <1>1, AudioConstants
<1>4. /\ resume_radio \in BOOLEAN /\ cancelled \in BOOLEAN /\ retried \in {"no", "idle", "start"}
      /\ suspended \in BOOLEAN
  BY DEF PriorityInv, SoundTypes, RadioTypes
<1>5. alsa' = "sound" => playing' # 0
  BY KeepsContract
<1>6. CASE UNCHANGED <<suspended, radioTasks, resume_radio>> /\ spc' \in {"enter", "restore"}
           /\ sound_lock' \in {sound_lock, Tail(sound_lock)}
           /\ (spc' # "enter" => sound_lock' = sound_lock)
           /\ cancelled' \in {cancelled, FALSE} /\ retried' \in {retried, "no"}
  <2>1. cancelled' \in BOOLEAN /\ resume_radio' \in BOOLEAN /\ retried' \in {"no", "idle", "start"}
    BY <1>4, <1>6
  <2>2. SoundTypes' /\ Priority' /\ Silent'
    BY <1>1, <1>2, <1>3, <1>5, <1>6, <2>1, SoundIdle
  <2>3. UNCHANGED radioSide
    BY <1>6 DEF radioSide, radioTasks
  <2>4. QED
    BY <1>4, <1>6, <2>2, <2>3, SoundStep
<1>7. CASE ResumeRadio(resume_radio) /\ resume_radio' = FALSE
  <2>1. /\ RadioTypes' /\ RadioLock' /\ Wanted' /\ MayOpen' /\ StopStands'
        /\ sound_lock' \in {sound_lock, Tail(sound_lock)} /\ spc' \in {"enter", "resume"}
        /\ spc' # "enter" => sound_lock' = sound_lock
        /\ cancelled' \in {cancelled, FALSE} /\ retried' \in {retried, "no"}
    BY <1>7, RadioResumes
  <2>2. cancelled' \in BOOLEAN /\ resume_radio' \in BOOLEAN /\ retried' \in {"no", "idle", "start"}
    BY <1>4, <1>7, <2>1
  <2>3. SoundTypes' /\ Priority' /\ Silent'
    BY <1>1, <1>2, <1>3, <1>5, <2>1, <2>2, SoundIdle
  <2>4. BoundTypes'
    BY BoundsKept DEF PriorityInv, BoundTypes
  <2>5. QED
    BY <2>1, <2>3, <2>4, KeepsContract DEF Stands, PriorityInv
<1>8. QED
  BY <1>6, <1>7 DEF FinishPriority, LeaveSound

LEMMA RestoreKeeps ==
  ASSUME PriorityInv, Restore
  PROVE  Stands
<1>1. /\ sound_lock # <<>> /\ spc = "restore" /\ level' \in {level, Target}
      /\ UNCHANGED faults \/ Fault("command")
      /\ ResumeRadio(resume_radio) /\ resume_radio' = FALSE
      /\ UNCHANGED <<token, old, watch, interruption, temporary, radioState, override, alsa,
                      playing, sounds, acts, accepted>>
  BY DEF Restore
<1>2. Output' = Output
  BY <1>1 DEF Output
<1>3. UsesDevice
  BY <1>1, <1>2 DEF UsesDevice, PriorityInv, HubTypes, Silent
<1>4. /\ interruption = FALSE /\ temporary = FALSE /\ override = FALSE /\ token = 0
  BY <1>1 DEF PriorityInv, SoundTypes, Priority
<1>5. /\ RadioTypes' /\ RadioLock' /\ Wanted' /\ MayOpen' /\ StopStands'
      /\ sound_lock' \in {sound_lock, Tail(sound_lock)} /\ spc' \in {"enter", "resume"}
      /\ spc' # "enter" => sound_lock' = sound_lock
      /\ cancelled' \in {cancelled, FALSE} /\ retried' \in {retried, "no"}
  BY <1>1, <1>3, RadioResumes DEF Awaited
<1>6. /\ cancelled' \in BOOLEAN /\ resume_radio' \in BOOLEAN
      /\ retried' \in {"no", "idle", "start"} /\ old' \in 0..MaxSounds
      /\ watch' \in {"none", "polling", "waiting"}
  BY <1>1, <1>5 DEF PriorityInv, SoundTypes
<1>7. SoundTypes' /\ Priority' /\ Silent'
  BY <1>1, <1>3, <1>4, <1>5, <1>6, KeepsContract, SoundIdle
<1>8. BoundTypes'
  BY <1>1, BoundsKept DEF PriorityInv, BoundTypes
<1>9. QED
  BY <1>3, <1>5, <1>7, <1>8, KeepsContract DEF Stands, PriorityInv

-----------------------------------------------------------------------------
(* The task of a sound.                                                    *)

\* A request joins the sound's lock.
LEMMA SoundJoins ==
  ASSUME PriorityInv, UsesDevice, NEW task \in SoundTasks, task.op = "play" => task.id # 0,
         sound_lock' = Append(sound_lock, task), watch' \in {"none", "polling", "waiting"},
         UNCHANGED <<spc, token, old, claim, retried, cancelled, override, suspended>>
  PROVE  SoundTypes' /\ Priority' /\ Silent'
<1>1. UNCHANGED <<spc, token, old, interruption, resume_radio, temporary, retried, cancelled,
                   override, suspended>>
  BY DEF claim
<1>2. sound_lock \in Seq(SoundTasks) /\ PlaysAreNumbered(sound_lock)
  BY DEF PriorityInv, SoundTypes, Silent
<1>3. /\ sound_lock' \in Seq(SoundTasks) /\ sound_lock' # <<>>
      /\ Len(sound_lock') = Len(sound_lock) + 1 /\ Len(sound_lock) \in Nat
      /\ \A i \in 1..Len(sound_lock) : sound_lock'[i] = sound_lock[i]
      /\ sound_lock'[Len(sound_lock) + 1] = task
  BY <1>2, AppendProperties, LenProperties
<1>4. PlaysAreNumbered(sound_lock')
  <2>1. \A i \in 1..Len(sound_lock') : i \in 1..Len(sound_lock) \/ i = Len(sound_lock) + 1
    BY <1>3
  <2>2. QED
    BY <1>2, <1>3, <2>1 DEF PlaysAreNumbered
<1>5. SoundTypes'
  BY <1>1, <1>3 DEF PriorityInv, SoundTypes
<1>6. Priority'
  BY <1>1, <1>3 DEF PriorityInv, Priority
<1>7. Silent'
  <2>1. token' # 0 \/ spc' = "start" \/ (spc' = "cleanup" /\ retried' = "start")
        => override' /\ level' = "alert"
    BY <1>1, GainType DEF PriorityInv, Silent, UsesDevice
  <2>2. Yields \/ override => suspended /\ alsa # "radio"
    BY DEF PriorityInv, Yields, Priority, Silent
  <2>3. Yields' <=> Yields
    BY <1>1 DEF Yields
  <2>4. Yields' \/ override' => alsa' # "radio"
    BY <1>1, <2>2, <2>3 DEF UsesDevice
  <2>5. QED
    BY <1>4, <2>1, <2>4, KeepsContract DEF Silent
<1>8. QED
  BY <1>5, <1>6, <1>7

LEMMA SoundRequestsKeep ==
  ASSUME PriorityInv, PlaySound \/ StopSound \/ WatchEnds
  PROVE  Stands
<1>1. /\ UNCHANGED <<spc, token, old, claim, retried, cancelled, override, suspended, level>>
      /\ UNCHANGED <<radioTasks, radioState, accepted>>
      /\ \/ alsa' = alsa /\ playing' = playing
         \/ alsa = "sound" /\ alsa' = "closed" /\ playing' = 0
      /\ UNCHANGED faults \/ Fault("status")
  BY DEF PlaySound, StopSound, WatchEnds, StopsOrNot, Abandon, Silence, player, hub
<1>2. sounds \in 0..MaxSounds /\ token \in 0..MaxSounds
  BY DEF PriorityInv, SoundTypes, BoundTypes
<1>3. PICK task \in SoundTasks : /\ task.op = "play" => task.id # 0
                                 /\ sound_lock' = Append(sound_lock, task)
  <2>1. CASE PlaySound
    <3>1. sounds > 0 /\ sound_lock' = Append(sound_lock, [op |-> "play", id |-> sounds])
      BY <2>1 DEF PlaySound, Request
    <3>2. [op |-> "play", id |-> sounds] \in SoundTasks /\ sounds # 0
      BY <1>2, <3>1 DEF SoundTasks
    <3>3. QED
      BY <3>1, <3>2
  <2>2. CASE StopSound
    <3>1. sound_lock' = Append(sound_lock, [op |-> "stop", id |-> sounds])
      BY <2>2 DEF StopSound, Request
    <3>2. [op |-> "stop", id |-> sounds] \in SoundTasks
      BY <1>2 DEF SoundTasks
    <3>3. QED
      BY <3>1, <3>2
  <2>3. CASE WatchEnds
    <3>1. sound_lock' = Append(sound_lock, [op |-> "finish", id |-> token])
      BY <2>3 DEF WatchEnds
    <3>2. [op |-> "finish", id |-> token] \in SoundTasks
      BY <1>2 DEF SoundTasks
    <3>3. QED
      BY <3>1, <3>2
  <2>4. QED
    BY <2>1, <2>2, <2>3
<1>4. watch' \in {"none", "polling", "waiting"}
  BY DEF PlaySound, StopSound, WatchEnds, player, PriorityInv, SoundTypes
<1>5. UsesDevice
  BY <1>1, AudioConstants DEF UsesDevice, PriorityInv, HubTypes, Silent
<1>6. SoundTypes' /\ Priority' /\ Silent'
  BY <1>1, <1>3, <1>4, <1>5, SoundJoins
<1>7. RadioTypes' /\ RadioLock' /\ Wanted' /\ MayOpen' /\ StopStands'
  <2>1. UNCHANGED radioSide /\ suspended' \in BOOLEAN /\ (suspended' => suspended)
    BY <1>1 DEF radioSide, radioTasks, PriorityInv, RadioTypes
  <2>2. spc' = spc /\ (alsa' = "radio" => alsa = "radio")
    BY <1>1
  <2>3. QED
    BY <1>5, <2>1, <2>2, RadioFrame
<1>8. BoundTypes'
  <2>1. \/ sounds' = sounds /\ (UNCHANGED acts \/ \E kind : Act(kind))
        \/ sounds > 0 /\ sounds' = sounds - 1 /\ UNCHANGED acts
    BY DEF PlaySound, StopSound, WatchEnds
  <2>2. sounds' \in 0..MaxSounds
    BY <1>2, <2>1, AudioConstants
  <2>3. faults' \in Nat /\ acts' \in Nat
    BY <1>1, <2>1, FaultBound DEF PriorityInv, BoundTypes, Act
  <2>4. QED
    BY <1>1, <2>2, <2>3 DEF PriorityInv, BoundTypes
<1>9. QED
  BY <1>5, <1>6, <1>7, <1>8, KeepsContract DEF Stands, PriorityInv

\* The token of the sound that is replaced or stopped is taken, with its watcher.
LEMMA TokenTaken ==
  ASSUME PriorityInv, UsesDevice, spc = "enter", sound_lock # <<>>,
         Head(sound_lock).op # "finish", TakeToken,
         UNCHANGED <<claim, retried, cancelled, override, suspended>>
  PROVE  SoundTypes' /\ Priority' /\ Silent'
<1>1. /\ token' = 0 /\ old' = token /\ watch' = "none" /\ spc' = "stop_old"
      /\ sound_lock' = Without(sound_lock, {"finish"})
      /\ UNCHANGED <<interruption, resume_radio, temporary, retried, cancelled, override, suspended>>
  BY DEF TakeToken, claim
<1>2. sound_lock \in Seq(SoundTasks) /\ PlaysAreNumbered(sound_lock)
  BY DEF PriorityInv, SoundTypes, Silent
<1>3. sound_lock' \in Seq(SoundTasks) /\ sound_lock' # <<>>
  BY <1>1, <1>2, WithoutProperties
<1>4. ComesFrom(sound_lock', sound_lock, {"finish"})
  BY <1>1, <1>2, WithoutProperties
<1>5. PlaysAreNumbered(sound_lock')
  BY <1>2, <1>4 DEF ComesFrom, PlaysAreNumbered
<1>6. SoundTypes'
  <2>1. spc' \in SoundSteps /\ token' \in 0..MaxSounds
    BY <1>1, AudioConstants DEF SoundSteps, CallerAwaits
  <2>2. QED
    BY <1>1, <1>3, <2>1 DEF PriorityInv, SoundTypes
<1>7. Priority'
  BY <1>1, <1>3 DEF PriorityInv, Priority
<1>8. Silent'
  <2>1. Yields \/ override => suspended /\ alsa # "radio"
    BY DEF PriorityInv, Yields, Priority, Silent
  <2>2. Yields' => Yields
    BY <1>1 DEF Yields
  <2>3. Yields' \/ override' => alsa' # "radio"
    BY <1>1, <2>1, <2>2 DEF UsesDevice
  <2>4. QED
    BY <1>1, <1>5, <2>3, KeepsContract DEF Silent
<1>9. QED
  BY <1>6, <1>7, <1>8

\* Priority is claimed, or was held through the replacement.
LEMMA PriorityBegins ==
  ASSUME PriorityInv, UsesDevice, spc \in {"enter", "stop_old"}, sound_lock # <<>>, token = 0,
         BeginPriority,
         UNCHANGED <<sound_lock, token, watch, resume_radio, retried, cancelled, override, suspended>>
  PROVE  SoundTypes' /\ Priority' /\ Silent'
<1>1. /\ interruption' = TRUE /\ old' = 0
      /\ \/ interruption /\ spc' = "idle" /\ temporary' = TRUE
         \/ ~interruption /\ spc' = "claim" /\ temporary' = temporary
  BY DEF BeginPriority
<1>2. /\ interruption => temporary /\ suspended
      /\ ~interruption => ~temporary /\ ~override
      /\ override => temporary /\ suspended /\ alsa # "radio"
  BY DEF PriorityInv, Priority, Silent
<1>3. SoundTypes'
  <2>1. spc' \in SoundSteps /\ old' \in 0..MaxSounds
    BY <1>1, AudioConstants DEF SoundSteps, CallerAwaits
  <2>2. interruption' \in BOOLEAN
    BY <1>1
  <2>3. temporary' \in BOOLEAN
    BY <1>1 DEF PriorityInv, SoundTypes
  <2>4. QED
    BY <2>1, <2>2, <2>3 DEF PriorityInv, SoundTypes
<1>4. Priority'
  BY <1>1, <1>2 DEF Priority
<1>5. Silent'
  <2>1. ~Yields'
    BY <1>1, <1>2 DEF Yields
  <2>2. override' => alsa' # "radio"
    BY <1>2 DEF UsesDevice
  <2>3. PlaysAreNumbered(sound_lock')
    BY DEF PriorityInv, Silent
  <2>4. QED
    BY <1>1, <2>1, <2>2, <2>3, KeepsContract DEF Silent
<1>6. QED
  BY <1>3, <1>4, <1>5

\* The first steps of a play, a stop and the end of a sound.
LEMMA EntriesKeep ==
  ASSUME PriorityInv, EnterPlay \/ EnterStop \/ EnterFinish \/ OldStopped \/ OldStopEnds
  PROVE  Stands
<1>1. /\ sound_lock # <<>> /\ spc \in {"enter", "stop_old"}
      /\ UNCHANGED <<radioState, level, sounds, acts, accepted>>
      /\ UNCHANGED faults \/ Fault("command")
      /\ \/ alsa' = alsa /\ playing' = playing
         \/ alsa = "sound" /\ alsa' = "closed" /\ playing' = 0
      /\ token' \in {token, 0}
  BY DEF EnterPlay, EnterStop, EnterFinish, OldStopped, OldStopEnds, SoundHolder, StopsOrNot,
         Abandon, Silence, TakeToken, hub, bounds
<1>2. UsesDevice /\ (alsa' = "radio" => alsa = "radio")
  BY <1>1, AudioConstants DEF UsesDevice, PriorityInv, HubTypes, Silent
<1>3. spc \notin Awaited /\ spc # "restore"
  BY <1>1 DEF Awaited
<1>4. watch \in {"none", "polling", "waiting"} /\ suspended \in BOOLEAN
      /\ (spc = "stop_old" => token = 0)
  BY DEF PriorityInv, SoundTypes, RadioTypes, Priority
<1>5. CASE FinishPriority /\ token' = 0 /\ watch' \in {"none", "polling", "waiting"}
  BY <1>1, <1>2, <1>3, <1>5, FinishKeeps
<1>6. CASE /\ TakeToken /\ UNCHANGED <<claim, retried, cancelled, override, suspended, radioTasks>>
           /\ spc = "enter" /\ Head(sound_lock).op # "finish"
  <2>1. SoundTypes' /\ Priority' /\ Silent'
    BY <1>1, <1>2, <1>6, TokenTaken
  <2>2. UNCHANGED radioSide
    BY <1>1, <1>6 DEF radioSide, radioTasks
  <2>3. QED
    BY <1>1, <1>2, <1>3, <1>4, <1>6, <2>1, <2>2, SoundStep
<1>7. CASE /\ BeginPriority /\ token = 0
           /\ UNCHANGED <<sound_lock, token, watch, resume_radio, retried, cancelled, override,
                           suspended, radioTasks>>
  <2>1. SoundTypes' /\ Priority' /\ Silent'
    BY <1>1, <1>2, <1>7, PriorityBegins
  <2>2. UNCHANGED radioSide
    BY <1>1, <1>7 DEF radioSide, radioTasks
  <2>3. QED
    BY <1>1, <1>2, <1>3, <1>4, <1>7, <2>1, <2>2, SoundStep
<1>8. CASE EnterPlay
  <2>1. /\ spc = "enter" /\ Head(sound_lock).op = "play"
        /\ UNCHANGED <<resume_radio, retried, cancelled, radioTasks, suspended, override>>
        /\ \/ TakeToken /\ UNCHANGED <<interruption, temporary>>
           \/ token = 0 /\ BeginPriority /\ UNCHANGED <<sound_lock, token, watch>>
    BY <1>8 DEF EnterPlay, SoundHolder
  <2>2. QED
    BY <1>6, <1>7, <2>1 DEF claim
<1>9. CASE EnterStop
  <2>1. /\ spc = "enter" /\ Head(sound_lock).op = "stop"
        /\ \/ TakeToken /\ UNCHANGED <<claim, retried, cancelled, radioTasks, suspended, override>>
           \/ token = 0 /\ FinishPriority /\ UNCHANGED <<token, watch>>
    BY <1>9 DEF EnterStop, SoundHolder
  <2>2. QED
    BY <1>4, <1>5, <1>6, <2>1
<1>10. CASE EnterFinish
  BY <1>5, <1>10 DEF EnterFinish
<1>11. CASE OldStopped
  <2>1. /\ spc = "stop_old" /\ BeginPriority
        /\ UNCHANGED <<sound_lock, token, watch, resume_radio, retried, cancelled, override,
                        suspended, radioTasks>>
    BY <1>11 DEF OldStopped, SoundHolder
  <2>2. QED
    BY <1>4, <1>7, <2>1
<1>12. CASE OldStopEnds
  BY <1>4, <1>5, <1>12 DEF OldStopEnds
<1>13. QED
  BY <1>8, <1>9, <1>10, <1>11, <1>12

\* A play or a stop that is given up, or a play whose sound is stopped at once.
LEMMA GivenUpKeeps ==
  ASSUME PriorityInv, NewStopped \/ PlayFails \/ CancelCall \/ CancelSettling
  PROVE  Stands
<1>1. /\ sound_lock # <<>> /\ (spc = "start" => Head(sound_lock).op = "play")
      /\ spc \in {"stop_old", "claim", "idle", "gain", "start", "stop_new"}
      /\ FinishPriority /\ UNCHANGED <<token, watch, radioState, sounds, acts, accepted>>
      /\ UNCHANGED faults \/ Fault("command")
      /\ level' = level \/ (level' = Target /\ UNCHANGED <<alsa, playing>>)
      /\ \/ alsa' = alsa /\ playing' = playing
         \/ alsa = "sound" /\ alsa' = "closed" /\ playing' = 0
         \/ spc = "start" /\ Sounding
  BY DEF NewStopped, PlayFails, CancelCall, CancelSettling, Cancelled, SoundHolder,
         StopsOrNot, Abandon, Silence, bounds
<1>2. level' = level \/ Output' = Output
  BY <1>1 DEF Output
<1>3. spc = "start" => level = "alert"
  BY DEF PriorityInv, Silent
<1>4. ASSUME spc = "start" PROVE Head(sound_lock).id \in 1..MaxSounds
  <2>1. /\ Head(sound_lock) = sound_lock[1] /\ 1 \in 1..Len(sound_lock)
        /\ Head(sound_lock) \in SoundTasks
    BY <1>1 DEF PriorityInv, SoundTypes
  <2>2. Head(sound_lock).id # 0
    BY <1>1, <1>4, <2>1 DEF PriorityInv, Silent, PlaysAreNumbered
  <2>3. Head(sound_lock).id \in 0..MaxSounds
    BY <2>1 DEF SoundTasks
  <2>4. QED
    BY <2>2, <2>3, AudioConstants
<1>5. UsesDevice /\ (alsa' = "radio" => alsa = "radio")
  BY <1>1, <1>2, <1>3, <1>4, AudioConstants DEF UsesDevice, PriorityInv, HubTypes, Silent, Sounding
<1>6. token' = 0 /\ watch' \in {"none", "polling", "waiting"}
  BY <1>1 DEF PriorityInv, SoundTypes, Priority
<1>7. spc \notin Awaited /\ spc # "restore"
  BY <1>1 DEF Awaited
<1>8. QED
  BY <1>1, <1>5, <1>6, <1>7, FinishKeeps

\* The sound takes the device: it is idle, has the alert's gain, and starts.
LEMMA TakesKeep ==
  ASSUME PriorityInv, DeviceIdle \/ GainApplied \/ SoundStarts \/ CancelStart \/ CancelledStart
  PROVE  Stands
<1>1. /\ sound_lock # <<>> /\ Head(sound_lock).op = "play" /\ spc # "enter"
      /\ UNCHANGED <<old, claim, radioTasks, radioState, suspended, bounds, accepted>>
  BY DEF DeviceIdle, GainApplied, SoundStarts, CancelStart, CancelledStart, SoundHolder, player,
         claim
<1>2. UNCHANGED <<interruption, resume_radio, temporary>> /\ UNCHANGED radioSide
  BY <1>1 DEF claim, radioSide, radioTasks
<1>3. UNCHANGED <<sounds, acts, faults, accepted>> /\ suspended' \in BOOLEAN
      /\ (suspended' => suspended)
  BY <1>1 DEF bounds, PriorityInv, RadioTypes
<1>4. sound_lock \in Seq(SoundTasks) /\ PlaysAreNumbered(sound_lock)
  BY DEF PriorityInv, SoundTypes, Silent
<1>5. CASE DeviceIdle
  <2>1. /\ spc = "idle" /\ spc' = "gain" /\ alsa = "closed" /\ override' = TRUE
        /\ UNCHANGED <<sound_lock, token, old, watch, retried, cancelled, level, alsa, playing>>
    BY <1>5 DEF DeviceIdle, SoundHolder, player, hub
  <2>2. UsesDevice
    BY <2>1 DEF UsesDevice, PriorityInv, HubTypes, Silent
  <2>3. temporary /\ interruption /\ suspended /\ token = 0
    BY <2>1 DEF PriorityInv, Priority
  <2>4. SoundTypes'
    <3>1. spc' \in SoundSteps
      BY <2>1 DEF SoundSteps, CallerAwaits
    <3>2. override' \in BOOLEAN
      BY <2>1
    <3>3. QED
      BY <1>2, <2>1, <3>1, <3>2 DEF PriorityInv, SoundTypes
  <2>5. Priority'
    BY <1>1, <1>2, <2>1, <2>3 DEF Priority
  <2>6. Silent'
    BY <1>4, <2>1, <2>2, <2>3, KeepsContract DEF Silent
  <2>7. QED
    BY <1>2, <1>3, <2>1, <2>2, <2>4, <2>5, <2>6, SoundStep DEF Awaited
<1>6. CASE GainApplied
  <2>1. /\ spc = "gain" /\ spc' = "start" /\ level' = Target
        /\ UNCHANGED <<sound_lock, token, old, watch, retried, cancelled, override, alsa, playing>>
    BY <1>6 DEF GainApplied, SoundHolder, player
  <2>2. override /\ temporary /\ interruption /\ suspended /\ token = 0 /\ alsa # "radio"
    BY <2>1 DEF PriorityInv, Priority, Silent
  <2>3. Output' = Output
    BY <2>1 DEF Output
  <2>4. UsesDevice
    BY <2>1, <2>3 DEF UsesDevice, PriorityInv, HubTypes, Silent
  <2>5. SoundTypes'
    <3>1. spc' \in SoundSteps
      BY <2>1 DEF SoundSteps, CallerAwaits
    <3>2. QED
      BY <1>2, <2>1, <3>1 DEF PriorityInv, SoundTypes
  <2>6. Priority'
    BY <1>1, <1>2, <2>1, <2>2 DEF Priority
  <2>7. Silent'
    BY <1>4, <2>1, <2>2, <2>4, KeepsContract DEF Silent, Target
  <2>8. QED
    BY <1>2, <1>3, <2>1, <2>4, <2>5, <2>6, <2>7, SoundStep DEF Awaited
<1>7. CASE SoundStarts
  <2>1. /\ spc = "start" /\ alsa = "closed" /\ Sounding /\ token' = Head(sound_lock).id
        /\ watch' = "polling" /\ LeaveSound /\ UNCHANGED <<override, level>>
    BY <1>7 DEF SoundStarts, SoundHolder, Sounding
  <2>2. Head(sound_lock).id \in 0..MaxSounds /\ Head(sound_lock).id # 0
    <3>1. /\ Head(sound_lock) = sound_lock[1] /\ 1 \in 1..Len(sound_lock)
          /\ Head(sound_lock) \in SoundTasks
      BY <1>1, <1>4
    <3>2. QED
      BY <1>1, <1>4, <3>1 DEF PlaysAreNumbered, SoundTasks
  <2>3. temporary /\ interruption /\ suspended /\ override /\ level = "alert"
    BY <2>1 DEF PriorityInv, Priority, Silent
  <2>4. UsesDevice
    BY <2>1, <2>2, <2>3 DEF UsesDevice, Sounding, PriorityInv, HubTypes
  <2>5. /\ sound_lock' = Tail(sound_lock) /\ spc' = "enter" /\ retried' = "no"
        /\ cancelled' = FALSE
    BY <2>1 DEF LeaveSound
  <2>6. sound_lock' \in Seq(SoundTasks) /\ PlaysAreNumbered(sound_lock')
    <3>1. /\ sound_lock' \in Seq(SoundTasks)
          /\ Len(sound_lock') = Len(sound_lock) - 1 /\ Len(sound_lock) \in Nat
          /\ \A i \in 1..Len(sound_lock') : sound_lock'[i] = sound_lock[i + 1]
      BY <1>1, <1>4, <2>5
    <3>2. \A i \in 1..Len(sound_lock') : i + 1 \in 1..Len(sound_lock)
      BY <3>1
    <3>3. QED
      BY <1>4, <3>1, <3>2 DEF PlaysAreNumbered
  <2>7. SoundTypes'
    <3>1. cancelled' \in BOOLEAN
      BY <2>5
    <3>2. spc' \in SoundSteps /\ token' \in 0..MaxSounds
      BY <2>1, <2>2, <2>5 DEF SoundSteps
    <3>3. QED
      BY <1>1, <1>2, <2>1, <2>5, <2>6, <3>1, <3>2 DEF PriorityInv, SoundTypes
  <2>8. Priority'
    BY <1>2, <1>3, <1>1, <2>1, <2>3, <2>5 DEF Priority
  <2>9. Silent'
    BY <2>1, <2>2, <2>3, <2>4, <2>6, KeepsContract DEF Silent, Sounding
  <2>10. alsa' # "radio"
    BY <2>1 DEF Sounding
  <2>11. QED
    BY <1>2, <1>3, <2>1, <2>4, <2>7, <2>8, <2>9, <2>10, SoundStep DEF Awaited
<1>8. CASE CancelStart
  <2>1. /\ cancelled' = TRUE
        /\ UNCHANGED <<sound_lock, spc, token, old, watch, retried, override, level, alsa, playing>>
    BY <1>8 DEF CancelStart, hub
  <2>2. UsesDevice
    BY <2>1 DEF UsesDevice, PriorityInv, HubTypes, Silent
  <2>3. SoundTypes'
    <3>1. cancelled' \in BOOLEAN
      BY <2>1
    <3>2. QED
      BY <1>2, <2>1, <3>1 DEF PriorityInv, SoundTypes
  <2>4. Priority'
    BY <1>1, <1>2, <2>1 DEF PriorityInv, Priority
  <2>5. Silent'
    BY <1>2, <2>1 DEF PriorityInv, Silent, Yields
  <2>6. QED
    BY <1>2, <1>3, <2>1, <2>2, <2>3, <2>4, <2>5, SoundStep
<1>9. CASE CancelledStart
  <2>1. /\ spc = "start" /\ spc' = "stop_new" /\ Sounding
        /\ UNCHANGED <<sound_lock, token, old, watch, retried, cancelled, override, level>>
    BY <1>9 DEF CancelledStart, SoundHolder, player
  <2>2. Head(sound_lock).id \in 0..MaxSounds /\ Head(sound_lock).id # 0
    <3>1. /\ Head(sound_lock) = sound_lock[1] /\ 1 \in 1..Len(sound_lock)
          /\ Head(sound_lock) \in SoundTasks
      BY <1>1, <1>4
    <3>2. QED
      BY <1>1, <1>4, <3>1 DEF PlaysAreNumbered, SoundTasks
  <2>3. temporary /\ interruption /\ suspended /\ override /\ level = "alert" /\ token = 0
    BY <2>1 DEF PriorityInv, Priority, Silent
  <2>4. UsesDevice
    BY <2>1, <2>2, <2>3 DEF UsesDevice, Sounding, PriorityInv, HubTypes
  <2>5. SoundTypes'
    <3>1. spc' \in SoundSteps
      BY <2>1 DEF SoundSteps, CallerAwaits
    <3>2. QED
      BY <1>1, <1>2, <2>1, <3>1 DEF PriorityInv, SoundTypes
  <2>6. Priority'
    BY <1>1, <1>2, <1>3, <2>1, <2>3 DEF Priority
  <2>7. Silent'
    BY <1>4, <2>1, <2>3, <2>4, KeepsContract DEF Silent, Sounding
  <2>8. spc \notin Awaited /\ alsa' # "radio"
    BY <2>1 DEF Awaited, Sounding
  <2>9. QED
    BY <1>2, <1>3, <2>4, <2>5, <2>6, <2>7, <2>8, SoundStep
<1>10. QED
  BY <1>5, <1>6, <1>7, <1>8, <1>9

LEMMA BusyKeeps ==
  ASSUME PriorityInv, Busy
  PROVE  Stands
<1>1. /\ sound_lock # <<>> /\ spc \in {"idle", "start"}
      /\ UNCHANGED <<token, watch, radioState, level, alsa, playing, sounds, acts, faults, accepted>>
  BY DEF Busy, SoundHolder, hub, bounds
<1>2. UsesDevice
  BY <1>1 DEF UsesDevice, PriorityInv, HubTypes, Silent
<1>3. temporary /\ interruption /\ suspended /\ token = 0
      /\ (spc = "start" => override /\ level = "alert" /\ alsa # "radio")
      /\ (override => alsa # "radio")
  BY <1>1 DEF PriorityInv, Priority, Silent, Yields
<1>4. CASE FinishPriority
  <2>1. token' = 0 /\ watch' \in {"none", "polling", "waiting"}
    BY <1>1, <1>3 DEF PriorityInv, SoundTypes
  <2>2. QED
    BY <1>1, <1>2, <1>4, <2>1, FinishKeeps DEF Awaited
<1>5. ASSUME retried' = spc, spc' = "cleanup", radio_lock' = Append(radio_lock, Task("cleanup")),
             UNCHANGED <<sound_lock, claim, old, cancelled, rpc, resolving, wfresh, ended, retry,
                         orphans, suspended, override>>
      PROVE  Stands
  <2>1. UNCHANGED <<interruption, resume_radio, temporary>>
    BY <1>5 DEF claim
  <2>2. SoundTypes'
    <3>1. spc' \in SoundSteps /\ retried' \in {"no", "idle", "start"}
      BY <1>1, <1>5 DEF SoundSteps, CallerAwaits
    <3>2. QED
      BY <1>1, <1>5, <2>1, <3>1 DEF PriorityInv, SoundTypes
  <2>3. Priority'
    BY <1>1, <1>3, <1>5, <2>1 DEF Priority, PriorityInv
  <2>4. Silent'
    <3>1. Yields' => spc = "start"
      BY <1>5 DEF Yields
    <3>2. QED
      BY <1>1, <1>2, <1>3, <1>5, <3>1, KeepsContract DEF Silent, PriorityInv
  <2>5. Task("cleanup") \in RadioTasks /\ Task("cleanup").op = "cleanup"
    BY TaskType DEF RadioOps
  <2>6. /\ resolving' \in {resolving, "none"} /\ orphans' \in Nat /\ ended' \in BOOLEAN
        /\ retry' \in BOOLEAN /\ UNCHANGED <<rpc, wfresh, radioState, suspended>>
        /\ (alsa' = "radio" => alsa = "radio")
    BY <1>1, <1>5 DEF PriorityInv, RadioTypes
  <2>7. spc \notin Awaited /\ spc' = Task("cleanup").op
    BY <1>1, <1>5, <2>5 DEF Awaited
  <2>8. RadioTypes' /\ RadioLock' /\ Wanted' /\ MayOpen' /\ StopStands'
    BY <1>2, <1>5, <2>5, <2>6, <2>7, RadioJoins
  <2>9. BoundTypes'
    BY <1>1, BoundsKept DEF PriorityInv, BoundTypes
  <2>10. QED
    BY <1>2, <2>2, <2>3, <2>4, <2>8, <2>9, KeepsContract DEF Stands, PriorityInv
<1>6. QED
  BY <1>4, <1>5 DEF Busy

\* The claim of a sound: the radio is suspended, and what it was starting is stale.
LEMMA ClaimedKeeps ==
  ASSUME PriorityInv, Claimed
  PROVE  Stands
<1> DEFINE task == [op |-> "suspend", fresh |-> TRUE, resume |-> intent,
                    busy |-> radio_lock # <<>> \/ ended]
<1>1. /\ sound_lock # <<>> /\ spc = "claim" /\ spc' = "suspend" /\ Preempt(<<task>>)
      /\ suspended' = TRUE /\ expected' = TRUE /\ resolving' = "none"
      /\ UNCHANGED <<sound_lock, token, old, watch, interruption, resume_radio, temporary, retried,
                      cancelled, override, intent, ffmpeg, wpc, alsa, playing, sounds, acts,
                      faults, accepted>>
  BY DEF Claimed, SoundHolder, player, claim, bounds
<1>2. task \in RadioTasks /\ task.op = "suspend"
  <2>1. intent \in BOOLEAN /\ (radio_lock # <<>> \/ ended) \in BOOLEAN
    BY DEF PriorityInv, RadioTypes
  <2>2. QED
    BY <2>1 DEF RadioTasks, RadioOps
<1> HIDE DEF task
<1>3. \E other \in RadioTasks : <<task>> = <<other>>
  BY <1>2
<1>4. Head(<<task>>) = task /\ <<task>> # <<>>
  OBVIOUS
<1>5. /\ radio_lock' \in Seq(RadioTasks) /\ rpc' \in RadioSteps /\ orphans' \in Nat
      /\ ended' = FALSE /\ retry' = FALSE /\ wfresh' = FALSE /\ level' \in {level, Target}
      /\ radio_lock' = <<>> => rpc' = "enter"
      /\ ~Opens(radio_lock', rpc')
      /\ HasStop(radio_lock) => HasStop(radio_lock')
  BY <1>1, <1>3, NothingOpens
<1>6. Output' = Output
  BY <1>1 DEF Output
<1>7. UsesDevice
  BY <1>1, <1>5, <1>6 DEF UsesDevice, PriorityInv, HubTypes, Silent
<1>8. interruption /\ token = 0 /\ (override => temporary)
      /\ (temporary \/ override => alsa # "radio") /\ PlaysAreNumbered(sound_lock)
  BY <1>1 DEF PriorityInv, Priority, Silent, Yields
<1>9. SoundTypes'
  BY <1>1 DEF PriorityInv, SoundTypes, SoundSteps, CallerAwaits
<1>10. Priority'
  BY <1>1, <1>8 DEF Priority
<1>11. Silent'
  <2>1. Yields' => temporary
    BY <1>1 DEF Yields
  <2>2. QED
    BY <1>1, <1>7, <1>8, <2>1, KeepsContract DEF Silent
<1>12. RadioTypes'
  <2>1. suspended' \in BOOLEAN /\ expected' \in BOOLEAN
    BY <1>1
  <2>2. ended' \in BOOLEAN /\ retry' \in BOOLEAN /\ wfresh' \in BOOLEAN
    BY <1>5
  <2>3. QED
    BY <1>1, <1>5, <2>1, <2>2 DEF PriorityInv, RadioTypes
<1>13. radio_lock \in Seq(RadioTasks) /\ radio_lock' = Preempted(radio_lock, <<task>>)
  BY <1>1 DEF PriorityInv, RadioTypes, Preempt, NextGeneration, Preempted
<1>14. RadioLock'
  <2>1. AwaitedIs(radio_lock, "claim") /\ "claim" \notin Awaited
    BY <1>1 DEF PriorityInv, RadioLock, Awaited
  <2>2. AwaitedIs(radio_lock', Head(<<task>>).op)
    BY <1>3, <1>4, <1>13, <2>1, Preempts
  <2>3. AwaitedIs(radio_lock', spc')
    BY <1>1, <1>2, <1>4, <2>2
  <2>4. QED
    BY <1>5, <2>3 DEF RadioLock
<1>15. Wanted'
  <2>1. ~(<<task>> # <<>> /\ Head(<<task>>).fresh
          /\ Head(<<task>>).op \in {"media_play", "resume", "restart"})
    BY <1>2, <1>4
  <2>2. FreshIsWanted(radio_lock', intent)
    BY <1>3, <1>13, <2>1, Preempts
  <2>3. QED
    BY <1>1, <2>2 DEF Wanted
<1>16. MayOpen'
  BY <1>1, <1>5 DEF PriorityInv, MayOpen
<1>17. StopStands'
  BY <1>1, <1>5 DEF PriorityInv, StopStands
<1>18. BoundTypes'
  BY <1>1, BoundsKept DEF PriorityInv, BoundTypes
<1>19. QED
  BY <1>7, <1>9, <1>10, <1>11, <1>12, <1>14, <1>15, <1>16, <1>17, <1>18, KeepsContract
     DEF Stands, PriorityInv

LEMMA HandoverKeeps ==
  ASSUME PriorityInv, CancelHandover
  PROVE  Stands
<1>1. /\ sound_lock # <<>> /\ spc \in OfSound
      /\ radio_lock' = Without(radio_lock, OfSound)
      /\ rpc' = (IF Head(radio_lock).op \in OfSound THEN "enter" ELSE rpc)
      /\ alsa' \in {alsa, Stopped}
      /\ interruption' = FALSE /\ temporary' = FALSE /\ override' = FALSE
      /\ \/ spc' = "restore" /\ UNCHANGED <<sound_lock, retried, cancelled, suspended>>
         \/ LeaveSound /\ suspended' = FALSE
      /\ accepted' = (accepted /\ spc # "suspend")
      /\ UNCHANGED <<token, old, watch, resume_radio, resolving, wfresh, ended, retry, orphans,
                      intent, expected, ffmpeg, wpc, level, playing, sounds, acts, faults>>
  BY DEF CancelHandover, SoundHolder, OfSound, radioState, bounds
<1>2. UsesDevice /\ (alsa' = "radio" => alsa = "radio")
  BY <1>1 DEF UsesDevice, Stopped, PriorityInv, HubTypes, Silent
<1>3. SoundTypes' /\ Priority' /\ Silent'
  <2>1. token' = 0
    BY <1>1 DEF PriorityInv, Priority, OfSound
  <2>2. /\ sound_lock' \in {sound_lock, Tail(sound_lock)} /\ spc' \in {"enter", "restore"}
        /\ (spc' # "enter" => sound_lock' = sound_lock)
    BY <1>1 DEF LeaveSound
  <2>3. cancelled' \in BOOLEAN /\ retried' \in {"no", "idle", "start"}
    BY <1>1 DEF LeaveSound, PriorityInv, SoundTypes
  <2>4. /\ old' \in 0..MaxSounds /\ watch' \in {"none", "polling", "waiting"}
        /\ resume_radio' \in BOOLEAN
    BY <1>1 DEF PriorityInv, SoundTypes
  <2>5. QED
    BY <1>1, <1>2, <2>1, <2>2, <2>3, <2>4, KeepsContract, SoundIdle
<1>4. /\ radio_lock \in Seq(RadioTasks) /\ rpc \in RadioSteps /\ AwaitedIs(radio_lock, spc)
      /\ FreshIsWanted(radio_lock, intent) /\ (radio_lock = <<>> => rpc = "enter")
  BY DEF PriorityInv, RadioTypes, RadioLock, Wanted
<1>5. /\ radio_lock' \in Seq(RadioTasks)
      /\ radio_lock = <<>> => radio_lock' = <<>>
      /\ radio_lock # <<>> /\ Head(radio_lock).op \notin OfSound
         => radio_lock' # <<>> /\ Head(radio_lock') = Head(radio_lock)
  BY <1>1, <1>4, Cancels
<1>6. FreshIsWanted(radio_lock', intent)
  BY <1>1, <1>4, Cancels
<1>7. AwaitedIs(radio_lock', spc')
  BY <1>1, <1>4, Cancels
<1>8. HasStop(radio_lock) => HasStop(radio_lock')
  <2>1. "media_stop" \notin OfSound
    BY DEF OfSound
  <2>2. QED
    BY <1>1, <1>4, <2>1, Cancels
<1>9. RadioTypes'
  <2>1. suspended' \in BOOLEAN
    BY <1>1 DEF PriorityInv, RadioTypes
  <2>2. rpc' \in RadioSteps
    BY <1>1, <1>4 DEF RadioSteps
  <2>3. QED
    BY <1>1, <1>5, <2>1, <2>2 DEF PriorityInv, RadioTypes
<1>10. RadioLock'
  BY <1>1, <1>4, <1>5, <1>7 DEF RadioLock
<1>11. Wanted' /\ StopStands'
  BY <1>1, <1>6, <1>8 DEF PriorityInv, Wanted, StopStands
<1>12. MayOpen'
  <2>1. Opens(radio_lock', rpc') => Opens(radio_lock, rpc) /\ rpc' = rpc
    BY <1>1, <1>4, <1>5 DEF Opens
  <2>2. suspended' => suspended
    BY <1>1
  <2>3. QED
    BY <1>1, <1>2, <2>1, <2>2 DEF PriorityInv, MayOpen
<1>13. BoundTypes'
  <2>1. accepted' \in BOOLEAN
    BY <1>1 DEF PriorityInv, BoundTypes
  <2>2. QED
    BY <1>1, <2>1, BoundsKept
<1>14. QED
  BY <1>2, <1>3, <1>9, <1>10, <1>11, <1>12, <1>13, KeepsContract DEF Stands, PriorityInv

\* A caller is cancelled in the restore: the radio stays suspended.
LEMMA CancelRestoreKeeps ==
  ASSUME PriorityInv, CancelRestore
  PROVE  Stands
<1>1. /\ sound_lock # <<>> /\ spc = "restore" /\ level' \in {level, Target}
      /\ resume_radio' = FALSE /\ accepted' = FALSE /\ LeaveSound
      /\ UNCHANGED <<token, old, watch, interruption, temporary, radioTasks, radioState, suspended,
                      override, alsa, playing, sounds, acts, faults>>
  BY DEF CancelRestore, Cancelled, bounds
<1>2. Output' = Output
  BY <1>1 DEF Output
<1>3. UsesDevice
  BY <1>1, <1>2 DEF UsesDevice, PriorityInv, HubTypes, Silent
<1>4. /\ interruption = FALSE /\ temporary = FALSE /\ override = FALSE /\ token = 0
  BY <1>1 DEF PriorityInv, SoundTypes, Priority
<1>5. /\ sound_lock' = Tail(sound_lock) /\ spc' = "enter" /\ retried' = "no" /\ cancelled' = FALSE
  BY <1>1 DEF LeaveSound
<1>6. /\ cancelled' \in BOOLEAN /\ resume_radio' \in BOOLEAN /\ old' \in 0..MaxSounds
      /\ watch' \in {"none", "polling", "waiting"}
  BY <1>1, <1>5 DEF PriorityInv, SoundTypes
<1>7. SoundTypes' /\ Priority' /\ Silent'
  BY <1>1, <1>3, <1>4, <1>5, <1>6, KeepsContract, SoundIdle
<1>8. RadioTypes' /\ RadioLock' /\ Wanted' /\ MayOpen' /\ StopStands'
  <2>1. UNCHANGED radioSide /\ suspended' \in BOOLEAN /\ (suspended' => suspended)
    BY <1>1 DEF radioSide, radioTasks, PriorityInv, RadioTypes
  <2>2. spc \notin Awaited /\ (alsa' = "radio" => alsa = "radio")
    BY <1>1 DEF Awaited
  <2>3. QED
    BY <1>3, <2>1, <2>2, RadioFrame
<1>9. BoundTypes'
  BY <1>1, BoundsKept
<1>10. QED
  BY <1>3, <1>7, <1>8, <1>9, KeepsContract DEF Stands, PriorityInv

\* A caller is cancelled in the resume: its start of the radio leaves the lock.
LEMMA CancelResumeKeeps ==
  ASSUME PriorityInv, CancelResume
  PROVE  Stands
<1>1. /\ sound_lock # <<>> /\ spc = "resume" /\ LeaveSound
      /\ radio_lock' = Without(radio_lock, {"resume"})
      /\ \/ Head(radio_lock).op = "resume" /\ rpc' = "enter"
         \/ Head(radio_lock).op # "resume" /\ rpc' = rpc
      /\ alsa' \in {alsa, Stopped}
      /\ level' = level \/ (level' = Target /\ rpc = "gain" /\ Head(radio_lock).op = "resume")
      /\ alsa' = alsa \/ level' = level
      /\ orphans' \in {orphans + 0, orphans + 1}
      /\ UNCHANGED <<token, old, watch, interruption, resume_radio, temporary, resolving, wfresh,
                      ended, retry, intent, expected, ffmpeg, wpc, suspended, override, playing,
                      sounds, acts, faults>>
  BY DEF CancelResume, Cancelled, claim, radioState, bounds
<1>2. level' = level \/ Output' = Output
  BY <1>1 DEF Output
<1>3. UsesDevice /\ (alsa' = "radio" => alsa = "radio")
  BY <1>1, <1>2 DEF UsesDevice, Stopped, PriorityInv, HubTypes, Silent
<1>4. SoundTypes' /\ Priority' /\ Silent'
  <2>1. /\ token = 0 /\ interruption = FALSE /\ temporary = FALSE /\ override = FALSE
    BY <1>1 DEF PriorityInv, SoundTypes, Priority
  <2>2. /\ sound_lock' = Tail(sound_lock) /\ spc' = "enter" /\ retried' = "no"
        /\ cancelled' = FALSE
    BY <1>1 DEF LeaveSound
  <2>3. /\ cancelled' \in BOOLEAN /\ resume_radio' \in BOOLEAN /\ old' \in 0..MaxSounds
        /\ watch' \in {"none", "polling", "waiting"}
    BY <1>1, <2>2 DEF PriorityInv, SoundTypes
  <2>4. QED
    BY <1>1, <1>3, <2>1, <2>2, <2>3, KeepsContract, SoundIdle
<1>5. /\ radio_lock \in Seq(RadioTasks) /\ rpc \in RadioSteps /\ AwaitedIs(radio_lock, spc)
      /\ FreshIsWanted(radio_lock, intent) /\ (radio_lock = <<>> => rpc = "enter")
  BY DEF PriorityInv, RadioTypes, RadioLock, Wanted
<1>6. /\ radio_lock' \in Seq(RadioTasks)
      /\ radio_lock = <<>> => radio_lock' = <<>>
      /\ radio_lock # <<>> /\ Head(radio_lock).op # "resume"
         => radio_lock' # <<>> /\ Head(radio_lock') = Head(radio_lock)
      /\ FreshIsWanted(radio_lock', intent)
      /\ AwaitedIs(radio_lock', spc')
      /\ HasStop(radio_lock) => HasStop(radio_lock')
  <2>1. "resume" \in {"resume"} /\ "media_stop" \notin {"resume"}
    OBVIOUS
  <2>2. AwaitedIs(radio_lock, "resume")
    BY <1>1, <1>5
  <2>3. QED
    BY <1>1, <1>5, <2>1, <2>2, Cancels
<1>7. RadioTypes'
  <2>1. rpc' \in RadioSteps /\ orphans' \in Nat
    BY <1>1, <1>5 DEF PriorityInv, RadioTypes, RadioSteps
  <2>2. QED
    BY <1>1, <1>6, <2>1 DEF PriorityInv, RadioTypes
<1>8. RadioLock'
  BY <1>1, <1>5, <1>6 DEF RadioLock
<1>9. Wanted' /\ StopStands'
  BY <1>1, <1>6 DEF PriorityInv, Wanted, StopStands
<1>10. MayOpen'
  <2>1. Opens(radio_lock', rpc') => Opens(radio_lock, rpc) /\ rpc' = rpc /\ level' = level
    BY <1>1, <1>5, <1>6 DEF Opens
  <2>2. /\ wfresh => ~suspended
        /\ wfresh /\ wpc \in {"rebuild_start", "rebuild_connect"} => level' = "media"
    BY <1>1, FreshWatcher
  <2>3. QED
    BY <1>1, <1>3, <2>1, <2>2 DEF PriorityInv, MayOpen
<1>11. BoundTypes'
  <2>1. \E other : accepted' = (accepted /\ other)
    BY DEF CancelResume
  <2>2. accepted' \in BOOLEAN
    BY <2>1 DEF PriorityInv, BoundTypes
  <2>3. QED
    BY <1>1, <2>2, BoundsKept
<1>12. QED
  BY <1>3, <1>4, <1>7, <1>8, <1>9, <1>10, <1>11, KeepsContract DEF Stands, PriorityInv

-----------------------------------------------------------------------------
(* The theorems.                                                           *)

LEMMA PriorityInit ==
  ASSUME Init
  PROVE  PriorityInv /\ Contract!Init
<1>1. /\ sound_lock = <<>> /\ spc = "enter" /\ token = 0 /\ old = 0 /\ watch = "none"
      /\ interruption = FALSE /\ resume_radio = FALSE /\ temporary = FALSE
      /\ retried = "no" /\ cancelled = FALSE /\ override = FALSE
      /\ radio_lock = <<>> /\ rpc = "enter" /\ resolving = "none" /\ orphans = 0
      /\ ended = FALSE /\ retry = FALSE /\ suspended = FALSE /\ expected = FALSE
      /\ ffmpeg \in BOOLEAN /\ intent = ffmpeg /\ wfresh = ffmpeg
      /\ wpc = (IF ffmpeg THEN "run" ELSE "none")
      /\ alsa = (IF ffmpeg THEN "radio" ELSE "closed") /\ level = "media" /\ playing = 0
      /\ sounds = MaxSounds /\ acts = MaxActs /\ faults = MaxFaults /\ accepted = ffmpeg
  BY DEF Init
<1>2. Len(sound_lock) = 0 /\ Len(radio_lock) = 0 /\ 1..0 = {}
  BY <1>1
<1>3. sound_lock \in Seq(SoundTasks) /\ radio_lock \in Seq(RadioTasks)
  BY <1>1
<1>4. SoundTypes
  <2>1. /\ interruption \in BOOLEAN /\ resume_radio \in BOOLEAN /\ temporary \in BOOLEAN
        /\ cancelled \in BOOLEAN /\ override \in BOOLEAN
    BY <1>1
  <2>2. spc \in SoundSteps /\ token \in 0..MaxSounds /\ old \in 0..MaxSounds
    BY <1>1, AudioConstants DEF SoundSteps
  <2>3. QED
    BY <1>1, <1>3, <2>1, <2>2 DEF SoundTypes
<1>5. RadioTypes
  <2>1. /\ ended \in BOOLEAN /\ retry \in BOOLEAN /\ suspended \in BOOLEAN /\ expected \in BOOLEAN
        /\ intent \in BOOLEAN /\ wfresh \in BOOLEAN /\ ffmpeg \in BOOLEAN
    BY <1>1
  <2>2. rpc \in RadioSteps /\ wpc \in Transports /\ orphans \in Nat
    BY <1>1 DEF RadioSteps, Transports
  <2>3. QED
    BY <1>1, <1>3, <2>1, <2>2 DEF RadioTypes
<1>6. HubTypes
  BY <1>1, AudioConstants DEF HubTypes
<1>7. BoundTypes
  <2>1. accepted \in BOOLEAN
    BY <1>1
  <2>2. QED
    BY <1>1, <2>1, AudioConstants DEF BoundTypes
<1>8. Priority
  BY <1>1 DEF Priority
<1>9. Silent
  BY <1>1, <1>2 DEF Silent, Yields, PlaysAreNumbered
<1>10. RadioLock /\ Wanted
  BY <1>1, <1>2 DEF RadioLock, Wanted, AwaitedIs, FreshIsWanted
<1>11. MayOpen /\ StopStands
  BY <1>1, <1>2 DEF MayOpen, Opens, StopStands, HasStop
<1>12. Contract!Init
  BY <1>1 DEF Contract!Init, Output
<1>13. QED
  BY <1>4, <1>5, <1>6, <1>7, <1>8, <1>9, <1>10, <1>11, <1>12 DEF PriorityInv

LEMMA PriorityStep ==
  ASSUME PriorityInv, [Next]_vars
  PROVE  Stands
<1>1. CASE Next
  BY <1>1, RestoreKeeps, EntriesKeep, ClaimedKeeps, TakesKeep, BusyKeeps, GivenUpKeeps,
     HandoverKeeps, CancelRestoreKeeps, CancelResumeKeeps, EnterStartKeeps, StartsKeep, StopsKeep, WatcherKeeps, ReportsKeep,
     SoundRequestsKeep, JoiningRadio, HubKeeps, RequestsKeep
     DEF Next, SoundTask, RadioTask, Cancellation, Users
<1>2. CASE UNCHANGED vars
  <2>1. /\ UNCHANGED <<sound_lock, spc, token, old, watch, interruption, resume_radio, temporary,
                        retried, cancelled, override, suspended, playing, level, alsa>>
        /\ UNCHANGED <<radio_lock, rpc, resolving, wfresh, ended, retry, orphans, intent, expected,
                        ffmpeg, wpc, sounds, acts, faults, accepted>>
    BY <1>2 DEF vars, player, claim, radioTasks, radioState, hub, bounds
  <2>2. UsesDevice
    BY <2>1 DEF UsesDevice, PriorityInv, HubTypes, Silent
  <2>3. UNCHANGED <<soundSide, suspended>> /\ UNCHANGED radioSide
    BY <2>1 DEF soundSide, claim, radioSide, radioState
  <2>4. SoundTypes' /\ Priority' /\ Silent'
    BY <2>2, <2>3, SoundFrame
  <2>5. suspended' \in BOOLEAN /\ (suspended' => suspended) /\ spc' = spc
    BY <2>1 DEF PriorityInv, RadioTypes
  <2>6. QED
    BY <2>1, <2>2, <2>3, <2>4, <2>5, SoundStep
<1>3. QED
  BY <1>1, <1>2

\* The inductive invariant of the two players.
THEOREM PriorityInvariant == Spec => []PriorityInv
<1>1. Init => PriorityInv
  BY PriorityInit
<1>2. PriorityInv /\ [Next]_vars => PriorityInv'
  BY PriorityStep DEF Stands
<1>3. QED
  BY <1>1, <1>2, PTL DEF Spec

-----------------------------------------------------------------------------
(* Who ends a sound.                                                       *)

\* The watcher of the token waits for the lock once, and nobody waits for it after
\* its sound was taken over.
WatcherInv ==
  /\ abandoned \in BOOLEAN
  /\ watch # "none" => token # 0
  /\ \A i \in 1..Len(sound_lock) :
       sound_lock[i].op = "finish" => watch = "waiting" \/ (i = 1 /\ spc # "enter")
  /\ \A i, j \in 1..Len(sound_lock) :
       sound_lock[i].op = "finish" /\ sound_lock[j].op = "finish" => i = j

OwnedInv == WatcherInv /\ OwnedSound

\* The lock's holder goes on or leaves, or a play or a stop joins.
LEMMA WatcherWaits ==
  ASSUME PriorityInv, WatcherInv, abandoned' \in BOOLEAN, UNCHANGED <<watch, token>>,
         \/ sound_lock' = sound_lock /\ (spc' = spc \/ spc' # "enter")
         \/ sound_lock # <<>> /\ sound_lock' = Tail(sound_lock)
         \/ /\ spc' = spc
            /\ \E task \in SoundTasks : task.op # "finish" /\ sound_lock' = Append(sound_lock, task)
  PROVE  WatcherInv'
<1>1. sound_lock \in Seq(SoundTasks)
  BY DEF PriorityInv, SoundTypes
<1>2. CASE sound_lock' = sound_lock /\ (spc' = spc \/ spc' # "enter")
  BY <1>2 DEF WatcherInv
<1>3. CASE sound_lock # <<>> /\ sound_lock' = Tail(sound_lock)
  <2>1. /\ Len(sound_lock') = Len(sound_lock) - 1 /\ Len(sound_lock) \in Nat
        /\ \A i \in 1..Len(sound_lock') : sound_lock'[i] = sound_lock[i + 1]
    BY <1>1, <1>3
  <2>2. \A i \in 1..Len(sound_lock') : i + 1 \in 1..Len(sound_lock) /\ i + 1 # 1
    BY <2>1
  <2>3. \A i, j \in 1..Len(sound_lock') : i + 1 = j + 1 => i = j
    OBVIOUS
  <2>4. QED
    BY <2>1, <2>2, <2>3 DEF WatcherInv
<1>4. ASSUME spc' = spc, NEW task \in SoundTasks, task.op # "finish",
             sound_lock' = Append(sound_lock, task)
      PROVE  WatcherInv'
  <2>1. /\ Len(sound_lock') = Len(sound_lock) + 1 /\ Len(sound_lock) \in Nat
        /\ \A i \in 1..Len(sound_lock) : sound_lock'[i] = sound_lock[i]
        /\ sound_lock'[Len(sound_lock) + 1] = task
    BY <1>1, <1>4, AppendProperties, LenProperties
  <2>2. \A i \in 1..Len(sound_lock') :
          sound_lock'[i].op = "finish" => i \in 1..Len(sound_lock) /\ sound_lock'[i] = sound_lock[i]
    <3>1. \A i \in 1..Len(sound_lock') : i \in 1..Len(sound_lock) \/ i = Len(sound_lock) + 1
      BY <2>1
    <3>2. QED
      BY <1>4, <2>1, <3>1
  <2>3. QED
    BY <1>4, <2>2 DEF WatcherInv
<1>5. QED
  BY <1>2, <1>3, <1>4

\* A sound that is heard away from its stop, and that nobody watches, was abandoned.
LEMMA NobodyOwns ==
  ASSUME PriorityInv, OwnedInv, alsa = "sound", spc \notin {"stop_old", "stop_new"},
         spc # "enter" \/ token = 0 \/ watch = "waiting"
  PROVE  abandoned
BY DEF PriorityInv, Priority, Silent, OwnedInv, WatcherInv, OwnedSound

\* What a step that concerns no sound leaves of its owner.
LEMMA StillOwned ==
  ASSUME OwnedSound, alsa' = "sound" => alsa = "sound" /\ UNCHANGED <<playing, abandoned>>,
         UNCHANGED <<token, old, watch, interruption>>, temporary => temporary',
         suspended => suspended',
         spc \in {"stop_old", "stop_new"} => spc' = spc /\ Head(sound_lock') = Head(sound_lock)
  PROVE  OwnedSound'
BY DEF OwnedSound

\* Nothing of the radio or of the hub takes a sound from its owner.
LEMMA RadioLeavesSounds ==
  ASSUME PriorityInv, OwnedInv,
         \/ RadioTask \/ Watcher \/ WatcherReports \/ Resolved \/ RetryFires \/ Hub \/ MediaStop
         \/ (\E op \in {"play_media", "media_play"} : Play(op))
         \/ ResolveFails \/ SourceFails \/ ReceiverDies
  PROVE  OwnedInv'
<1> DEFINE NotOfSound == UNCHANGED <<sound_lock, spc, temporary>>
           Ends == sound_lock' = Tail(sound_lock) /\ spc' = "enter" /\ UNCHANGED temporary
           Goes == UNCHANGED sound_lock /\ spc' # "enter" /\ temporary' \in {temporary, TRUE}
<1>1. /\ UNCHANGED <<token, old, watch, interruption, suspended>>
      /\ \/ abandoned' = abandoned /\ playing' = playing
         \/ abandoned' = FALSE /\ alsa' = "closed"
  BY DEF RadioTask, EnterStart, IndividualClaimed, PreStopped, MediaGain, ReceiverStarted, Connected,
         StaleCleaned, EnterMediaStop, EnterSuspend, TransportStopped, startKept, soundKept, soundTask,
         claim, EndStart, ProceedIfCurrent, Proceed, Yielded,
         Watcher, RebuildReceiver, RebuildGain, RebuildStart, RebuildConnect, watchKept,
         WatcherReports, Resolved, RetryFires, ResolveFails, SourceFails,
         Hub, SoundEnds, Drained, OrphanStarts, ReceiverDies, hubKept, player, MediaStop, Play
<1>2. alsa' = "sound" => alsa = "sound"
  <2>1. Started = "sound" => alsa = "sound"
    BY DEF Started
  <2>2. Stopped = "sound" => alsa = "sound"
    BY DEF Stopped
  <2>3. StopCommand => (alsa' = "sound" => alsa = "sound")
    BY <2>2 DEF StopCommand
  <2>4. QED
    BY <2>1, <2>2, <2>3
       DEF RadioTask, EnterStart, IndividualClaimed, PreStopped, MediaGain, ReceiverStarted, Connected,
         StaleCleaned, EnterMediaStop, EnterSuspend, TransportStopped,
         Watcher, RebuildReceiver, RebuildGain, RebuildStart, RebuildConnect, watchKept,
         WatcherReports, Resolved, RetryFires, ResolveFails, SourceFails,
         Hub, SoundEnds, Drained, OrphanStarts, ReceiverDies, MediaStop, Play
<1>3. NotOfSound \/ (spc \in Awaited /\ (Ends \/ Goes))
  <2>1. /\ radio_lock # <<>> => Head(radio_lock) = radio_lock[1] /\ 1 \in 1..Len(radio_lock)
        /\ AwaitedIs(radio_lock, spc)
    BY DEF PriorityInv, RadioTypes, RadioLock
  <2>2. radio_lock # <<>> /\ Head(radio_lock).op \in Awaited => spc \in Awaited
    BY <2>1 DEF AwaitedIs
  <2>3. ASSUME radio_lock # <<>>, NEW raised, EndStart(raised) PROVE NotOfSound \/ (spc \in Awaited /\ Ends)
    BY <2>2, <2>3 DEF EndStart, LeaveSound, soundTask, claim, Awaited
  <2>4. ASSUME NEW step, Proceed(step) PROVE NotOfSound
    BY <2>4 DEF Proceed, soundTask, claim
  <2>5. ASSUME radio_lock # <<>>, NEW step, ProceedIfCurrent(step)
        PROVE  NotOfSound \/ (spc \in Awaited /\ Ends)
    BY <2>3, <2>4, <2>5 DEF ProceedIfCurrent
  <2>6. ASSUME \/ EnterStart \/ IndividualClaimed \/ PreStopped \/ MediaGain \/ ReceiverStarted
               \/ Connected \/ StaleCleaned
        PROVE  NotOfSound \/ (spc \in Awaited /\ Ends)
    <3>1. radio_lock # <<>>
      BY <2>6 DEF EnterStart, IndividualClaimed, PreStopped, MediaGain, ReceiverStarted, Connected,
                  StaleCleaned, RadioHolder
    <3>2. \/ UNCHANGED soundTask \/ EndStart(FALSE) \/ EndStart(TRUE)
          \/ (\E step : Proceed(step)) \/ (\E step : ProceedIfCurrent(step))
      BY <2>6 DEF EnterStart, IndividualClaimed, PreStopped, MediaGain, ReceiverStarted, Connected,
                  StaleCleaned
    <3>3. UNCHANGED soundTask => NotOfSound
      BY DEF soundTask, claim
    <3>4. QED
      BY <2>3, <2>4, <2>5, <3>1, <3>2, <3>3
  <2>7. ASSUME EnterMediaStop \/ EnterSuspend \/ TransportStopped
        PROVE  NotOfSound \/ (spc \in Awaited /\ Goes)
    <3>1. UNCHANGED soundTask => NotOfSound
      BY DEF soundTask, claim
    <3>2. Yielded => Goes
      BY DEF Yielded
    <3>3. CASE EnterMediaStop
      BY <3>1, <3>3 DEF EnterMediaStop
    <3>4. CASE EnterSuspend
      <4>1. radio_lock # <<>> /\ Head(radio_lock).op \in Awaited
        BY <3>4 DEF EnterSuspend, RadioHolder, Awaited
      <4>2. QED
        BY <2>2, <3>1, <3>2, <3>4, <4>1 DEF EnterSuspend
    <3>5. CASE TransportStopped
      <4>1. CASE Head(radio_lock).op = "media_stop" /\ UNCHANGED soundTask
        BY <3>1, <4>1
      <4>2. CASE Head(radio_lock).op = "suspend" /\ Yielded
        <5>1. spc \in Awaited
          BY <2>2, <3>5, <4>2 DEF TransportStopped, RadioHolder, Awaited
        <5>2. QED
          BY <3>2, <4>2, <5>1
      <4>3. CASE /\ Head(radio_lock).op = "cleanup" /\ spc' = retried
                 /\ UNCHANGED <<sound_lock, claim, retried, cancelled>>
        <5>1. spc \in Awaited /\ spc = "cleanup"
          BY <2>1, <2>2, <3>5, <4>3 DEF TransportStopped, RadioHolder, Awaited, AwaitedIs
        <5>2. retried # "enter" /\ UNCHANGED temporary
          BY <4>3 DEF claim, PriorityInv, SoundTypes
        <5>3. QED
          BY <4>3, <5>1, <5>2
      <4>4. QED
        BY <3>5, <4>1, <4>2, <4>3 DEF TransportStopped
    <3>6. QED
      BY <2>7, <3>3, <3>4, <3>5
  <2>8. ASSUME \/ Watcher \/ WatcherReports \/ Resolved \/ RetryFires \/ Hub \/ MediaStop
               \/ (\E op \in {"play_media", "media_play"} : Play(op))
               \/ ResolveFails \/ SourceFails \/ ReceiverDies
        PROVE  NotOfSound
    BY <2>8 DEF Watcher, RebuildReceiver, RebuildGain, RebuildStart, RebuildConnect, watchKept, soundTask,
         claim, WatcherReports, Resolved, RetryFires, ResolveFails, SourceFails,
         Hub, SoundEnds, Drained, OrphanStarts, ReceiverDies, hubKept, player, MediaStop, Play
  <2>9. QED
    BY <2>6, <2>7, <2>8 DEF RadioTask
<1>4. WatcherInv'
  <2>1. abandoned' \in BOOLEAN
    BY <1>1 DEF OwnedInv, WatcherInv
  <2>2. spc \in Awaited => sound_lock # <<>>
    BY DEF PriorityInv, Priority, Awaited
  <2>3. \/ sound_lock' = sound_lock /\ (spc' = spc \/ spc' # "enter")
        \/ sound_lock # <<>> /\ sound_lock' = Tail(sound_lock)
    BY <1>3, <2>2
  <2>4. QED
    BY <1>1, <2>1, <2>3, WatcherWaits DEF OwnedInv
<1>5. OwnedSound'
  <2>1. spc \in {"stop_old", "stop_new"} => spc' = spc /\ Head(sound_lock') = Head(sound_lock)
    BY <1>3 DEF Awaited
  <2>2. temporary => temporary'
    BY <1>3
  <2>3. alsa' = "sound" => alsa = "sound" /\ UNCHANGED <<playing, abandoned>>
    BY <1>1, <1>2
  <2>4. QED
    BY <1>1, <2>1, <2>2, <2>3, StillOwned DEF OwnedInv
<1>6. QED
  BY <1>4, <1>5 DEF OwnedInv

\* Priority is given back only once no owned sound is heard.
LEMMA FinishLeavesNone ==
  ASSUME PriorityInv, OwnedInv, FinishPriority, sound_lock # <<>>, UNCHANGED <<token, watch>>,
         abandoned' \in BOOLEAN, alsa' = "sound" => abandoned'
  PROVE  OwnedInv'
<1>1. \/ sound_lock' = sound_lock /\ spc' # "enter"
      \/ sound_lock' = Tail(sound_lock)
  BY DEF FinishPriority, LeaveSound, ResumeRadio
<1>2. WatcherInv'
  BY <1>1, WatcherWaits DEF OwnedInv
<1>3. OwnedSound'
  BY DEF OwnedSound
<1>4. QED
  BY <1>2, <1>3 DEF OwnedInv

\* A sound is stopped, or given up.
LEMMA StoppedOrNot ==
  ASSUME NEW id, abandoned \in BOOLEAN, alsa = "sound" /\ ~abandoned => playing = id,
         Silence(id) \/ Abandon(id)
  PROVE  abandoned' \in BOOLEAN /\ (alsa' = "sound" => abandoned')
<1>1. CASE Silence(id)
  BY <1>1 DEF Silence
<1>2. CASE Abandon(id)
  <2>1. abandoned' = (abandoned \/ (alsa = "sound" /\ playing = id)) /\ alsa' = alsa
    BY <1>2 DEF Abandon
  <2>2. abandoned' \in BOOLEAN
    BY <2>1
  <2>3. QED
    BY <2>1, <2>2
<1>3. QED
  BY <1>1, <1>2

\* What is left once no sound is owned.
LEMMA NoneLeft ==
  ASSUME PriorityInv, WatcherInv, sound_lock # <<>>, UNCHANGED <<token, watch>>,
         \/ sound_lock' = sound_lock /\ (spc' = spc \/ spc' # "enter")
         \/ sound_lock' = Tail(sound_lock),
         abandoned' \in BOOLEAN, alsa' = "sound" => abandoned'
  PROVE  OwnedInv'
<1>1. WatcherInv'
  BY WatcherWaits
<1>2. OwnedSound'
  BY DEF OwnedSound
<1>3. QED
  BY <1>1, <1>2 DEF OwnedInv

\* Every way to give a priority back.
LEMMA FinishesLeaveNone ==
  ASSUME PriorityInv, OwnedInv,
         \/ OldStopEnds \/ NewStopped \/ PlayFails \/ CancelCall \/ CancelSettling
         \/ (Busy /\ FinishPriority)
  PROVE  OwnedInv'
<1>1. sound_lock # <<>> /\ FinishPriority /\ UNCHANGED <<token, watch>>
  BY DEF OldStopEnds, NewStopped, PlayFails, CancelCall, CancelSettling, Cancelled, SoundHolder, Busy
<1>2. abandoned \in BOOLEAN
  BY DEF OwnedInv, WatcherInv
<1>3. /\ spc = "stop_old" /\ alsa = "sound" /\ ~abandoned => playing = old
      /\ spc = "stop_new" /\ alsa = "sound" /\ ~abandoned => playing = Head(sound_lock).id
  BY <1>2 DEF OwnedInv, OwnedSound, WatcherInv, PriorityInv, Priority
<1>4. spc \notin {"stop_old", "stop_new", "enter"} /\ alsa = "sound" => abandoned
  BY NobodyOwns
<1>5. abandoned' \in BOOLEAN /\ (alsa' = "sound" => abandoned')
  <2>1. CASE spc = "stop_old" /\ (Silence(old) \/ Abandon(old))
    BY <1>2, <1>3, <2>1, StoppedOrNot
  <2>2. CASE /\ spc = "stop_new"
             /\ Silence(Head(sound_lock).id) \/ Abandon(Head(sound_lock).id)
    BY <1>2, <1>3, <2>2, StoppedOrNot
  <2>3. CASE /\ spc \notin {"stop_old", "stop_new", "enter"}
             /\ UNCHANGED <<alsa, playing, abandoned>> \/ abandoned' = TRUE
    <3>1. CASE abandoned' = TRUE
      BY <3>1
    <3>2. CASE UNCHANGED <<alsa, playing, abandoned>>
      <4>1. alsa' = alsa /\ abandoned' = abandoned
        BY <3>2
      <4>2. QED
        BY <1>2, <1>4, <2>3, <4>1
    <3>3. QED
      BY <2>3, <3>1, <3>2
  <2>4. CASE OldStopEnds \/ NewStopped
    BY <2>1, <2>2, <2>4 DEF OldStopEnds, NewStopped, SoundHolder, StopsOrNot
  <2>5. CASE PlayFails \/ (Busy /\ FinishPriority)
    BY <2>3, <2>5 DEF PlayFails, Busy, hub
  <2>6. CASE CancelCall
    BY <2>1, <2>3, <2>6 DEF CancelCall, Cancelled, StopsOrNot
  <2>7. CASE CancelSettling
    BY <2>2, <2>3, <2>7 DEF CancelSettling, Cancelled, SoundHolder, StopsOrNot
  <2>8. QED
    BY <2>4, <2>5, <2>6, <2>7
<1>6. QED
  BY <1>1, <1>5, FinishLeavesNone

\* The player goes on, or gives the radio back, with no owned sound to lose.
LEMMA NoSoundToLose ==
  ASSUME PriorityInv, OwnedInv,
         Restore \/ CancelHandover \/ CancelRestore \/ CancelResume \/ OldStopped
  PROVE  OwnedInv'
<1>1. abandoned \in BOOLEAN /\ sound_lock # <<>> /\ UNCHANGED <<token, watch>>
  BY DEF OwnedInv, WatcherInv, Restore, CancelHandover, CancelRestore, CancelResume, OldStopped,
         Cancelled, SoundHolder
<1>2. \/ sound_lock' = sound_lock /\ spc' # "enter"
      \/ sound_lock' = Tail(sound_lock)
  BY DEF Restore, ResumeRadio, LeaveSound, CancelHandover, CancelRestore, CancelResume, OldStopped,
         BeginPriority
<1>3. abandoned' \in BOOLEAN /\ (alsa' = "sound" => abandoned')
  <2>1. CASE OldStopped
    <3>1. alsa = "sound" /\ ~abandoned => playing = old
      BY <2>1 DEF OldStopped, SoundHolder, OwnedInv, OwnedSound, WatcherInv, PriorityInv, Priority
    <3>2. QED
      BY <1>1, <2>1, <3>1, StoppedOrNot DEF OldStopped
  <2>2. CASE Restore \/ CancelHandover \/ CancelRestore \/ CancelResume
    <3>1. spc \in {"suspend", "cleanup", "restore", "resume"}
      BY <2>2 DEF Restore, CancelHandover, CancelRestore, CancelResume, Cancelled, SoundHolder
    <3>2. alsa = "sound" => abandoned
      BY <3>1, NobodyOwns
    <3>3. abandoned' = abandoned /\ (alsa' = "sound" => alsa = "sound")
      BY <2>2 DEF Restore, CancelHandover, CancelRestore, CancelResume, Stopped
    <3>4. QED
      BY <1>1, <3>2, <3>3
  <2>3. QED
    BY <2>1, <2>2
<1>4. QED
  BY <1>1, <1>2, <1>3, NoneLeft DEF OwnedInv

\* A play on its way, and calls that join the queue, take nothing from a sound.
LEMMA PlayLeavesSounds ==
  ASSUME PriorityInv, OwnedInv,
         \/ Claimed \/ DeviceIdle \/ GainApplied \/ CancelStart \/ (Busy /\ spc' = "cleanup")
         \/ PlaySound \/ StopSound
  PROVE  OwnedInv'
<1>1. /\ UNCHANGED <<token, old, watch, interruption, temporary, alsa, playing, abandoned>>
      /\ suspended => suspended'
  <2>1. UNCHANGED <<token, old, watch, interruption, temporary, alsa, playing, abandoned>>
    BY DEF Claimed, DeviceIdle, GainApplied, CancelStart, Busy, FinishPriority, LeaveSound,
           ResumeRadio, PlaySound, StopSound, player, claim, hub
  <2>2. suspended' = suspended \/ suspended' = TRUE
    BY DEF Claimed, DeviceIdle, GainApplied, CancelStart, Busy, FinishPriority, LeaveSound,
           ResumeRadio, PlaySound, StopSound
  <2>3. QED
    BY <2>1, <2>2
<1>2. abandoned' \in BOOLEAN
  BY <1>1 DEF OwnedInv, WatcherInv
<1>3. CASE Claimed \/ DeviceIdle \/ GainApplied \/ CancelStart \/ (Busy /\ spc' = "cleanup")
  <2>1. /\ sound_lock' = sound_lock /\ (spc' = spc \/ spc' # "enter")
        /\ spc \notin {"stop_old", "stop_new"}
    <3>1. CASE Busy /\ spc' = "cleanup"
      <4>1. sound_lock' = sound_lock
        BY <3>1 DEF Busy, FinishPriority, LeaveSound, ResumeRadio
      <4>2. QED
        BY <3>1, <4>1 DEF Busy
    <3>2. QED
      BY <1>3, <3>1 DEF Claimed, DeviceIdle, GainApplied, CancelStart, SoundHolder
  <2>2. QED
    BY <1>1, <1>2, <2>1, WatcherWaits, StillOwned DEF OwnedInv
<1>4. CASE PlaySound \/ StopSound
  <2>1. PICK task \in SoundTasks : task.op # "finish" /\ sound_lock' = Append(sound_lock, task)
    <3>1. sounds \in 0..MaxSounds
      BY DEF PriorityInv, BoundTypes
    <3>2. PICK op \in {"play", "stop"} :
            sound_lock' = Append(sound_lock, [op |-> op, id |-> sounds])
      BY <1>4 DEF PlaySound, StopSound, Request
    <3>3. [op |-> op, id |-> sounds] \in SoundTasks
      BY <3>1, <3>2 DEF SoundTasks
    <3>4. QED
      BY <3>2, <3>3
  <2>2. spc' = spc
    BY <1>4 DEF PlaySound, StopSound
  <2>3. WatcherInv'
    BY <1>1, <1>2, <2>1, <2>2, WatcherWaits DEF OwnedInv
  <2>4. spc \in {"stop_old", "stop_new"} => Head(sound_lock') = Head(sound_lock)
    <3>1. sound_lock \in Seq(SoundTasks) /\ (sound_lock = <<>> => spc = "enter")
      BY DEF PriorityInv, SoundTypes, Priority
    <3>2. sound_lock # <<>> => Head(Append(sound_lock, task)) = Head(sound_lock)
      BY <3>1
    <3>3. QED
      BY <2>1, <3>1, <3>2
  <2>5. QED
    BY <1>1, <2>2, <2>3, <2>4, StillOwned DEF OwnedInv
<1>5. QED
  BY <1>3, <1>4

\* A sound is taken over by the call that stops it.
LEMMA TakenOver ==
  ASSUME PriorityInv, OwnedInv, sound_lock # <<>>, spc = "enter", TakeToken,
         UNCHANGED <<interruption, temporary, suspended, alsa, playing, abandoned>>
  PROVE  OwnedInv'
<1>1. token # 0 /\ old' = token /\ spc' = "stop_old" /\ watch' = "none"
  BY DEF TakeToken
<1>2. ComesFrom(sound_lock', sound_lock, {"finish"})
  BY WithoutProperties DEF TakeToken, PriorityInv, SoundTypes
<1>3. \A i \in 1..Len(sound_lock') : sound_lock'[i].op # "finish"
  BY <1>2 DEF ComesFrom
<1>4. WatcherInv'
  BY <1>1, <1>3 DEF OwnedInv, WatcherInv
<1>5. OwnedSound'
  BY <1>1 DEF OwnedInv, OwnedSound
<1>6. QED
  BY <1>4, <1>5 DEF OwnedInv

\* The calls and the watcher that get the lock.
LEMMA EntriesOwn ==
  ASSUME PriorityInv, OwnedInv, EnterPlay \/ EnterStop \/ EnterFinish
  PROVE  OwnedInv'
<1>1. sound_lock # <<>> /\ spc = "enter" /\ UNCHANGED <<alsa, playing, abandoned>>
  BY DEF EnterPlay, EnterStop, EnterFinish, SoundHolder, hub
<1>2. abandoned' \in BOOLEAN
  BY <1>1 DEF OwnedInv, WatcherInv
<1>3. CASE (EnterPlay \/ EnterStop) /\ TakeToken
  <2>1. UNCHANGED <<interruption, temporary, suspended>>
    BY <1>3 DEF EnterPlay, EnterStop, TakeToken, claim
  <2>2. QED
    BY <1>1, <1>3, <2>1, TakenOver
<1>4. CASE token = 0 /\ UNCHANGED <<token, watch>>
           /\ ((EnterPlay /\ BeginPriority /\ sound_lock' = sound_lock) \/ FinishPriority)
  <2>1. alsa = "sound" => abandoned
    BY <1>1, <1>4, NobodyOwns
  <2>2. alsa' = "sound" => abandoned'
    BY <1>1, <2>1
  <2>3. CASE FinishPriority
    BY <1>1, <1>2, <1>4, <2>2, <2>3, FinishLeavesNone
  <2>4. CASE BeginPriority /\ sound_lock' = sound_lock
    <3>1. spc' # "enter"
      BY <2>4 DEF BeginPriority
    <3>2. QED
      BY <1>1, <1>2, <1>4, <2>2, <2>4, <3>1, NoneLeft DEF OwnedInv
  <2>5. QED
    BY <1>4, <2>3, <2>4
<1>5. CASE EnterFinish
  <2>1. sound_lock \in Seq(SoundTasks) /\ Head(sound_lock) = sound_lock[1]
        /\ 1 \in 1..Len(sound_lock) /\ sound_lock[1].op = "finish"
    BY <1>1, <1>5 DEF EnterFinish, SoundHolder, PriorityInv, SoundTypes
  <2>2. watch = "waiting"
    BY <1>1, <2>1 DEF OwnedInv, WatcherInv
  <2>3. alsa' = "sound" => abandoned'
    BY <1>1, <2>2, NobodyOwns
  <2>4. \A i \in 1..Len(sound_lock) : sound_lock[i].op = "finish" => i = 1
    BY <2>1 DEF OwnedInv, WatcherInv
  <2>5. \/ sound_lock' = sound_lock /\ spc' # "enter"
        \/ sound_lock' = Tail(sound_lock)
    BY <1>5 DEF EnterFinish, FinishPriority, LeaveSound, ResumeRadio
  <2>6. \A i \in 1..Len(sound_lock') :
          sound_lock'[i].op = "finish" => i = 1 /\ spc' # "enter"
    <3>1. CASE sound_lock' = sound_lock /\ spc' # "enter"
      BY <2>4, <3>1
    <3>2. CASE sound_lock' = Tail(sound_lock)
      <4>1. /\ Len(sound_lock') = Len(sound_lock) - 1 /\ Len(sound_lock) \in Nat
            /\ \A i \in 1..Len(sound_lock') : sound_lock'[i] = sound_lock[i + 1]
        BY <1>1, <2>1, <3>2
      <4>2. \A i \in 1..Len(sound_lock') : i + 1 \in 1..Len(sound_lock) /\ i + 1 # 1
        BY <4>1
      <4>3. QED
        BY <2>4, <4>1, <4>2
    <3>3. QED
      BY <2>5, <3>1, <3>2
  <2>7. watch' = "none"
    BY <1>5 DEF EnterFinish
  <2>8. WatcherInv'
    BY <1>2, <2>6, <2>7 DEF WatcherInv
  <2>9. OwnedSound'
    BY <2>3 DEF OwnedSound
  <2>10. QED
    BY <2>8, <2>9 DEF OwnedInv
<1>6. QED
  BY <1>3, <1>4, <1>5 DEF EnterPlay, EnterStop

\* A start that is acknowledged has an owner: the watcher, or the call that stops it.
LEMMA StartsAreOwned ==
  ASSUME PriorityInv, OwnedInv, SoundStarts \/ CancelledStart
  PROVE  OwnedInv'
<1>1. /\ sound_lock # <<>> /\ Head(sound_lock).op = "play" /\ spc = "start" /\ Sounding
      /\ UNCHANGED <<interruption, temporary, suspended, abandoned>>
  BY DEF SoundStarts, CancelledStart, SoundHolder, player, claim
<1>2. interruption /\ temporary /\ suspended /\ token = 0 /\ watch = "none"
  BY <1>1 DEF PriorityInv, Priority, OwnedInv, WatcherInv
<1>3. CASE CancelledStart
  <2>1. /\ sound_lock' = sound_lock /\ spc' = "stop_new" /\ UNCHANGED <<token, watch>>
    BY <1>3 DEF CancelledStart, player
  <2>2. WatcherInv'
    BY <1>1, <2>1, WatcherWaits DEF OwnedInv, WatcherInv
  <2>3. OwnedSound'
    BY <1>1, <1>2, <2>1 DEF OwnedSound, Sounding
  <2>4. QED
    BY <2>2, <2>3 DEF OwnedInv
<1>4. CASE SoundStarts
  <2>1. /\ token' = Head(sound_lock).id /\ watch' = "polling" /\ sound_lock' = Tail(sound_lock)
    BY <1>4 DEF SoundStarts, LeaveSound
  <2>2. sound_lock \in Seq(SoundTasks) /\ PlaysAreNumbered(sound_lock)
    BY DEF PriorityInv, SoundTypes, Silent
  <2>3. Head(sound_lock) = sound_lock[1] /\ 1 \in 1..Len(sound_lock)
    BY <1>1, <2>2
  <2>4. token' # 0
    BY <1>1, <2>1, <2>2, <2>3 DEF PlaysAreNumbered
  <2>5. /\ Len(sound_lock') = Len(sound_lock) - 1 /\ Len(sound_lock) \in Nat
        /\ \A i \in 1..Len(sound_lock') : sound_lock'[i] = sound_lock[i + 1]
    BY <1>1, <2>1, <2>2
  <2>6. \A i \in 1..Len(sound_lock') : i + 1 \in 1..Len(sound_lock) /\ i + 1 # 1
    BY <2>5
  <2>7. \A i \in 1..Len(sound_lock') : sound_lock'[i].op # "finish"
    BY <1>2, <2>5, <2>6 DEF OwnedInv, WatcherInv
  <2>8. WatcherInv'
    BY <1>1, <2>4, <2>7 DEF OwnedInv, WatcherInv
  <2>9. OwnedSound'
    BY <1>1, <1>2, <2>1 DEF OwnedSound, Sounding
  <2>10. QED
    BY <2>8, <2>9 DEF OwnedInv
<1>5. QED
  BY <1>3, <1>4

\* The watcher waits for the lock only once its sound is silent, or given up.
LEMMA WatcherLetsGo ==
  ASSUME PriorityInv, OwnedInv, WatchEnds
  PROVE  OwnedInv'
<1>1. token # 0 /\ spc = "enter" /\ UNCHANGED <<spc, token>> /\ watch = "polling" /\ watch' = "waiting"
  BY DEF WatchEnds, OwnedInv, WatcherInv, PriorityInv, Priority
<1>2. abandoned \in BOOLEAN /\ (alsa = "sound" /\ ~abandoned => playing = token)
  BY <1>1 DEF OwnedInv, OwnedSound, WatcherInv
<1>3. abandoned' \in BOOLEAN /\ (alsa' = "sound" => abandoned')
  <2>1. CASE Silence(token) \/ Abandon(token)
    BY <1>2, <2>1, StoppedOrNot
  <2>2. CASE ~(alsa = "sound" /\ playing = token) /\ UNCHANGED <<alsa, playing, abandoned>>
    <3>1. alsa' = alsa /\ abandoned' = abandoned
      BY <2>2
    <3>2. QED
      BY <1>2, <2>2, <3>1
  <2>3. QED
    BY <2>1, <2>2 DEF WatchEnds, StopsOrNot
<1>4. WatcherInv'
  <2>1. sound_lock \in Seq(SoundTasks) /\ [op |-> "finish", id |-> token] \in SoundTasks
    BY DEF PriorityInv, SoundTypes, SoundTasks
  <2>2. sound_lock' = Append(sound_lock, [op |-> "finish", id |-> token])
    BY DEF WatchEnds
  <2>3. /\ Len(sound_lock') = Len(sound_lock) + 1 /\ Len(sound_lock) \in Nat
        /\ \A i \in 1..Len(sound_lock) : sound_lock'[i] = sound_lock[i]
    BY <2>1, <2>2, AppendProperties, LenProperties
  <2>4. \A i \in 1..Len(sound_lock) : sound_lock[i].op # "finish"
    BY <1>1 DEF OwnedInv, WatcherInv
  <2>5. \A i \in 1..Len(sound_lock') : i \in 1..Len(sound_lock) \/ i = Len(sound_lock) + 1
    BY <2>3
  <2>6. \A i \in 1..Len(sound_lock') : sound_lock'[i].op = "finish" => i = Len(sound_lock) + 1
    BY <2>3, <2>4, <2>5
  <2>7. \A i, j \in 1..Len(sound_lock') :
          sound_lock'[i].op = "finish" /\ sound_lock'[j].op = "finish" => i = j
    BY <2>6
  <2>8. QED
    BY <1>1, <1>3, <2>7 DEF WatcherInv
<1>5. OwnedSound'
  BY <1>3 DEF OwnedSound
<1>6. QED
  BY <1>4, <1>5 DEF OwnedInv

LEMMA OwnedStep ==
  ASSUME PriorityInv, OwnedInv, [Next]_vars
  PROVE  OwnedInv'
<1>1. CASE Next
  <2>1. CASE SoundTask
    <3>1. CASE Busy
      BY <3>1, FinishesLeaveNone, PlayLeavesSounds DEF Busy
    <3>2. QED
      BY <2>1, <3>1, NoSoundToLose, EntriesOwn, FinishesLeaveNone, PlayLeavesSounds, StartsAreOwned
         DEF SoundTask
  <2>2. CASE Cancellation
    BY <2>2, FinishesLeaveNone, PlayLeavesSounds, NoSoundToLose DEF Cancellation
  <2>3. CASE WatchEnds \/ Users
    BY <2>3, WatcherLetsGo, PlayLeavesSounds, RadioLeavesSounds DEF Users
  <2>4. QED
    BY <1>1, <2>1, <2>2, <2>3, RadioLeavesSounds DEF Next
<1>2. CASE UNCHANGED vars
  BY <1>2 DEF vars, player, claim, hub, OwnedInv, WatcherInv, OwnedSound
<1>3. QED
  BY <1>1, <1>2

LEMMA OwnedInvariant == Spec => []OwnedInv
<1>1. Init => OwnedInv
  <2>1. SUFFICES ASSUME Init PROVE OwnedInv
    OBVIOUS
  <2>2. abandoned = FALSE /\ watch = "none" /\ sound_lock = <<>> /\ alsa # "sound"
    BY <2>1 DEF Init
  <2>3. 1..Len(sound_lock) = {}
    BY <2>2
  <2>4. QED
    BY <2>2, <2>3 DEF OwnedInv, WatcherInv, OwnedSound
<1>2. PriorityInv /\ OwnedInv /\ [Next]_vars => OwnedInv'
  BY OwnedStep
<1>3. QED
  BY <1>1, <1>2, PriorityInvariant, PTL DEF Spec

\* A sound that is heard has priority and somebody who ends it, a cancelled start
\* included, unless a command failed or a caller was cancelled while stopping it.
THEOREM EverySoundIsOwned == Spec => []OwnedSound
<1>1. OwnedInv => OwnedSound
  BY DEF OwnedInv
<1>2. QED
  BY <1>1, OwnedInvariant, PTL

\* Every variable keeps its type, and the locks hold only tasks that exist.
THEOREM AudioTypes == Spec => []TypeOK
<1>1. PriorityInv /\ OwnedInv => TypeOK
  <2>1. SUFFICES ASSUME PriorityInv, OwnedInv PROVE TypeOK
    OBVIOUS
  <2>2. /\ sound_lock \in Seq(SoundTasks) /\ radio_lock \in Seq(RadioTasks)
        /\ DOMAIN sound_lock = 1..Len(sound_lock) /\ DOMAIN radio_lock = 1..Len(radio_lock)
    BY <2>1 DEF PriorityInv, SoundTypes, RadioTypes
  <2>3. \A i \in DOMAIN sound_lock : /\ sound_lock[i].op \in {"play", "stop", "finish"}
                                     /\ sound_lock[i].id \in 0..MaxSounds
    <3>1. \A i \in DOMAIN sound_lock : sound_lock[i] \in SoundTasks
      BY <2>2
    <3>2. QED
      BY <3>1 DEF SoundTasks
  <2>4. \A i \in DOMAIN radio_lock : IsRadioTask(radio_lock[i])
    <3>1. \A i \in DOMAIN radio_lock : radio_lock[i] \in RadioTasks
      BY <2>2
    <3>2. QED
      BY <3>1 DEF RadioTasks, IsRadioTask
  <2>5. {interruption, resume_radio, temporary, cancelled} \subseteq BOOLEAN
    BY <2>1 DEF PriorityInv, SoundTypes
  <2>6. {intent, suspended, expected, ffmpeg, wfresh, ended, retry} \subseteq BOOLEAN
    BY <2>1 DEF PriorityInv, RadioTypes
  <2>7. {token, old, playing} \subseteq 0..MaxSounds /\ {sounds, acts, faults} \subseteq Nat
    BY <2>1, AudioConstants DEF PriorityInv, SoundTypes, HubTypes, BoundTypes
  <2>8. /\ spc \in SoundSteps /\ watch \in {"none", "polling", "waiting"}
        /\ retried \in {"no", "idle", "start"} /\ override \in BOOLEAN
    BY <2>1 DEF PriorityInv, SoundTypes
  <2>9. /\ rpc \in RadioSteps /\ resolving \in {"none", "play_media", "media_play"}
        /\ wpc \in {"none", "run", "rebuild_gain", "rebuild_start", "rebuild_connect"}
        /\ orphans \in Nat
    BY <2>1 DEF PriorityInv, RadioTypes, Transports
  <2>10. /\ level \in {"media", "alert"} /\ alsa \in {"closed", "empty", "radio", "sound"}
         /\ accepted \in BOOLEAN /\ abandoned \in BOOLEAN
    BY <2>1 DEF PriorityInv, HubTypes, BoundTypes, OwnedInv, WatcherInv
  <2>11. QED
    BY <2>3, <2>4, <2>5, <2>6, <2>7, <2>8, <2>9, <2>10 DEF TypeOK
<1>2. QED
  BY <1>1, PriorityInvariant, OwnedInvariant, PTL

\* From the confirmed yield until the priority is given back no radio is heard.
THEOREM TheRadioYields == Spec => []RadioYields
<1>1. PriorityInv => RadioYields
  BY DEF PriorityInv, Silent, Yields, RadioYields
<1>2. QED
  BY <1>1, PriorityInvariant, PTL

\* A Stop of the user is not undone by a resume, a watchdog or a start in flight.
THEOREM AStopStands == Spec => []StopRespected
<1>1. PriorityInv => StopRespected
  <2>1. SUFFICES ASSUME PriorityInv PROVE StopRespected
    OBVIOUS
  <2>2. DOMAIN radio_lock = 1..Len(radio_lock)
    BY <2>1 DEF PriorityInv, RadioTypes
  <2>3. QED
    BY <2>1, <2>2 DEF PriorityInv, StopStands, HasStop, StopRespected
<1>2. QED
  BY <1>1, PriorityInvariant, PTL

\* The loudspeaker keeps its contract: the two players implement Speaker.
THEOREM ImplementsSpeaker == Spec => SpeakerSpec
<1>1. Init => Contract!Init
  BY PriorityInit
<1>2. PriorityInv /\ [Next]_vars => [Contract!Next]_<<Output, level>>
  BY PriorityStep DEF Stands, Speaks
<1>3. QED
  BY <1>1, <1>2, PriorityInvariant, PTL DEF Spec, SpeakerSpec, Contract!Spec
===============================================================================
