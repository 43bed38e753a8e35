------------------------- MODULE GroupControlProofs -------------------------
(***************************************************************************)
(* Theorems about GroupControl: its types, that a Stop that has returned   *)
(* stands, and that no hub is connected before its own radio player was    *)
(* suspended, for any number of hubs, stations, requests and faults.       *)
(*                                                                         *)
(* StoppedStays is not inductive: a Stop is newest long before it returns, *)
(* so Stops says from its first step on that it is in the queue and will   *)
(* tear the stream down, or has, and nobody builds one up.  For OneSource, *)
(* Players says who is held at every place a preparation, a gather or a    *)
(* restored station can be at.                                             *)
(***************************************************************************)
EXTENDS GroupControl, SequenceTheorems, WellFoundedInduction, TLAPS

Names == Stations \cup {"none"}
Stoppers == {"stop", "off"}
Requests == [op : Users \cup {"startup", "forced"},
             at : {"resolve", "suspend", "cancel", "lock", "remote", "release", "done",
                   "failed"},
             station : Names]
Owners == [op : Users \cup Background, n : Nat]
Quiets == {"enter", "quiet", "stop", "detach"}
Steps == Quiets \cup {"suspend", "prepare", "spawn", "giveup", "abandon"}
Wants == [desired : BOOLEAN, media : Names, url : Names,
          startup : {"no", "waiting", "expired"}, attempts : 0..WATCHDOG_MAX_RESTARTS]
Feeds == {"none", "spawning", "prebuffer", "prime", "on", "stalled"}
StreamRecords == [feed : Feeds, url : Names, intent : Nat, prime : Nat]
Waits == {"none", "sleep", "lock", "check"}
Tasks == [reconcile : {"no", "run", "dead"}, watchdog : Waits, slow : Waits,
          health : {"none", "watch", "lock"}]

\* A restart that was scheduled has an attempt left (_schedule_watchdog_restart).
RequestTypes == intent \in Nat /\ asked \in Seq(Requests) /\ intent = Len(asked)
QueueTypes ==
  /\ lock \in Seq(Owners) /\ step \in Steps /\ gather \subseteq Hubs
  /\ gather # {} => step = "suspend"
StreamTypes ==
  /\ want \in Wants /\ stream \in StreamRecords /\ tasks \in Tasks
  /\ tasks.watchdog = "sleep" => want.attempts < WATCHDOG_MAX_RESTARTS
HubTypes ==
  /\ selected \subseteq Hubs /\ able \subseteq Hubs
  /\ prep \in [Hubs -> {"no", "suspend", "connect", "up"}]
  /\ suspended \subseteq Hubs /\ held \subseteq Hubs /\ enabling \subseteq Hubs
  /\ faults \in Nat /\ late \in Nat
SwitchTypes == disabling \in [Hubs -> Nat] /\ overtaken \subseteq Hubs
Types == RequestTypes /\ QueueTypes /\ StreamTypes /\ HubTypes /\ SwitchTypes

\* Who waits for the lock or holds it is a task, or a request of that kind; a reset that
\* gave up waiting may still be in the queue.
Owns(owner) ==
  \/ owner.op \in Background /\ owner.n = 0
  \/ /\ owner.op \in Users /\ owner.n \in 1..Len(asked)
     /\ \/ asked[owner.n].op = owner.op
        \/ asked[owner.n].op = "forced" /\ owner.op = "off"
Places ==
  /\ lock = <<>> => step = "enter"
  /\ lock # <<>> /\ Head(lock).op \in Stoppers => step \in Quiets
LockInv == (\A owner \in Range(lock) : Owns(owner)) /\ Places

\* The program of a Stop or Off.
StopPlaces == {"cancel", "lock", "remote", "release", "done"}
Programs == \A n \in 1..Len(asked) : asked[n].op \in Stoppers => asked[n].at \in StopPlaces

\* Only what stops the group cleans up and gives players back.
Cleaners == \A n \in 1..Len(asked) :
  asked[n].at \in {"remote", "release"} => asked[n].op \in Stoppers \cup {"forced"}

\* A Stop that is the newest request: it is in the queue and will tear the stream down,
\* or it has, and nobody builds one up.
Newest == asked[intent]
Stopping == intent > 0 /\ Newest.op \in Stoppers
Stopper == Owner(Newest.op, intent)
Coming == Stopper \in Range(lock) /\ (Me = Stopper /\ step = "detach" => stream.feed = "none")
Gone ==
  stream.feed = "none" /\ (\A h \in Hubs : prep[h] = "no") /\ step \in Quiets
Stops ==
  Stopping => /\ ~want.desired
              /\ Newest.at = "cancel" => Stopper \notin Range(lock)
              /\ Newest.at = "lock" => Coming
              /\ Newest.at \in {"remote", "release", "done"} => Gone

\* Who is prepared is held, who is connected is noted; those the holder or a restored
\* station still waits for are held, also once they are switched on.  All but the hubs
\* whose switching off was overtaken.
Taken == held \cup overtaken
Prepared ==
  \A h \in Hubs : /\ prep[h] = "suspend" => h \in Taken
                  /\ prep[h] \in {"connect", "up"} => h \in suspended \cup overtaken
Gathered == gather \cap (selected \cup enabling) \subseteq Taken
Restored ==
  intent > 0 /\ Newest.op = "startup" =>
    enabling \subseteq Taken /\ (Newest.at = "suspend" => selected \subseteq Taken)
Off == \A h \in Hubs : prep[h] # "no" => h \in selected
Players ==
  /\ enabling \cap selected = {} /\ Off
  /\ Forced \/ (Prepared /\ Gathered /\ Restored)

QueueInv == RequestTypes /\ QueueTypes /\ LockInv /\ Programs

ControlInv == Types /\ LockInv /\ Programs /\ Cleaners /\ Stops /\ Players

-----------------------------------------------------------------------------
(* The queue for the lock.                                                 *)

\* A set of numbers has a least one; and so induction over the numbers of a set.
LEMMA Least ==
  ASSUME NEW S \in SUBSET Nat, S # {}
  PROVE  \E m \in S : \A n \in S : m <= n
<1> DEFINE R == OpToRel(<, Nat)
<1>1. IsWellFoundedOn(R, Nat)
  BY NatLessThanWellFounded
<1>2. \A a, b \in Nat : a < b => <<a, b>> \in R
  BY DEF OpToRel
<1> HIDE DEF R
<1>3. PICK m \in S : \A n \in S : ~(<<n, m>> \in R)
  BY <1>1, WFMin
<1>4. ASSUME NEW n \in S PROVE m <= n
  <2>1. m \in Nat /\ n \in Nat /\ ~(n < m)
    BY <1>2, <1>3
  <2>2. QED
    BY <2>1
<1>5. QED
  BY <1>4

LEMMA Induction ==
  ASSUME NEW S \in SUBSET Nat, 0 \in S, \A n \in S : n + 1 \in S
  PROVE  S = Nat
<1>1. SUFFICES ASSUME Nat \ S # {} PROVE FALSE
  OBVIOUS
<1>2. PICK m \in Nat \ S : \A n \in Nat \ S : m <= n
  BY <1>1, Least
<1>3. m - 1 \in Nat /\ m - 1 \in S
  BY <1>2
<1>4. QED
  BY <1>2, <1>3

\* What Without keeps of the first owners, up to the k-th.
Keeping(owners, kept, k) ==
  kept = [n \in 0..k |-> IF n = 0 THEN <<>>
                         ELSE IF lock[n] \in owners THEN kept[n - 1]
                                                    ELSE Append(kept[n - 1], lock[n])]

LEMMA KeepingExists ==
  ASSUME NEW owners
  PROVE  \A k \in Nat : \E kept : Keeping(owners, kept, k)
<1> DEFINE S == {k \in Nat : \E kept : Keeping(owners, kept, k)}
<1>1. 0 \in S
  <2>1. Keeping(owners, [n \in 0..0 |-> <<>>], 0)
    BY DEF Keeping
  <2>2. QED
    BY <2>1
<1>2. ASSUME NEW k \in S PROVE k + 1 \in S
  <2>1. PICK kept : Keeping(owners, kept, k)
    OBVIOUS
  <2> DEFINE last == IF lock[k+1] \in owners THEN kept[k] ELSE Append(kept[k], lock[k+1])
             next == [n \in 0..(k+1) |-> IF n = k+1 THEN last ELSE kept[n]]
  <2>2. ASSUME NEW n \in 0..(k+1)
        PROVE  next[n] = IF n = 0 THEN <<>>
                         ELSE IF lock[n] \in owners THEN next[n - 1]
                                                    ELSE Append(next[n - 1], lock[n])
    <3>1. CASE n = 0
      BY <2>1, <3>1 DEF Keeping
    <3>2. CASE n = k + 1
      <4>1. n # 0 /\ n - 1 = k /\ k \in 0..(k+1) /\ k # k + 1
        BY <3>2
      <4>2. next[n - 1] = kept[k] /\ next[n] = last
        BY <4>1, <3>2
      <4> HIDE DEF next
      <4>3. QED
        BY <4>1, <4>2, <3>2
    <3>3. CASE n \in 1..k
      <4>1. /\ n - 1 \in 0..(k+1) /\ n # k + 1 /\ n - 1 # k + 1 /\ n # 0 /\ n \in 0..k
        BY <3>3
      <4>2. next[n] = kept[n] /\ next[n - 1] = kept[n - 1]
        BY <4>1
      <4> HIDE DEF next
      <4>3. QED
        BY <4>1, <4>2, <2>1 DEF Keeping
    <3>4. QED
      BY <3>1, <3>2, <3>3
  <2>3. Keeping(owners, next, k + 1)
    BY <2>2 DEF Keeping
  <2>4. QED
    BY <2>3
<1>3. QED
  <2>1. S \in SUBSET Nat
    OBVIOUS
  <2> HIDE DEF S
  <2>2. S = Nat
    BY <1>1, <1>2, <2>1, Induction
  <2>3. QED
    BY <2>2 DEF S

\* What is left of the first n owners: some of them, all that are not cancelled, and the
\* first still first.
Left(rest, n, owners) ==
  /\ \A k \in 1..Len(rest) : \E i \in 1..n : rest[k] = lock[i]
  /\ \A i \in 1..n : lock[i] \notin owners => \E k \in 1..Len(rest) : rest[k] = lock[i]
  /\ n > 0 /\ lock[1] \notin owners => Len(rest) > 0 /\ rest[1] = lock[1]

LEMMA WithoutKeeps ==
  ASSUME lock \in Seq(Owners), NEW owners
  PROVE  Without(owners) \in Seq(Owners) /\ Left(Without(owners), Len(lock), owners)
<1> DEFINE kept == CHOOSE kept : Keeping(owners, kept, Len(lock))
           Good(n) == kept[n] \in Seq(Owners) /\ Left(kept[n], n, owners)
           S == {n \in Nat : n <= Len(lock) => Good(n)}
<1>1. Keeping(owners, kept, Len(lock))
  BY KeepingExists
<1>2. Without(owners) = kept[Len(lock)]
  BY DEF Without, Keeping
<1> HIDE DEF kept
<1>3. kept[0] = <<>>
  BY <1>1 DEF Keeping
<1>4. 0 \in S
  <2>1. Left(<<>>, 0, owners) /\ <<>> \in Seq(Owners)
    BY DEF Left
  <2>2. QED
    BY <1>3, <2>1
<1>5. ASSUME NEW n \in S PROVE n + 1 \in S
  <2>1. SUFFICES ASSUME n + 1 <= Len(lock) PROVE Good(n + 1)
    OBVIOUS
  <2>2. Left(kept[n], n, owners)
    BY <2>1
  <2>3. kept[n] \in Seq(Owners) /\ n + 1 \in 1..Len(lock) /\ n \in Nat /\ lock[n + 1] \in Owners
    BY <2>1
  <2>4. kept[n + 1] = IF lock[n + 1] \in owners THEN kept[n] ELSE Append(kept[n], lock[n + 1])
    <3>1. n + 1 \in 0..Len(lock) /\ n + 1 # 0 /\ (n + 1) - 1 = n
      BY <2>3
    <3>2. QED
      BY <1>1, <3>1 DEF Keeping
  <2>5. 1..n \subseteq 1..(n + 1) /\ \A i \in 1..(n + 1) : i \in 1..n \/ i = n + 1
    BY <2>3
  <2>6. CASE lock[n + 1] \in owners
    <3>1. Left(kept[n], n + 1, owners)
      <4>1. n + 1 > 0 /\ lock[1] \notin owners => n > 0
        BY <2>3, <2>6
      <4>2. QED
        BY <2>2, <2>5, <2>6, <4>1 DEF Left
    <3>2. QED
      BY <2>3, <2>4, <2>6, <3>1
  <2>7. CASE lock[n + 1] \notin owners
    <3> DEFINE rest == Append(kept[n], lock[n + 1])
               last == Len(kept[n])
    <3>1. /\ rest \in Seq(Owners) /\ Len(rest) = last + 1 /\ last \in Nat
          /\ \A k \in 1..last : rest[k] = (kept[n])[k]
          /\ rest[last + 1] = lock[n + 1]
      BY <2>3, AppendProperties, LenProperties
    <3> HIDE DEF rest, last
    <3>2. (\A k \in 1..Len(rest) : k \in 1..last \/ k = last + 1) /\ 1..last \subseteq 1..Len(rest)
          /\ last + 1 \in 1..Len(rest)
      BY <3>1
    <3>3. \A k \in 1..Len(rest) : \E i \in 1..(n + 1) : rest[k] = lock[i]
      BY <2>2, <2>3, <2>5, <3>1, <3>2 DEF Left, last
    <3>4. \A i \in 1..(n + 1) : lock[i] \notin owners => \E k \in 1..Len(rest) : rest[k] = lock[i]
      BY <2>2, <2>3, <2>5, <3>1, <3>2 DEF Left, last
    <3>5. lock[1] \notin owners => Len(rest) > 0 /\ rest[1] = lock[1]
      <4>1. CASE n = 0
        <5>1. last = 0
          BY <1>3, <4>1 DEF last
        <5>2. QED
          BY <3>1, <4>1, <5>1
      <4>2. CASE n > 0
        BY <2>2, <3>1, <4>2 DEF Left, last
      <4>3. QED
        BY <2>3, <4>1, <4>2
    <3>6. Left(rest, n + 1, owners)
      BY <3>3, <3>4, <3>5 DEF Left
    <3>7. QED
      BY <2>4, <2>7, <3>1, <3>6 DEF rest
  <2>8. QED
    BY <2>6, <2>7
<1>6. S = Nat
  <2>1. S \in SUBSET Nat
    OBVIOUS
  <2> HIDE DEF S
  <2>2. QED
    BY <1>4, <1>5, <2>1, Induction
<1>7. Good(Len(lock))
  <2>1. Len(lock) \in Nat /\ Len(lock) <= Len(lock)
    OBVIOUS
  <2>2. QED
    BY <1>6, <2>1
<1>8. QED
  BY <1>2, <1>7

\* A step that changes the queue leaves the holder where it is, or lets the next one in.
Moved ==
  \/ step' = "enter" /\ gather' = {}
  \/ UNCHANGED <<step, gather>> /\ (lock = <<>> \/ (lock' # <<>> /\ Me' = Me))

LEMMA QueueGrows ==
  ASSUME lock \in Seq(Owners), NEW owner \in Owners, Queue(owner)
  PROVE  lock' \in Seq(Owners) /\ Range(lock') = Range(lock) \cup {owner} /\ Moved
<1>1. /\ lock' \in Seq(Owners) /\ lock' # <<>> /\ Len(lock') = Len(lock) + 1
      /\ \A i \in 1..Len(lock) : lock'[i] = lock[i]
      /\ lock'[Len(lock) + 1] = owner
  BY AppendProperties DEF Queue
<1>2. DOMAIN lock = 1..Len(lock) /\ DOMAIN lock' = 1..Len(lock') /\ Len(lock) \in Nat
  BY <1>1, LenProperties
<1>3. Range(lock') = Range(lock) \cup {owner}
  <2>1. 1..(Len(lock) + 1) = 1..Len(lock) \cup {Len(lock) + 1}
    BY <1>2
  <2>2. QED
    BY <1>1, <1>2, <2>1 DEF Range
<1>4. lock # <<>> => Me' = Me
  <2>1. lock # <<>> => 1 \in 1..Len(lock)
    BY <1>2
  <2>2. QED
    BY <1>1, <2>1 DEF Me
<1>5. UNCHANGED <<step, gather>>
  BY DEF Queue
<1>6. Moved
  BY <1>1, <1>4, <1>5 DEF Moved
<1>7. QED
  BY <1>1, <1>3, <1>6

LEMMA QueueShrinks ==
  ASSUME lock \in Seq(Owners), lock # <<>>, Release
  PROVE  /\ lock' \in Seq(Owners) /\ Range(lock') \subseteq Range(lock) /\ Moved
         /\ Range(lock) \subseteq Range(lock') \cup {Me} /\ Me \in Range(lock)
         /\ Me \in Owners
<1>1. /\ lock' \in Seq(Owners) /\ Len(lock') = Len(lock) - 1 /\ Me = lock[1] /\ Me \in Owners
      /\ \A i \in 1..Len(lock') : lock'[i] = lock[i + 1]
  BY HeadTailProperties DEF Release, Me
<1>2. /\ DOMAIN lock = 1..Len(lock) /\ DOMAIN lock' = 1..Len(lock') /\ Len(lock) \in Nat
      /\ 1 \in 1..Len(lock) /\ Len(lock') \in Nat
  BY <1>1, LenProperties
<1>3. ASSUME NEW i \in 1..Len(lock') PROVE lock'[i] \in Range(lock)
  <2>1. i + 1 \in 1..Len(lock)
    BY <1>1, <1>2
  <2>2. QED
    BY <1>1, <1>2, <2>1 DEF Range
<1>4. ASSUME NEW i \in 1..Len(lock) PROVE lock[i] \in Range(lock') \cup {Me}
  <2>1. CASE i = 1
    BY <1>1, <2>1
  <2>2. CASE i # 1
    <3>1. i - 1 \in 1..Len(lock') /\ (i - 1) + 1 = i
      BY <1>1, <1>2, <2>2
    <3>2. lock'[i - 1] = lock[i]
      BY <1>1, <3>1
    <3>3. QED
      BY <1>2, <3>1, <3>2 DEF Range
  <2>3. QED
    BY <2>1, <2>2
<1>5. QED
  BY <1>1, <1>2, <1>3, <1>4 DEF Range, Release, Moved

LEMMA QueueLoses ==
  ASSUME lock \in Seq(Owners), NEW owners, NEW newcomer \in Seq(Owners),
         Interrupt(owners, newcomer)
  PROVE  /\ lock' \in Seq(Owners) /\ Moved
         /\ Range(lock') \subseteq Range(lock) \cup Range(newcomer)
         /\ Range(newcomer) \subseteq Range(lock')
         /\ \A owner \in Range(lock) : owner \notin owners => owner \in Range(lock')
<1>1. PICK on \in {FALSE, lock # <<>> /\ Me \in owners /\ step = "detach"} :
        /\ lock' = (IF on THEN <<Me>> ELSE <<>>) \o Without(owners) \o newcomer
        /\ IF lock # <<>> /\ Me \in owners /\ ~on
             THEN step' = "enter" /\ gather' = {} ELSE UNCHANGED <<step, gather>>
  BY DEF Interrupt
<1> DEFINE first == IF on THEN <<Me>> ELSE <<>>
           rest == first \o Without(owners)
<1>2. Without(owners) \in Seq(Owners) /\ Left(Without(owners), Len(lock), owners)
  BY WithoutKeeps
<1>3. lock # <<>> => Me = lock[1] /\ Me \in Owners /\ Len(lock) > 0
  BY DEF Me
<1>4. on => lock # <<>> /\ Me \in owners
  BY <1>1
<1>5. first \in Seq(Owners) /\ (on => Len(first) = 1 /\ first[1] = Me) /\ (~on => Len(first) = 0)
  BY <1>3, <1>4
<1>6. /\ rest \in Seq(Owners) /\ Len(rest) = Len(first) + Len(Without(owners))
      /\ \A i \in 1..(Len(first) + Len(Without(owners))) :
           rest[i] = IF i <= Len(first) THEN first[i] ELSE Without(owners)[i - Len(first)]
  <2> HIDE DEF first
  <2>1. QED
    BY <1>2, <1>5, ConcatProperties
<1>7. lock' = rest \o newcomer
  BY <1>1
<1>8. /\ lock' \in Seq(Owners) /\ Len(lock') = Len(rest) + Len(newcomer)
      /\ \A i \in 1..(Len(rest) + Len(newcomer)) :
           lock'[i] = IF i <= Len(rest) THEN rest[i] ELSE newcomer[i - Len(rest)]
  <2>1. rest \in Seq(Owners)
    BY <1>6
  <2> HIDE DEF rest
  <2>2. QED
    BY <1>7, <2>1, ConcatProperties
<1> DEFINE W == Without(owners)
<1>9. /\ Len(first) \in Nat /\ Len(W) \in Nat /\ Len(rest) \in Nat /\ Len(newcomer) \in Nat
      /\ Len(lock) \in Nat /\ DOMAIN lock = 1..Len(lock) /\ DOMAIN lock' = 1..Len(lock')
      /\ DOMAIN newcomer = 1..Len(newcomer)
  BY <1>2, <1>5, <1>6, <1>8, LenProperties
<1> HIDE DEF first, rest, W
<1>10. ASSUME NEW i \in 1..Len(rest) PROVE rest[i] \in Range(lock)
  <2>1. CASE i <= Len(first)
    <3>1. rest[i] = first[i] /\ on /\ i = 1 /\ 1 \in 1..Len(lock)
      BY <1>3, <1>4, <1>5, <1>6, <1>9, <2>1 DEF W
    <3>2. QED
      BY <1>3, <1>4, <1>5, <1>9, <3>1 DEF Range
  <2>2. CASE ~(i <= Len(first))
    <3>1. rest[i] = W[i - Len(first)] /\ i - Len(first) \in 1..Len(W)
      BY <1>6, <1>9, <2>2 DEF W
    <3>2. PICK j \in 1..Len(lock) : W[i - Len(first)] = lock[j]
      BY <1>2, <3>1 DEF Left, W
    <3>3. QED
      BY <1>9, <3>1, <3>2 DEF Range
  <2>3. QED
    BY <2>1, <2>2
<1>11. Range(lock') \subseteq Range(lock) \cup Range(newcomer)
  <2>1. SUFFICES ASSUME NEW i \in 1..Len(lock')
                 PROVE  lock'[i] \in Range(lock) \cup Range(newcomer)
    BY <1>9 DEF Range
  <2>2. CASE i <= Len(rest)
    BY <1>8, <1>9, <1>10, <2>2
  <2>3. CASE ~(i <= Len(rest))
    <3>1. lock'[i] = newcomer[i - Len(rest)] /\ i - Len(rest) \in 1..Len(newcomer)
      BY <1>8, <1>9, <2>3
    <3>2. QED
      BY <1>9, <3>1 DEF Range
  <2>4. QED
    BY <2>2, <2>3
<1>12. Range(newcomer) \subseteq Range(lock')
  <2>1. SUFFICES ASSUME NEW i \in 1..Len(newcomer) PROVE newcomer[i] \in Range(lock')
    BY <1>9 DEF Range
  <2>2. Len(rest) + i \in 1..Len(lock') /\ ~(Len(rest) + i <= Len(rest))
        /\ (Len(rest) + i) - Len(rest) = i
    BY <1>8, <1>9
  <2>3. lock'[Len(rest) + i] = newcomer[i]
    BY <1>8, <2>2
  <2>4. QED
    BY <1>9, <2>2, <2>3 DEF Range
<1>13. ASSUME NEW i \in 1..Len(lock), lock[i] \notin owners PROVE lock[i] \in Range(lock')
  <2>1. PICK k \in 1..Len(W) : W[k] = lock[i]
    BY <1>2, <1>13 DEF Left, W
  <2>2. /\ Len(first) + k \in 1..Len(rest) /\ ~(Len(first) + k <= Len(first))
        /\ (Len(first) + k) - Len(first) = k /\ Len(first) + k \in 1..Len(lock')
    BY <1>6, <1>8, <1>9 DEF W
  <2>3. rest[Len(first) + k] = W[k]
    BY <1>6, <2>2 DEF W
  <2>4. lock'[Len(first) + k] = lock[i]
    BY <1>8, <1>9, <2>1, <2>2, <2>3
  <2>5. QED
    BY <1>9, <2>2, <2>4 DEF Range
<1>14. Moved
  <2>1. CASE lock = <<>>
    <3>1. UNCHANGED <<step, gather>>
      BY <1>1, <2>1
    <3>2. QED
      BY <2>1, <3>1 DEF Moved
  <2>2. CASE lock # <<>> /\ Me \in owners /\ ~on
    BY <1>1, <2>2 DEF Moved
  <2>3. CASE lock # <<>> /\ (on \/ Me \notin owners)
    <3>1. Len(rest) > 0 /\ rest[1] = Me
      <4>1. CASE on
        <5>1. Len(first) = 1 /\ Len(rest) = Len(first) + Len(W)
          BY <1>5, <1>6, <4>1 DEF W
        <5>2. 1 \in 1..Len(rest) /\ 1 <= Len(first)
          BY <1>9, <5>1
        <5>3. QED
          BY <1>5, <1>6, <1>9, <4>1, <5>1, <5>2 DEF W
      <4>2. CASE ~on /\ Me \notin owners
        <5>1. Len(W) > 0 /\ W[1] = Me
          BY <1>2, <1>3, <2>3, <4>2 DEF Left, W
        <5>2. Len(first) = 0 /\ Len(rest) = Len(W) /\ 1 \in 1..Len(rest) /\ 1 - 0 = 1
          BY <1>5, <1>6, <1>9, <4>2, <5>1 DEF W
        <5>3. rest[1] = W[1]
          BY <1>6, <1>9, <5>2 DEF W
        <5>4. QED
          BY <5>1, <5>2, <5>3
      <4>3. QED
        BY <2>3, <4>1, <4>2
    <3>2. Len(lock') > 0 /\ lock'[1] = Me
      BY <1>8, <1>9, <3>1
    <3>3. lock' # <<>> /\ Me' = Me
      BY <1>8, <3>2 DEF Me
    <3>4. UNCHANGED <<step, gather>>
      BY <1>1, <2>3
    <3>5. QED
      BY <3>3, <3>4 DEF Moved
  <2>4. QED
    BY <2>1, <2>2, <2>3
<1>15. QED
  BY <1>8, <1>9, <1>11, <1>12, <1>13, <1>14 DEF Range

-----------------------------------------------------------------------------
(* Requests.                                                               *)

Ats == {"resolve", "suspend", "cancel", "lock", "remote", "release", "done", "failed"}

\* A step adds requests and keeps what they are, but for a reset that gives up the lock.
SameOps ==
  /\ Len(asked) <= Len(asked')
  /\ \A n \in 1..Len(asked) :
       \/ asked'[n].op = asked[n].op
       \/ asked[n].op = "off" /\ asked'[n].op = "forced"

LEMMA OwnsStay ==
  ASSUME RequestTypes, asked' \in Seq(Requests), SameOps, NEW owner, Owns(owner)
  PROVE  Owns(owner)'
<1>1. Len(asked) \in Nat /\ Len(asked') \in Nat
  OBVIOUS
<1>2. CASE owner.op \in Background /\ owner.n = 0
  BY <1>2 DEF Owns
<1>3. CASE owner.op \in Users /\ owner.n \in 1..Len(asked)
  <2>1. owner.n \in 1..Len(asked')
    BY <1>1, <1>3 DEF SameOps
  <2>2. asked[owner.n].op = owner.op \/ (asked[owner.n].op = "forced" /\ owner.op = "off")
    BY <1>3 DEF Owns, Users, Background
  <2>3. asked'[owner.n].op = owner.op \/ (asked'[owner.n].op = "forced" /\ owner.op = "off")
    BY <1>3, <2>2 DEF SameOps
  <2>4. QED
    BY <1>3, <2>1, <2>3 DEF Owns
<1>4. QED
  BY <1>2, <1>3 DEF Owns

LEMMA ForcedStays ==
  ASSUME RequestTypes, asked' \in Seq(Requests), SameOps, Forced
  PROVE  Forced'
<1>1. Len(asked) \in Nat /\ Len(asked') \in Nat
  OBVIOUS
<1>2. DOMAIN asked = 1..Len(asked) /\ DOMAIN asked' = 1..Len(asked')
  BY LenProperties DEF RequestTypes
<1>3. PICK n \in 1..Len(asked) : asked[n].op = "forced"
  BY <1>2 DEF Forced
<1>4. n \in 1..Len(asked') /\ asked'[n].op = "forced"
  BY <1>1, <1>3 DEF SameOps
<1>5. QED
  BY <1>2, <1>4 DEF Forced

\* The request that is added is the newest one.
Adds(requests, request) ==
  /\ intent' = intent + 1 /\ asked' = Append(requests, request)

LEMMA RequestsGrow ==
  ASSUME RequestTypes, NEW requests \in Seq(Requests), Len(requests) = Len(asked),
         \A n \in 1..Len(asked) : requests[n].op = asked[n].op,
         NEW request \in Requests, Adds(requests, request)
  PROVE  /\ RequestTypes' /\ SameOps /\ intent' > 0 /\ asked'[intent'] = request
         /\ Len(asked') = Len(asked) + 1
         /\ \A n \in 1..Len(asked) : asked'[n] = requests[n]
<1>1. /\ asked' \in Seq(Requests) /\ Len(asked') = Len(requests) + 1
      /\ \A n \in 1..Len(requests) : asked'[n] = requests[n]
      /\ asked'[Len(requests) + 1] = request
  BY AppendProperties DEF Adds
<1>2. Len(asked) \in Nat /\ intent = Len(asked)
  BY DEF RequestTypes
<1>3. RequestTypes'
  BY <1>1, <1>2 DEF RequestTypes, Adds
<1>4. SameOps
  BY <1>1, <1>2 DEF SameOps
<1>5. QED
  BY <1>1, <1>2, <1>3, <1>4 DEF Adds

\* A request goes on to another place of its program.
Goes(requests, n, place) == requests = [asked EXCEPT ![n].at = place]

LEMMA RequestGoes ==
  ASSUME asked \in Seq(Requests), NEW n \in 1..Len(asked), NEW place \in Ats,
         NEW requests, Goes(requests, n, place)
  PROVE  /\ requests \in Seq(Requests) /\ Len(requests) = Len(asked)
         /\ requests[n].at = place
         /\ \A i \in 1..Len(asked) : /\ requests[i].op = asked[i].op
                                     /\ requests[i].station = asked[i].station
                                     /\ i # n => requests[i] = asked[i]
<1>1. /\ asked \in [1..Len(asked) -> Requests] /\ DOMAIN asked = 1..Len(asked)
      /\ Len(asked) \in Nat
  BY LenProperties
<1>2. requests = [i \in 1..Len(asked) |-> IF i = n THEN [asked[n] EXCEPT !.at = place]
                                                    ELSE asked[i]]
  BY <1>1 DEF Goes
<1>3. [asked[n] EXCEPT !.at = place] \in Requests
  BY <1>1 DEF Requests, Ats
<1>4. requests \in [1..Len(asked) -> Requests]
  BY <1>1, <1>2, <1>3
<1>5. requests \in Seq(Requests) /\ Len(requests) = Len(asked)
  BY <1>1, <1>4
<1>6. requests[n].at = place
  BY <1>1, <1>2 DEF Requests
<1>7. ASSUME NEW i \in 1..Len(asked)
      PROVE  /\ requests[i].op = asked[i].op /\ requests[i].station = asked[i].station
             /\ i # n => requests[i] = asked[i]
  <2>1. CASE i = n
    BY <1>1, <1>2, <2>1 DEF Requests
  <2>2. CASE i # n
    BY <1>2, <2>2
  <2>3. QED
    BY <2>1, <2>2
<1>8. QED
  BY <1>5, <1>6, <1>7

LEMMA RequestWent ==
  ASSUME RequestTypes, UNCHANGED intent, NEW n \in 1..Len(asked), NEW place \in Ats,
         GoTo(n, place)
  PROVE  /\ RequestTypes' /\ SameOps /\ Len(asked') = Len(asked)
         /\ asked'[n].at = place
         /\ \A i \in 1..Len(asked) : asked'[i].op = asked[i].op /\ (i # n => asked'[i] = asked[i])
<1>1. /\ asked' \in Seq(Requests) /\ Len(asked') = Len(asked) /\ asked'[n].at = place
      /\ \A i \in 1..Len(asked) : asked'[i].op = asked[i].op /\ (i # n => asked'[i] = asked[i])
  <2>1. Goes(asked', n, place)
    BY DEF Goes, GoTo
  <2>2. QED
    BY <2>1, RequestGoes DEF RequestTypes
<1>2. Len(asked) \in Nat
  BY DEF RequestTypes
<1>3. QED
  BY <1>1, <1>2 DEF RequestTypes, SameOps

\* The holder has returned, and the request it was for has ended or goes on.
Returned(place) ==
  /\ asked' \in Seq(Requests) /\ Len(asked') = Len(asked) /\ SameOps
  /\ Owns(Me) /\ Me \in Owners /\ Me \in Range(lock)
  /\ Me.op \in Users => Me.n \in 1..Len(asked) /\ asked'[Me.n].at = place
  /\ \A i \in 1..Len(asked) : /\ asked'[i].op = asked[i].op
                              /\ Me.op \in Background \/ i # Me.n => asked'[i] = asked[i]

LEMMA HolderReturns ==
  ASSUME RequestTypes, QueueTypes, LockInv, lock # <<>>, NEW place \in Ats, Finish(place)
  PROVE  /\ Returned(place) /\ step' = "enter" /\ gather' = {} /\ Moved
         /\ lock' \in Seq(Owners) /\ Range(lock') \subseteq Range(lock)
         /\ Range(lock) \subseteq Range(lock') \cup {Me}
<1>1. /\ lock' \in Seq(Owners) /\ Range(lock') \subseteq Range(lock) /\ Moved
      /\ Range(lock) \subseteq Range(lock') \cup {Me} /\ Me \in Range(lock) /\ Me \in Owners
  BY QueueShrinks DEF Finish, QueueTypes
<1>2. Owns(Me)
  BY <1>1 DEF LockInv
<1>3. Len(asked) \in Nat
  BY DEF RequestTypes
<1>4. Returned(place)
  <2>1. CASE Me.op \in Background
    <3>1. Me.n = 0 /\ Me.op \notin Users
      BY <1>2, <2>1 DEF Owns, Users, Background
    <3>2. UNCHANGED asked
      BY <3>1 DEF Finish
    <3>3. QED
      BY <1>1, <1>2, <1>3, <2>1, <3>1, <3>2 DEF Returned, SameOps, RequestTypes
  <2>2. CASE Me.op \in Users
    <3>1. Me.n \in 1..Len(asked) /\ Me.n # 0 /\ Me.op \notin Background
      BY <1>2, <1>3, <2>2 DEF Owns, Users, Background
    <3>2. Goes(asked', Me.n, place)
      BY <3>1 DEF Finish, GoTo, Goes
    <3>3. /\ asked' \in Seq(Requests) /\ Len(asked') = Len(asked) /\ asked'[Me.n].at = place
          /\ \A i \in 1..Len(asked) : asked'[i].op = asked[i].op
                                      /\ (i # Me.n => asked'[i] = asked[i])
      BY <3>1, <3>2, RequestGoes DEF RequestTypes
    <3>4. QED
      BY <1>1, <1>2, <1>3, <2>2, <3>1, <3>3 DEF Returned, SameOps
  <2>3. QED
    BY <1>1, <2>1, <2>2 DEF Owners
<1>5. QED
  BY <1>1, <1>4 DEF Finish, Release

-----------------------------------------------------------------------------
(* The types of what the manager remembers.                                *)

LEMMA LimitIsNat == WATCHDOG_MAX_RESTARTS \in Nat /\ WATCHDOG_MAX_RESTARTS > 0
BY DEF WATCHDOG_MAX_RESTARTS

\* A restart is scheduled with an attempt left.
Spare(t, w) == t.watchdog = "sleep" => w.attempts < WATCHDOG_MAX_RESTARTS

LEMMA SchedulesWell ==
  ASSUME want \in Wants, NEW t \in Tasks, Spare(t, want)
  PROVE  Scheduled(t) \in Tasks /\ Spare(Scheduled(t), want)
<1>1. CASE ~want.desired \/ want.url = "none" \/ t.watchdog # "none"
  BY <1>1 DEF Scheduled
<1>2. CASE ~(~want.desired \/ want.url = "none" \/ t.watchdog # "none")
  <2>1. CASE want.attempts < WATCHDOG_MAX_RESTARTS
    <3>1. Scheduled(t) = [t EXCEPT !.watchdog = "sleep"]
      BY <1>2, <2>1 DEF Scheduled
    <3>2. QED
      BY <2>1, <3>1 DEF Tasks, Waits, Spare
  <2>2. CASE ~(want.attempts < WATCHDOG_MAX_RESTARTS)
    <3>1. Scheduled(t) = [t EXCEPT !.slow = IF @ = "none" THEN "sleep" ELSE @]
      BY <1>2, <2>2 DEF Scheduled
    <3>2. QED
      BY <1>2, <3>1 DEF Tasks, Waits, Spare
  <2>3. QED
    BY <2>1, <2>2
<1>3. QED
  BY <1>1, <1>2

LEMMA EndsWell ==
  ASSUME NEW t \in Tasks, NEW op
  PROVE  /\ Ended(t, op) \in Tasks
         /\ Ended(t, op).watchdog = "sleep" => t.watchdog = "sleep"
BY DEF Ended, Tasks, Waits

LEMMA UnspawnedType ==
  ASSUME NEW s \in StreamRecords PROVE Unspawned(s) \in StreamRecords
BY DEF Unspawned, StreamRecords, NoStream, Names, Feeds

LEMMA NoStreamType == NoStream \in StreamRecords
BY DEF NoStream, StreamRecords, Names, Feeds

LEMMA SpawningType ==
  ASSUME want \in Wants
  PROVE  [NoStream EXCEPT !.feed = "spawning", !.url = want.url] \in StreamRecords
<1>1. want.url \in Names
  BY DEF Wants
<1>2. QED
  BY <1>1, NoStreamType DEF StreamRecords, Feeds

\* What these lemmas need of a step to keep StreamTypes.
StreamTypesOf(w, s, t) == w \in Wants /\ s \in StreamRecords /\ t \in Tasks /\ Spare(t, w)

LEMMA StreamTypesAre == StreamTypes <=> StreamTypesOf(want, stream, tasks)
BY DEF StreamTypes, StreamTypesOf, Spare

LEMMA RequestType ==
  ASSUME RequestTypes, NEW n \in DOMAIN asked
  PROVE  asked[n] \in Requests /\ asked[n].station \in Names /\ n \in 1..Len(asked)
<1>1. DOMAIN asked = 1..Len(asked) /\ asked \in [1..Len(asked) -> Requests]
  BY LenProperties DEF RequestTypes
<1>2. QED
  BY <1>1 DEF Requests

LEMMA StreamTypesKept ==
  ASSUME RequestTypes, QueueTypes, StreamTypes, LockInv, [Next]_vars
  PROVE  StreamTypes'
<1> USE LimitIsNat
<1> SUFFICES StreamTypesOf(want', stream', tasks')
  BY DEF StreamTypes, StreamTypesOf, Spare
<1>0. StreamTypesOf(want, stream, tasks)
  BY StreamTypesAre
<1>1. CASE UNCHANGED <<want, stream, tasks>>
  BY <1>0, <1>1 DEF StreamTypesOf, Spare
<1>2. ASSUME NEW n \in DOMAIN asked, Resolved(n) PROVE StreamTypesOf(want', stream', tasks')
  BY <1>0, <1>2, RequestType DEF Resolved, StreamTypesOf, Spare, Wants
<1>3. ASSUME NEW n \in DOMAIN asked, ResolveFails(n) PROVE StreamTypesOf(want', stream', tasks')
  BY <1>0, <1>3, SchedulesWell DEF ResolveFails, StreamTypesOf
<1>4. ASSUME NEW n \in DOMAIN asked, Restore(n) PROVE StreamTypesOf(want', stream', tasks')
  BY <1>0, <1>4, RequestType DEF Restore, StreamTypesOf, Spare, Wants
<1>5. ASSUME NEW n \in DOMAIN asked, RestoreSuspends(n)
      PROVE  StreamTypesOf(want', stream', tasks')
  BY <1>0, <1>5 DEF RestoreSuspends, StreamTypesOf, Spare, Tasks
<1>6. CASE StartupExpires
  BY <1>0, <1>6 DEF StartupExpires, StreamTypesOf, Spare, Wants
<1>7. CASE Stop
  <2>1. want' \in Wants /\ want'.attempts = want.attempts
    BY <1>0, <1>7 DEF Stop, Halted, StreamTypesOf, Wants
  <2>2. stream' \in StreamRecords
    BY <1>0, <1>7, UnspawnedType DEF Stop, StreamTypesOf
  <2>3. tasks' \in Tasks /\ tasks'.watchdog = tasks.watchdog
    BY <1>0, <1>7 DEF Stop, StreamTypesOf, Tasks
  <2>4. QED
    BY <1>0, <2>1, <2>2, <2>3 DEF StreamTypesOf, Spare
<1>8. ASSUME NEW requests, NEW owners, Reset(requests, owners)
      PROVE  StreamTypesOf(want', stream', tasks')
  <2>1. want' \in Wants /\ want'.attempts = 0
    <3>1. Halted(want) \in Wants
      BY <1>0 DEF Halted, StreamTypesOf, Wants
    <3>2. want' = [Halted(want) EXCEPT !.attempts = 0]
      BY <1>8 DEF Reset
    <3>3. QED
      BY <3>1, <3>2 DEF Wants
  <2>2. [stream EXCEPT !.feed = "stalled"] \in StreamRecords
    BY <1>0 DEF StreamTypesOf, StreamRecords, Feeds
  <2>3. stream' \in StreamRecords
    BY <1>0, <1>8, <2>2, UnspawnedType DEF Reset, StreamTypesOf
  <2>4. tasks' \in Tasks
    BY <1>0, <1>8 DEF Reset, StreamTypesOf, Tasks
  <2>5. QED
    BY <2>1, <2>3, <2>4 DEF StreamTypesOf, Spare
<1>9. ASSUME NEW n \in DOMAIN asked, CancelRecovery(n)
      PROVE  StreamTypesOf(want', stream', tasks')
  <2>1. tasks' \in Tasks /\ tasks'.watchdog = "none"
    BY <1>0, <1>9 DEF CancelRecovery, StreamTypesOf, Tasks, Waits
  <2>2. stream' \in StreamRecords /\ UNCHANGED want
    BY <1>0, <1>9, UnspawnedType DEF CancelRecovery, StreamTypesOf
  <2>3. QED
    BY <1>0, <2>1, <2>2 DEF StreamTypesOf, Spare
<1>10. ASSUME NEW n \in DOMAIN asked, ResetTimesOut(n)
       PROVE  StreamTypesOf(want', stream', tasks')
  BY <1>0, <1>10, NoStreamType DEF ResetTimesOut, StreamTypesOf, Tasks, Waits, Spare
<1>11. CASE PlayEnters
  <2>1. CASE ~IsCurrent(Me.n)
    BY <1>0, <1>11, <2>1 DEF PlayEnters, Discard, StreamTypesOf, Spare
  <2>2. CASE IsCurrent(Me.n)
    <3>1. Me.n \in DOMAIN asked
      <4>1. Me \in Range(lock) /\ Me.op = "play"
        BY <1>11, LenProperties, HeadTailProperties DEF PlayEnters, Holds, Me, Range, QueueTypes
      <4>2. QED
        BY <4>1, LenProperties DEF LockInv, Owns, Users, Background, RequestTypes
    <3>2. asked[Me.n].station \in Names
      BY <3>1, RequestType
    <3>3. NoStartup(want) \in Wants
      BY <1>0 DEF NoStartup, StreamTypesOf, Wants
    <3>4. /\ want' = [NoStartup(want) EXCEPT !.desired = TRUE, !.attempts = 0,
                        !.media = asked[Me.n].station, !.url = asked[Me.n].station]
          /\ UNCHANGED <<stream, tasks>>
      BY <1>11, <2>2 DEF PlayEnters
    <3>5. want' \in Wants /\ want'.attempts = 0
      <4>1. PICK w \in Wants : w = NoStartup(want)
        BY <3>3
      <4>2. PICK station \in Names : station = asked[Me.n].station
        BY <3>2
      <4>3. want' = [w EXCEPT !.desired = TRUE, !.attempts = 0, !.media = station,
                              !.url = station]
        BY <3>4, <4>1, <4>2
      <4>4. w.startup \in {"no", "waiting", "expired"} /\ 0 \in 0..WATCHDOG_MAX_RESTARTS
        BY DEF Wants
      <4>5. want' = [desired |-> TRUE, media |-> station, url |-> station,
                     startup |-> w.startup, attempts |-> 0]
        BY <4>3 DEF Wants
      <4>6. QED
        BY <4>4, <4>5 DEF Wants
    <3>6. QED
      BY <1>0, <3>4, <3>5 DEF StreamTypesOf, Spare
  <2>3. QED
    BY <2>1, <2>2
<1>12. CASE ResumeEnters
  <2>1. CASE ~IsCurrent(Me.n)
    BY <1>0, <1>12, <2>1 DEF ResumeEnters, Discard, StreamTypesOf, Spare
  <2>2. CASE IsCurrent(Me.n)
    <3>1. want' \in Wants /\ want'.attempts = want.attempts
      BY <1>0, <1>12, <2>2 DEF ResumeEnters, NoStartup, StreamTypesOf, Wants
    <3>2. stream' \in StreamRecords
      BY <1>0, <1>12, <2>2 DEF ResumeEnters, StreamTypesOf, StreamRecords, RequestTypes
    <3>3. tasks' = Ended(tasks, "resume") \/ UNCHANGED tasks
      BY <1>12, <2>2 DEF ResumeEnters
    <3>4. QED
      BY <1>0, <3>1, <3>2, <3>3, EndsWell DEF StreamTypesOf, Spare
  <2>3. QED
    BY <2>1, <2>2
<1>13. CASE ReconcileEnters
  BY <1>0, <1>13, SpawningType DEF ReconcileEnters, Discard, StreamTypesOf, Spare
<1>14. CASE StopStream
  <2>1. tasks' \in Tasks /\ tasks'.watchdog = tasks.watchdog
    BY <1>0, <1>14 DEF StopStream, StreamTypesOf, Tasks
  <2>2. QED
    BY <1>0, <1>14, <2>1, NoStreamType DEF StopStream, StreamTypesOf, Spare
<1>15. CASE Restarts
  BY <1>0, <1>15, EndsWell DEF Restarts, StreamTypesOf, Spare
<1>16. CASE CohortReady
  BY <1>0, <1>16, EndsWell, SpawningType DEF CohortReady, StreamTypesOf, Spare
<1>17. CASE CohortMissing
  BY <1>0, <1>17, EndsWell DEF CohortMissing, StreamTypesOf, Spare
<1>18. CASE ResyncAbandoned
  BY <1>0, <1>18, EndsWell DEF ResyncAbandoned, StreamTypesOf, Spare
<1>19. CASE Spawned
  <2>1. stream' \in StreamRecords
    BY <1>0, <1>19 DEF Spawned, StreamTypesOf, StreamRecords, Feeds, RequestTypes
  <2>2. /\ tasks' \in Tasks
        /\ tasks'.watchdog = "sleep" => tasks.watchdog = "sleep"
    BY <1>0, <1>19, EndsWell DEF Spawned, StreamTypesOf, Tasks
  <2>3. want' \in Wants /\ want'.attempts = want.attempts
    BY <1>0, <1>19 DEF Spawned, NoStartup, StreamTypesOf, Wants
  <2>4. QED
    BY <1>0, <2>1, <2>2, <2>3 DEF StreamTypesOf, Spare
<1>20. CASE SpawnFails
  <2>1. UNCHANGED want /\ stream' = NoStream
    BY <1>20 DEF SpawnFails
  <2>2. CASE Me.op \in {"watchdog", "health"}
    <3>1. [tasks EXCEPT ![Me.op] = "none"] \in Tasks
          /\ Spare([tasks EXCEPT ![Me.op] = "none"], want)
      BY <1>0, <2>2 DEF StreamTypesOf, Tasks, Waits, Spare
    <3>2. tasks' = Scheduled([tasks EXCEPT ![Me.op] = "none"])
      BY <1>20, <2>2 DEF SpawnFails
    <3>3. QED
      BY <1>0, <2>1, <3>1, <3>2, SchedulesWell, NoStreamType DEF StreamTypesOf
  <2>3. CASE Me.op \notin {"watchdog", "health"}
    <3>1. \/ tasks' = [tasks EXCEPT !.slow = "sleep"] \/ UNCHANGED tasks
          \/ tasks' = [tasks EXCEPT !.reconcile = "dead"]
      BY <1>20, <2>3 DEF SpawnFails
    <3>2. tasks' \in Tasks /\ tasks'.watchdog = tasks.watchdog
      BY <1>0, <3>1 DEF StreamTypesOf, Tasks, Waits
    <3>3. QED
      BY <1>0, <2>1, <3>2, NoStreamType DEF StreamTypesOf, Spare
  <2>4. QED
    BY <2>2, <2>3
<1>21. CASE Primes
  BY <1>0, <1>21 DEF Primes, streamOnly, StreamTypesOf, StreamRecords, Feeds, RequestTypes
<1>22. ASSUME NEW feed \in Feeds, Streams(feed) PROVE stream' \in StreamRecords
  BY <1>0, <1>22 DEF Streams, StreamTypesOf, StreamRecords
<1>23. CASE Primed
  <2>1. stream' \in StreamRecords
    BY <1>22, <1>23 DEF Primed, Feeds
  <2>2. QED
    BY <1>0, <1>23, <2>1, SchedulesWell DEF Primed, streamOnly, StreamTypesOf
<1>24. CASE SourceEnds
  <2>1. stream' \in StreamRecords
    BY <1>22, <1>24, NoStreamType DEF SourceEnds, Feeds
  <2>2. QED
    BY <1>0, <1>24, <2>1, SchedulesWell DEF SourceEnds, StreamTypesOf
<1>25. CASE HealthStalls
  BY <1>0, <1>25 DEF HealthStalls, StreamTypesOf, Tasks, Spare
<1>26. CASE WatchdogWakes
  <2>1. CASE ~want.desired \/ Running
    BY <1>0, <1>26, <2>1 DEF WatchdogWakes, StreamTypesOf, Tasks, Waits, Spare
  <2>2. CASE ~(~want.desired \/ Running)
    <3>1. want.attempts \in Nat /\ want.attempts + 1 \in 0..WATCHDOG_MAX_RESTARTS
      BY <1>0, <1>26 DEF WatchdogWakes, StreamTypesOf, Wants, Spare
    <3>2. want' \in Wants
      BY <1>0, <1>26, <2>2, <3>1 DEF WatchdogWakes, StreamTypesOf, Wants
    <3>3. tasks' \in Tasks /\ tasks'.watchdog = "lock" /\ UNCHANGED stream
      BY <1>0, <1>26, <2>2 DEF WatchdogWakes, StreamTypesOf, Tasks, Waits
    <3>4. QED
      BY <1>0, <3>2, <3>3 DEF StreamTypesOf, Spare
  <2>3. QED
    BY <2>1, <2>2
<1>27. CASE SlowRetryWakes
  <2>1. tasks' \in Tasks /\ tasks'.watchdog = tasks.watchdog /\ UNCHANGED stream
    BY <1>0, <1>27 DEF SlowRetryWakes, StreamTypesOf, Tasks, Waits
  <2>2. want' \in Wants /\ (want' = want \/ want'.attempts = 0)
    BY <1>0, <1>27 DEF SlowRetryWakes, StreamTypesOf, Wants
  <2>3. QED
    BY <1>0, <2>1, <2>2 DEF StreamTypesOf, Spare
<1>28. CASE WatchdogChecks
  <2>1. /\ [tasks EXCEPT !.watchdog = "none"] \in Tasks
        /\ Spare([tasks EXCEPT !.watchdog = "none"], want)
    BY <1>0 DEF StreamTypesOf, Tasks, Waits, Spare
  <2>2. QED
    BY <1>0, <1>28, <2>1, SchedulesWell DEF WatchdogChecks, streamOnly, StreamTypesOf
<1>29. CASE SlowRetryChecks
  BY <1>0, <1>29 DEF SlowRetryChecks, streamOnly, StreamTypesOf, Tasks, Waits, Spare
<1>30. CASE Stable
  <2>1. want' \in Wants /\ want'.attempts = 0
    BY <1>0, <1>30 DEF Stable, StreamTypesOf, Wants
  <2>2. tasks' \in Tasks /\ UNCHANGED stream
    BY <1>0, <1>30 DEF Stable, StreamTypesOf, Tasks, Waits
  <2>3. QED
    BY <1>0, <2>1, <2>2 DEF StreamTypesOf, Spare
<1>31. CASE TickEnds
  BY <1>0, <1>31 DEF TickEnds, streamOnly, StreamTypesOf, Tasks, Spare
<1>32. ASSUME NEW h \in Hubs, Enabled(h) PROVE StreamTypesOf(want', stream', tasks')
  BY <1>0, <1>32 DEF Enabled, EnsureReconcile, StreamTypesOf, Tasks, Spare
<1>33. CASE User
  <2>1. CASE Resume \/ Resync \/ \E station \in Stations : Play(station)
    BY <1>1, <2>1 DEF Resume, Resync, Play
  <2>2. CASE TurnOff
    BY <1>8, <2>2 DEF TurnOff
  <2>3. QED
    BY <1>7, <1>33, <2>1, <2>2 DEF User
<1>34. CASE Holder
  <2>1. CASE StopEnters \/ RecoveryEnters \/ HealthEnters \/ Quieted \/ Stopped \/ Prepare
    BY <1>1, <2>1 DEF StopEnters, RecoveryEnters, HealthEnters, Discard, Quieted, Stopped,
                      Prepare
  <2>2. CASE \E h \in Hubs : PlayerSuspended(h)
    BY <1>1, <2>2 DEF PlayerSuspended
  <2>3. QED
    BY <1>11, <1>12, <1>13, <1>14, <1>15, <1>16, <1>18, <1>19, <1>34, <2>1, <2>2 DEF Holder
<1>35. CASE Watchers
  BY <1>21, <1>23, <1>25, <1>26, <1>27, <1>28, <1>29, <1>30, <1>35 DEF Watchers
<1>36. CASE Disturbance
  <2>1. CASE \E h \in Hubs : MemberFails(h) \/ HubLeaves(h) \/ Enable(h)
    BY <1>1, <2>1 DEF MemberFails, HubLeaves, Enable, prepOnly
  <2>2. ASSUME NEW h \in Hubs, Disable(h) PROVE StreamTypesOf(want', stream', tasks')
    BY <1>0, <2>2 DEF Disable, EnsureReconcile, StreamTypesOf, Tasks, Spare
  <2>3. QED
    BY <1>17, <1>20, <1>24, <1>36, <2>1, <2>2 DEF Disturbance
<1>37. ASSUME NEW h \in Hubs, Member(h) PROVE StreamTypesOf(want', stream', tasks')
  <2>1. CASE TickPrepares(h) \/ TickIsolates(h) \/ MemberSuspended(h) \/ MemberConnected(h)
             \/ HubReturns(h) \/ Disabled(h)
    BY <1>1, <2>1 DEF TickPrepares, TickIsolates, MemberSuspended, MemberConnected, HubReturns,
                      Disabled, prepOnly
  <2>2. QED
    BY <1>32, <1>37, <2>1 DEF Member
<1>38. ASSUME NEW n \in DOMAIN asked,
              Request(n) \/ ResolveFails(n) \/ StopTimesOut(n) \/ ResetTimesOut(n)
       PROVE  StreamTypesOf(want', stream', tasks')
  <2>1. CASE RemoteCleaned(n) \/ Released(n)
    BY <1>1, <2>1 DEF RemoteCleaned, Released
  <2>2. CASE StopTimesOut(n)
    BY <1>8, <2>2 DEF StopTimesOut
  <2>3. QED
    BY <1>2, <1>3, <1>4, <1>5, <1>9, <1>10, <1>38, <2>1, <2>2 DEF Request
<1>39. CASE TickStarts
  BY <1>1, <1>39 DEF TickStarts
<1>40. CASE UNCHANGED vars
  BY <1>1, <1>40 DEF vars
<1>41. QED
  BY <1>6, <1>31, <1>33, <1>34, <1>35, <1>36, <1>37, <1>38, <1>39, <1>40 DEF Next

-----------------------------------------------------------------------------
(* The types of the hubs and their players.                                *)

LEMMA FaultIsLess ==
  ASSUME HubTypes, Fault PROVE faults' \in Nat /\ late' \in Nat
BY DEF HubTypes, Fault

LEMMA PrepType ==
  ASSUME HubTypes, NEW h \in Hubs, NEW place \in {"no", "suspend", "connect", "up"},
         Prep(h, place)
  PROVE  prep' \in [Hubs -> {"no", "suspend", "connect", "up"}]
BY DEF HubTypes, Prep

LEMMA HubTypesKept ==
  ASSUME HubTypes, QueueTypes, [Next]_vars
  PROVE  HubTypes'
<1> DEFINE Moving == UNCHANGED <<hubs, prep, players>>
           Places4 == {"no", "suspend", "connect", "up"}
<1>1. CASE UNCHANGED <<hubs, prep, players, bounds>>
  BY <1>1 DEF HubTypes, hubs, players, switches, bounds
<1>2. CASE Moving /\ faults' \in Nat /\ late' \in Nat
  BY <1>2 DEF HubTypes, hubs, players, switches
<1>3. ASSUME UNCHANGED <<hubs, prep, bounds>>, held' \subseteq Hubs, suspended' \subseteq Hubs,
             enabling' \subseteq Hubs
      PROVE  HubTypes'
  BY <1>3 DEF HubTypes, hubs, bounds
<1>4. ASSUME prep' \in [Hubs -> Places4], faults' \in Nat, late' \in Nat,
             selected' \subseteq Hubs, able' \subseteq Hubs, held' \subseteq Hubs,
             suspended' \subseteq Hubs, enabling' \subseteq Hubs
      PROVE  HubTypes'
  BY <1>4 DEF HubTypes
<1>5. AllIdle \in [Hubs -> Places4] /\ Suspending \subseteq Hubs /\ Suspending' \subseteq Hubs
      /\ \A h : Begin(h) \in Places4
  BY DEF AllIdle, Suspending, Begin
<1>6. CASE User
  <2>1. CASE Resync
    BY <1>2, <2>1, FaultIsLess DEF Resync
  <2>2. CASE Resume \/ Stop \/ TurnOff \/ \E station \in Stations : Play(station)
    BY <1>1, <2>2 DEF Resume, Stop, TurnOff, Reset, Play
  <2>3. QED
    BY <1>6, <2>1, <2>2 DEF User
<1>7. CASE Holder
  <2>1. CASE PlayEnters \/ ResumeEnters \/ StopEnters \/ RecoveryEnters \/ HealthEnters
             \/ ReconcileEnters \/ Quieted \/ StopStream \/ CohortReady \/ Spawned
    BY <1>1, <2>1 DEF PlayEnters, ResumeEnters, StopEnters, RecoveryEnters, HealthEnters,
                      ReconcileEnters, Quieted, StopStream, CohortReady, Spawned
  <2>2. CASE Stopped \/ ResyncAbandoned
    BY <1>4, <1>5, <2>2 DEF Stopped, ResyncAbandoned, HubTypes, hubs, players, switches, bounds
  <2>3. CASE Restarts
    BY <1>4, <1>5, <2>3 DEF Restarts, HubTypes, hubs, bounds
  <2>4. CASE \E h \in Hubs : PlayerSuspended(h)
    BY <1>3, <2>4 DEF PlayerSuspended, HubTypes, switches
  <2>5. CASE Prepare
    <3>1. prep' \in [Hubs -> Places4]
      BY <1>5, <2>5 DEF Prepare, HubTypes
    <3>2. held' \subseteq Hubs /\ UNCHANGED <<hubs, suspended, enabling, bounds>>
      BY <1>5, <2>5 DEF Prepare, HubTypes, switches
    <3>3. QED
      BY <1>4, <3>1, <3>2 DEF HubTypes, hubs, bounds
  <2>6. QED
    BY <1>7, <2>1, <2>2, <2>3, <2>4, <2>5 DEF Holder
<1>8. CASE Watchers
  <2>1. CASE SlowRetryWakes
    BY <1>2, <2>1 DEF SlowRetryWakes, HubTypes
  <2>2. CASE Primes \/ Primed \/ HealthStalls \/ WatchdogWakes \/ WatchdogChecks
             \/ SlowRetryChecks \/ Stable
    BY <1>1, <2>2 DEF Primes, Primed, HealthStalls, WatchdogWakes, WatchdogChecks,
                      SlowRetryChecks, Stable, streamOnly
  <2>3. QED
    BY <1>8, <2>1, <2>2 DEF Watchers
<1>9. CASE Disturbance
  <2>1. CASE SourceEnds \/ SpawnFails
    BY <1>2, <2>1, FaultIsLess DEF SourceEnds, SpawnFails
  <2>2. CASE CohortMissing
    BY <1>2, <2>2 DEF CohortMissing, HubTypes
  <2>3. ASSUME NEW h \in Hubs, MemberFails(h) PROVE HubTypes'
    BY <1>4, <2>3, FaultIsLess, PrepType DEF MemberFails, prepOnly, HubTypes, hubs, switches
  <2>4. ASSUME NEW h \in Hubs, HubLeaves(h) PROVE HubTypes'
    <3>1. prep' \in [Hubs -> Places4]
      BY <2>4, PrepType DEF HubLeaves, HubTypes
    <3>2. QED
      BY <1>4, <2>4, <3>1, FaultIsLess DEF HubLeaves, HubTypes, players, switches
  <2>5. ASSUME NEW h \in Hubs, Disable(h) PROVE HubTypes'
    BY <1>4, <2>5, FaultIsLess, PrepType DEF Disable, HubTypes
  <2>6. ASSUME NEW h \in Hubs, Enable(h) PROVE HubTypes'
    BY <1>4, <2>6 DEF Enable, HubTypes, hubs
  <2>7. QED
    BY <1>9, <2>1, <2>2, <2>3, <2>4, <2>5, <2>6 DEF Disturbance
<1>10. ASSUME NEW h \in Hubs, Member(h) PROVE HubTypes'
  <2>1. CASE TickPrepares(h)
    BY <1>4, <1>5, <2>1, PrepType DEF TickPrepares, prepOnly, HubTypes, hubs, bounds, switches
  <2>2. CASE TickIsolates(h)
    BY <1>4, <2>2, PrepType DEF TickIsolates, prepOnly, HubTypes, hubs, bounds, switches
  <2>3. CASE MemberSuspended(h)
    BY <1>4, <2>3, PrepType DEF MemberSuspended, prepOnly, HubTypes, hubs, bounds, switches
  <2>4. CASE MemberConnected(h)
    BY <1>4, <2>4, PrepType DEF MemberConnected, prepOnly, HubTypes, hubs, bounds, switches
  <2>5. CASE HubReturns(h)
    BY <1>4, <2>5 DEF HubReturns, HubTypes, players, switches, bounds
  <2>6. CASE Enabled(h)
    BY <1>4, <2>6 DEF Enabled, HubTypes, bounds
  <2>7. CASE Disabled(h)
    BY <1>3, <2>7 DEF Disabled, HubTypes
  <2>8. QED
    BY <1>10, <2>1, <2>2, <2>3, <2>4, <2>5, <2>6, <2>7 DEF Member
<1>11. ASSUME NEW n \in DOMAIN asked,
              Request(n) \/ ResolveFails(n) \/ StopTimesOut(n) \/ ResetTimesOut(n)
       PROVE  HubTypes'
  <2>1. CASE Resolved(n) \/ CancelRecovery(n) \/ RemoteCleaned(n)
    BY <1>1, <2>1 DEF Resolved, CancelRecovery, RemoteCleaned
  <2>2. CASE Restore(n)
    BY <1>3, <2>2 DEF Restore, HubTypes, switches
  <2>3. CASE RestoreSuspends(n)
    BY <1>3, <2>3 DEF RestoreSuspends, HubTypes, switches
  <2>4. CASE Released(n)
    BY <1>3, <2>4 DEF Released, HubTypes, switches
  <2>5. CASE ResolveFails(n)
    BY <1>2, <2>5, FaultIsLess DEF ResolveFails
  <2>6. CASE StopTimesOut(n)
    BY <1>2, <2>6 DEF StopTimesOut, Reset, HubTypes
  <2>7. CASE ResetTimesOut(n)
    BY <1>4, <1>5, <2>7 DEF ResetTimesOut, HubTypes, hubs, players, switches
  <2>8. QED
    BY <1>11, <2>1, <2>2, <2>3, <2>4, <2>5, <2>6, <2>7 DEF Request
<1>12. CASE StartupExpires \/ TickStarts \/ TickEnds
  BY <1>1, <1>12 DEF StartupExpires, TickStarts, TickEnds, streamOnly
<1>13. CASE UNCHANGED vars
  BY <1>1, <1>13 DEF vars
<1>14. QED
  BY <1>6, <1>7, <1>8, <1>9, <1>10, <1>11, <1>12, <1>13 DEF Next

LEMMA SwitchTypesKept ==
  ASSUME SwitchTypes, HubTypes, [Next]_vars
  PROVE  SwitchTypes'
<1>1. CASE UNCHANGED <<disabling, overtaken>>
  BY <1>1 DEF SwitchTypes
<1>2. ASSUME NEW h \in Hubs, Disable(h) \/ Disabled(h) \/ Enable(h) \/ Enabled(h)
      PROVE  SwitchTypes'
  <2>1. UNCHANGED disabling \/ \E k \in Nat : disabling' = [disabling EXCEPT ![h] = k]
    BY <1>2 DEF Disable, Disabled, Enable, Enabled, SwitchTypes
  <2>2. overtaken' \subseteq overtaken \cup {h}
    BY <1>2 DEF Disable, Disabled, Enable, Enabled
  <2>3. QED
    BY <2>1, <2>2 DEF SwitchTypes
<1>3. CASE Restarts
  BY <1>3 DEF Restarts, SwitchTypes
<1>4. CASE User
  BY <1>1, <1>4 DEF User, Play, Resume, Stop, TurnOff, Reset, Resync, players, switches
<1>5. CASE Holder
  BY <1>1, <1>3, <1>5
     DEF Holder, PlayEnters, ResumeEnters, StopEnters, RecoveryEnters, HealthEnters,
         ReconcileEnters, Quieted, StopStream, CohortReady, Spawned, Stopped,
         PlayerSuspended, Prepare, ResyncAbandoned, players, switches
<1>6. CASE Watchers
  BY <1>1, <1>6 DEF Watchers, Primes, Primed, HealthStalls, WatchdogWakes, SlowRetryWakes,
                    WatchdogChecks, SlowRetryChecks, Stable, streamOnly, players, switches
<1>7. CASE Disturbance
  <2>1. CASE SourceEnds \/ SpawnFails \/ CohortMissing
    BY <1>1, <2>1 DEF SourceEnds, SpawnFails, CohortMissing, players, switches
  <2>2. ASSUME NEW h \in Hubs, MemberFails(h) \/ HubLeaves(h) PROVE SwitchTypes'
    BY <1>1, <2>2 DEF MemberFails, HubLeaves, prepOnly, players, switches
  <2>3. QED
    BY <1>2, <1>7, <2>1, <2>2 DEF Disturbance
<1>8. ASSUME NEW h \in Hubs, Member(h) PROVE SwitchTypes'
  <2>1. CASE TickPrepares(h) \/ TickIsolates(h) \/ MemberSuspended(h) \/ MemberConnected(h)
             \/ HubReturns(h)
    BY <1>1, <2>1 DEF TickPrepares, TickIsolates, MemberSuspended, MemberConnected, HubReturns,
                      prepOnly, players, switches
  <2>2. QED
    BY <1>2, <1>8, <2>1 DEF Member
<1>9. ASSUME NEW n \in DOMAIN asked,
             Request(n) \/ ResolveFails(n) \/ StopTimesOut(n) \/ ResetTimesOut(n)
      PROVE  SwitchTypes'
  BY <1>1, <1>9 DEF Request, Resolved, Restore, RestoreSuspends, CancelRecovery, RemoteCleaned,
                    Released, ResolveFails, StopTimesOut, ResetTimesOut, Reset, players, switches
<1>10. CASE StartupExpires \/ TickStarts \/ TickEnds \/ UNCHANGED vars
  BY <1>1, <1>10 DEF StartupExpires, TickStarts, TickEnds, streamOnly, vars, players, switches
<1>11. QED
  BY <1>4, <1>5, <1>6, <1>7, <1>8, <1>9, <1>10 DEF Next

-----------------------------------------------------------------------------
(* Requests and the queue.                                                 *)

LEMMA QueueInvKept ==
  ASSUME QueueInv, RequestTypes', SameOps, lock' \in Seq(Owners), Moved,
         \A owner \in Range(lock') : owner \in Range(lock) \/ Owns(owner)',
         \A n \in 1..Len(asked') :
           asked'[n].op \in Stoppers /\ asked'[n].at \notin StopPlaces =>
             n \in 1..Len(asked) /\ asked'[n] = asked[n]
  PROVE  QueueInv'
<1>1. RequestTypes /\ QueueTypes /\ LockInv /\ Programs /\ asked' \in Seq(Requests)
  BY DEF QueueInv, RequestTypes
<1>2. QueueTypes'
  BY <1>1 DEF QueueTypes, Moved, Steps, Quiets
<1>3. \A owner \in Range(lock') : Owns(owner)'
  BY <1>1, OwnsStay DEF LockInv
<1>4. Places'
  <2>1. CASE step' = "enter"
    BY <2>1 DEF Places, Quiets
  <2>2. CASE UNCHANGED <<step, gather>> /\ lock = <<>>
    BY <1>1, <2>1, <2>2 DEF LockInv, Places
  <2>3. CASE UNCHANGED <<step, gather>> /\ lock # <<>> /\ lock' # <<>> /\ Me' = Me
    BY <1>1, <2>3 DEF LockInv, Places, Me
  <2>4. QED
    BY <2>1, <2>2, <2>3 DEF Moved
<1>5. Programs'
  BY <1>1 DEF Programs
<1>6. QED
  BY <1>2, <1>3, <1>4, <1>5 DEF QueueInv, LockInv

\* The holder goes on.
LEMMA HolderGoesOn ==
  ASSUME QueueInv, lock # <<>>, UNCHANGED <<intent, asked, lock>>, step' \in Steps,
         gather' \subseteq Hubs, gather' # {} => step' = "suspend",
         Me.op \in Stoppers => step' \in Quiets
  PROVE  QueueInv'
<1>1. RequestTypes' /\ QueueTypes' /\ Programs'
  BY DEF QueueInv, RequestTypes, QueueTypes, Programs
<1>2. LockInv'
  BY DEF QueueInv, LockInv, Owns, Places, Me
<1>3. QED
  BY <1>1, <1>2 DEF QueueInv

\* The holder returns.
LEMMA HolderEnds ==
  ASSUME QueueInv, lock # <<>>, UNCHANGED intent, NEW place \in Ats, Finish(place),
         Me.op \in Stoppers => place \in StopPlaces
  PROVE  QueueInv'
<1>1. /\ Returned(place) /\ Moved /\ lock' \in Seq(Owners) /\ Range(lock') \subseteq Range(lock)
  BY HolderReturns DEF QueueInv
<1>2. RequestTypes' /\ SameOps
  BY <1>1 DEF Returned, QueueInv, RequestTypes
<1>3. ASSUME NEW n \in 1..Len(asked'), asked'[n].op \in Stoppers, asked'[n].at \notin StopPlaces
      PROVE  n \in 1..Len(asked) /\ asked'[n] = asked[n]
  <2>1. n \in 1..Len(asked) /\ asked[n].op = asked'[n].op
    BY <1>1 DEF Returned
  <2>2. CASE Me.op \in Background \/ n # Me.n
    BY <1>1, <2>1, <2>2 DEF Returned
  <2>3. CASE Me.op \in Users /\ n = Me.n
    <3>1. asked'[n].at = place
      BY <1>1, <2>3 DEF Returned
    <3>2. asked[n].op = Me.op
      BY <1>1, <1>3, <2>1, <2>3 DEF Returned, Owns, Users, Background, Stoppers
    <3>3. QED
      BY <1>3, <2>1, <3>1, <3>2
  <2>4. QED
    BY <1>1, <2>2, <2>3 DEF Returned, Owners
<1>4. QED
  BY <1>1, <1>2, <1>3, QueueInvKept

\* A task asks for the lock.
LEMMA TaskQueues ==
  ASSUME QueueInv, UNCHANGED <<intent, asked>>, NEW op \in Background, Queue(Recovery(op))
  PROVE  QueueInv'
<1>1. Recovery(op) \in Owners /\ Recovery(op).op = op /\ Recovery(op).n = 0
  BY DEF Recovery, Owner, Owners
<1>2. lock' \in Seq(Owners) /\ Range(lock') = Range(lock) \cup {Recovery(op)} /\ Moved
  BY <1>1, QueueGrows DEF QueueInv, QueueTypes
<1>3. RequestTypes' /\ SameOps
  BY DEF QueueInv, RequestTypes, SameOps
<1>4. Owns(Recovery(op))'
  BY <1>1 DEF Owns
<1>5. QED
  BY <1>2, <1>3, <1>4, QueueInvKept

\* The requests alone change.
LEMMA RequestsChange ==
  ASSUME QueueInv, RequestTypes', SameOps, UNCHANGED queue,
         \A n \in 1..Len(asked') :
           asked'[n].op \in Stoppers /\ asked'[n].at \notin StopPlaces =>
             n \in 1..Len(asked) /\ asked'[n] = asked[n]
  PROVE  QueueInv'
<1>1. UNCHANGED <<lock, step, gather>> /\ lock' \in Seq(Owners)
  BY DEF queue, QueueInv, QueueTypes
<1>2. Me' = Me
  BY <1>1 DEF Me
<1>3. Moved
  BY <1>1, <1>2 DEF Moved
<1>4. QED
  BY <1>1, <1>3, QueueInvKept

\* One request goes on, no Stop or to a place of a Stop.
LEMMA OneGoes ==
  ASSUME QueueInv, UNCHANGED <<intent, queue>>, NEW n \in 1..Len(asked), NEW place \in Ats,
         GoTo(n, place), asked[n].op \in Stoppers => place \in StopPlaces
  PROVE  QueueInv'
<1>1. /\ RequestTypes' /\ SameOps /\ Len(asked') = Len(asked) /\ asked'[n].at = place
      /\ \A i \in 1..Len(asked) : asked'[i].op = asked[i].op /\ (i # n => asked'[i] = asked[i])
  BY RequestWent DEF QueueInv
<1>2. QED
  BY <1>1, RequestsChange

\* The tasks that are cancelled and the newcomer.
LEMMA QueueInterrupted ==
  ASSUME QueueInv, RequestTypes', SameOps, NEW owners, NEW newcomer \in Seq(Owners),
         Interrupt(owners, newcomer), \A owner \in Range(newcomer) : Owns(owner)',
         \A n \in 1..Len(asked') :
           asked'[n].op \in Stoppers /\ asked'[n].at \notin StopPlaces =>
             n \in 1..Len(asked) /\ asked'[n] = asked[n]
  PROVE  QueueInv'
<1>1. /\ lock' \in Seq(Owners) /\ Moved
      /\ Range(lock') \subseteq Range(lock) \cup Range(newcomer)
  BY QueueLoses DEF QueueInv, QueueTypes
<1>2. QED
  BY <1>1, QueueInvKept

LEMMA NoNewcomer == <<>> \in Seq(Owners) /\ Range(<<>>) = {}
BY DEF Range

LEMMA MeIsOwner ==
  ASSUME QueueInv, lock # <<>> PROVE Me \in Owners /\ Me \in Range(lock) /\ Owns(Me)
<1>1. Me = lock[1] /\ Me \in Owners /\ 1 \in DOMAIN lock
  BY HeadTailProperties, LenProperties DEF QueueInv, QueueTypes, Me
<1>2. QED
  BY <1>1 DEF QueueInv, LockInv, Range

LEMMA NextIsAdded ==
  ASSUME QueueInv, NEW op \in Users, NEW place \in Ats, NEW station \in Names,
         NextIntent(op, place, station), op \in Stoppers => place \in StopPlaces
  PROVE  LET request == [op |-> op, at |-> place, station |-> station] IN
         /\ RequestTypes' /\ SameOps /\ intent' > 0 /\ asked'[intent'] = request
         /\ Len(asked') = Len(asked) + 1 /\ intent' = Len(asked')
         /\ \A n \in 1..Len(asked) : asked'[n] = asked[n]
         /\ \A n \in 1..Len(asked') :
              asked'[n].op \in Stoppers /\ asked'[n].at \notin StopPlaces =>
                n \in 1..Len(asked) /\ asked'[n] = asked[n]
<1> DEFINE request == [op |-> op, at |-> place, station |-> station]
<1>1. request \in Requests
  BY DEF Requests, Ats
<1>2. Adds(asked, request)
  BY DEF NextIntent, Adds
<1>3. /\ RequestTypes' /\ SameOps /\ intent' > 0 /\ asked'[intent'] = request
      /\ Len(asked') = Len(asked) + 1
      /\ \A n \in 1..Len(asked) : asked'[n] = asked[n]
  BY <1>1, <1>2, RequestsGrow DEF QueueInv, RequestTypes
<1>4. intent' = Len(asked') /\ Len(asked) \in Nat
  BY <1>3 DEF RequestTypes, QueueInv
<1>5. \A n \in 1..Len(asked') : n \in 1..Len(asked) \/ n = intent'
  BY <1>3, <1>4
<1>6. request.op = op /\ request.at = place
  OBVIOUS
<1> HIDE DEF request
<1>7. QED
  BY <1>3, <1>4, <1>5, <1>6 DEF request

\* The reset takes the newest intent; of the older requests one may have ended.
LEMMA ResetIsAdded ==
  ASSUME QueueInv, NEW requests \in Seq(Requests), Len(requests) = Len(asked),
         \A n \in 1..Len(asked) :
           requests[n].op = asked[n].op /\ (requests[n] = asked[n] \/ requests[n].at = "done"),
         NEW owners, Reset(requests, owners)
  PROVE  /\ RequestTypes' /\ SameOps /\ QueueInv' /\ intent' > 0 /\ intent' = Len(asked')
         /\ asked'[intent'] = [op |-> "off", at |-> "cancel", station |-> "none"]
         /\ Len(asked') = Len(asked) + 1 /\ \A n \in 1..Len(asked) : asked'[n] = requests[n]
<1> DEFINE request == [op |-> "off", at |-> "cancel", station |-> "none"]
<1>1. request \in Requests /\ request.op = "off" /\ request.at = "cancel"
  BY DEF Requests, Users, Names
<1>2. Adds(requests, request) /\ Interrupt(owners \cup {Recovery("reconcile")}, <<>>)
  BY DEF Reset, Adds
<1> HIDE DEF request
<1>3. /\ RequestTypes' /\ SameOps /\ intent' > 0 /\ asked'[intent'] = request
      /\ Len(asked') = Len(asked) + 1
      /\ \A n \in 1..Len(asked) : asked'[n] = requests[n]
  BY <1>1, <1>2, RequestsGrow DEF QueueInv
<1>4. intent' = Len(asked') /\ Len(asked) \in Nat
  BY <1>3 DEF RequestTypes, QueueInv
<1>5. \A n \in 1..Len(asked') : n \in 1..Len(asked) \/ n = intent'
  BY <1>3, <1>4
<1>6. ASSUME NEW n \in 1..Len(asked'), asked'[n].op \in Stoppers, asked'[n].at \notin StopPlaces
      PROVE  n \in 1..Len(asked) /\ asked'[n] = asked[n]
  BY <1>1, <1>3, <1>5, <1>6 DEF StopPlaces
<1>7. QueueInv'
  BY <1>2, <1>3, <1>6, QueueInterrupted, NoNewcomer
<1>8. QED
  BY <1>3, <1>4, <1>7 DEF request

\* A reset that gave up waiting is a forced one.
LEMMA ResetWent ==
  ASSUME RequestTypes, NEW n \in 1..Len(asked), ResetTimesOut(n)
  PROVE  /\ RequestTypes' /\ SameOps /\ Len(asked') = Len(asked) /\ asked'[n].op = "forced"
         /\ \A i \in 1..Len(asked) : i # n => asked'[i] = asked[i]
<1>1. /\ asked' = [asked EXCEPT ![n].op = "forced", ![n].at = "remote"]
      /\ asked[n].op = "off" /\ UNCHANGED intent
  BY DEF ResetTimesOut, At
<1>2. /\ asked \in [1..Len(asked) -> Requests] /\ DOMAIN asked = 1..Len(asked)
      /\ Len(asked) \in Nat
  BY LenProperties DEF RequestTypes
<1>3. asked' = [i \in 1..Len(asked) |->
                  IF i = n THEN [asked[n] EXCEPT !.op = "forced", !.at = "remote"] ELSE asked[i]]
  BY <1>1, <1>2
<1>4. /\ [asked[n] EXCEPT !.op = "forced", !.at = "remote"] \in Requests
      /\ [asked[n] EXCEPT !.op = "forced", !.at = "remote"].op = "forced"
  BY <1>2 DEF Requests
<1>5. asked' \in [1..Len(asked) -> Requests]
  BY <1>2, <1>3, <1>4
<1>6. asked' \in Seq(Requests) /\ Len(asked') = Len(asked)
  BY <1>2, <1>5
<1>7. asked'[n].op = "forced" /\ \A i \in 1..Len(asked) : i # n => asked'[i] = asked[i]
  BY <1>3, <1>4
<1>8. QED
  BY <1>1, <1>6, <1>7 DEF RequestTypes, SameOps

LEMMA QueueInvNext ==
  ASSUME QueueInv, StreamTypes, HubTypes, [Next]_vars
  PROVE  QueueInv'
<1>1. CASE UNCHANGED <<intent, asked, queue>>
  <2>1. RequestTypes' /\ SameOps
    BY <1>1 DEF QueueInv, RequestTypes, SameOps
  <2>2. QED
    BY <1>1, <2>1, RequestsChange
<1>2. /\ Users = {"play", "resume", "stop", "off"} /\ Stoppers = {"stop", "off"}
      /\ Background = {"reconcile", "watchdog", "slow", "health", "resync"}
      /\ Ats = {"resolve", "suspend", "cancel", "lock", "remote", "release", "done", "failed"}
      /\ StopPlaces = {"cancel", "lock", "remote", "release", "done"}
      /\ "none" \in Names /\ Stations \subseteq Names
  BY DEF Users, Stoppers, Background, Ats, StopPlaces, Names
<1>3. lock # <<>> => Me \in Owners /\ Me \in Range(lock) /\ Owns(Me)
  BY MeIsOwner
<1>4. gather # {} => step = "suspend"
  BY DEF QueueInv, QueueTypes
<1>5. /\ Steps = {"enter", "quiet", "stop", "detach", "suspend", "prepare", "spawn", "giveup",
                  "abandon"}
      /\ Quiets = {"enter", "quiet", "stop", "detach"} /\ gather \subseteq Hubs
      /\ lock # <<>> /\ Me.op \in Stoppers => step \in Quiets
      /\ selected \subseteq Hubs
  BY DEF Steps, Quiets, QueueInv, QueueTypes, LockInv, Places, Me, HubTypes
<1>6. CASE User
  <2>1. ASSUME NEW station \in Stations, Play(station) PROVE QueueInv'
    <3>1. NextIntent("play", "resolve", station) /\ UNCHANGED queue
      BY <2>1 DEF Play
    <3>2. QED
      BY <1>2, <3>1, NextIsAdded, RequestsChange
  <2>2. CASE Resume
    <3>1. PICK place \in {"failed", "resolve"} : NextIntent("resume", place, want.media)
      BY <2>2 DEF Resume
    <3>2. want.media \in Names /\ UNCHANGED queue
      BY <2>2 DEF Resume, StreamTypes, Wants
    <3>3. QED
      BY <1>2, <3>1, <3>2, NextIsAdded, RequestsChange
  <2>3. CASE Stop
    <3>1. NextIntent("stop", "cancel", "none") /\ Interrupt({Recovery("reconcile")}, <<>>)
      BY <2>3 DEF Stop
    <3>2. /\ RequestTypes' /\ SameOps
          /\ \A n \in 1..Len(asked') :
               asked'[n].op \in Stoppers /\ asked'[n].at \notin StopPlaces =>
                 n \in 1..Len(asked) /\ asked'[n] = asked[n]
      BY <1>2, <3>1, NextIsAdded
    <3>3. QED
      BY <3>1, <3>2, QueueInterrupted, NoNewcomer
  <2>4. CASE TurnOff
    <3>1. Reset(asked, {})
      BY <2>4 DEF TurnOff
    <3>2. QED
      BY <3>1, ResetIsAdded DEF QueueInv, RequestTypes
  <2>5. CASE Resync
    <3>1. Queue(Recovery("resync")) /\ UNCHANGED <<intent, asked>>
      BY <2>5 DEF Resync
    <3>2. QED
      BY <1>2, <3>1, TaskQueues
  <2>6. QED
    BY <1>6, <2>1, <2>2, <2>3, <2>4, <2>5 DEF User
<1>7. ASSUME NEW place \in {"done", "failed", "release", "remote"}, lock # <<>>, UNCHANGED intent,
             Finish(place), Me.op \in Stoppers => place \in StopPlaces
      PROVE  QueueInv'
  BY <1>2, <1>7, HolderEnds
<1>8. CASE Holder
  <2>1. CASE PlayEnters
    <3>1. CASE ~IsCurrent(Me.n)
      BY <1>2, <1>7, <2>1, <3>1 DEF PlayEnters, Holds, Discard
    <3>2. CASE IsCurrent(Me.n)
      BY <1>2, <1>4, <1>5, <2>1, <3>2, HolderGoesOn DEF PlayEnters, Holds, Me
    <3>3. QED
      BY <3>1, <3>2
  <2>2. CASE ResumeEnters
    <3>1. CASE ~IsCurrent(Me.n) \/ Running
      BY <1>2, <1>7, <2>2, <3>1 DEF ResumeEnters, Holds, Discard
    <3>2. CASE IsCurrent(Me.n) /\ ~Running
      BY <1>2, <1>4, <1>5, <2>2, <3>2, HolderGoesOn DEF ResumeEnters, Holds, Me
    <3>3. QED
      BY <3>1, <3>2
  <2>3. CASE StopEnters
    BY <1>2, <1>4, <1>5, <2>3, HolderGoesOn DEF StopEnters, Holds, Me
  <2>4. CASE RecoveryEnters
    BY <1>2, <1>4, <1>5, <2>4, HolderGoesOn DEF RecoveryEnters, Holds, Me
  <2>5. CASE HealthEnters
    <3>1. CASE tasks.health = "lock" /\ want.desired
      BY <1>2, <1>4, <1>5, <2>5, <3>1, HolderGoesOn DEF HealthEnters, Holds, Me
    <3>2. CASE ~(tasks.health = "lock" /\ want.desired)
      BY <1>2, <1>7, <2>5, <3>2 DEF HealthEnters, Holds, Discard, Me
    <3>3. QED
      BY <3>1, <3>2
  <2>6. CASE ReconcileEnters
    <3> DEFINE Starts == want.desired /\ ~Running /\ Active # {} /\ want.url # "none"
                         /\ StartupReady
    <3>1. CASE Starts
      BY <1>2, <1>4, <1>5, <2>6, <3>1, HolderGoesOn DEF ReconcileEnters, Holds, Me
    <3>2. CASE ~Starts
      <4>1. Discard /\ Holds({"reconcile"}, "enter") /\ UNCHANGED intent
        BY <2>6, <3>2 DEF ReconcileEnters
      <4>2. QED
        BY <1>2, <1>7, <4>1 DEF Holds, Discard, Me
    <3>3. QED
      BY <3>1, <3>2
  <2>7. CASE Quieted
    BY <1>2, <1>4, <1>5, <2>7, HolderGoesOn DEF Quieted, Holds, Me
  <2>8. CASE StopStream
    BY <1>2, <1>4, <1>5, <2>8, HolderGoesOn DEF StopStream
  <2>9. CASE Stopped
    <3>1. PICK place \in {"release", "remote"} : Finish(place)
      BY <2>9 DEF Stopped
    <3>2. lock # <<>> /\ UNCHANGED intent
      BY <2>9 DEF Stopped, Holds
    <3>3. QED
      BY <1>2, <1>7, <3>1, <3>2
  <2>10. CASE Restarts
    <3>1. CASE want.desired /\ want.url # "none"
      BY <1>2, <1>5, <2>10, <3>1, HolderGoesOn DEF Restarts, Restarters, Holds, Me
    <3>2. CASE ~(want.desired /\ want.url # "none")
      BY <1>2, <1>7, <2>10, <3>2 DEF Restarts, Holds
    <3>3. QED
      BY <3>1, <3>2
  <2>11. ASSUME NEW h \in Hubs, PlayerSuspended(h) PROVE QueueInv'
    BY <1>2, <1>4, <1>5, <2>11, HolderGoesOn DEF PlayerSuspended
  <2>12. CASE Prepare
    BY <1>2, <1>4, <1>5, <2>12, HolderGoesOn DEF Prepare
  <2>13. CASE CohortReady
    <3>1. CASE want.desired
      BY <1>2, <1>4, <1>5, <2>13, <3>1, HolderGoesOn DEF CohortReady
    <3>2. CASE ~want.desired
      BY <1>2, <1>7, <2>13, <3>2 DEF CohortReady
    <3>3. QED
      BY <3>1, <3>2
  <2>14. CASE ResyncAbandoned
    BY <1>2, <1>7, <2>14 DEF ResyncAbandoned, Holds
  <2>15. CASE Spawned
    BY <1>2, <1>7, <2>15 DEF Spawned
  <2>16. QED
    BY <1>8, <2>1, <2>2, <2>3, <2>4, <2>5, <2>6, <2>7, <2>8, <2>9, <2>10, <2>11, <2>12, <2>13,
       <2>14, <2>15 DEF Holder
<1>9. CASE Watchers
  <2>1. CASE Primes \/ Primed \/ WatchdogChecks \/ SlowRetryChecks
    BY <1>1, <2>1 DEF Primes, Primed, WatchdogChecks, SlowRetryChecks, streamOnly
  <2>2. CASE HealthStalls
    BY <1>2, <2>2, TaskQueues DEF HealthStalls
  <2>3. CASE WatchdogWakes
    <3>1. CASE ~want.desired \/ Running
      BY <1>1, <2>3, <3>1 DEF WatchdogWakes
    <3>2. CASE ~(~want.desired \/ Running)
      BY <1>2, <2>3, <3>2, TaskQueues DEF WatchdogWakes
    <3>3. QED
      BY <3>1, <3>2
  <2>4. CASE SlowRetryWakes
    <3>1. CASE ~want.desired \/ Running
      BY <1>1, <2>4, <3>1 DEF SlowRetryWakes
    <3>2. CASE ~(~want.desired \/ Running)
      BY <1>2, <2>4, <3>2, TaskQueues DEF SlowRetryWakes
    <3>3. QED
      BY <3>1, <3>2
  <2>5. CASE Stable
    <3>1. Interrupt({Recovery("slow")}, <<>>) /\ UNCHANGED <<intent, asked>>
      BY <2>5 DEF Stable
    <3>2. RequestTypes' /\ SameOps
      BY <3>1 DEF QueueInv, RequestTypes, SameOps
    <3>3. QED
      BY <3>1, <3>2, QueueInterrupted, NoNewcomer
  <2>6. QED
    BY <1>9, <2>1, <2>2, <2>3, <2>4, <2>5 DEF Watchers
<1>10. CASE Disturbance
  <2>1. CASE SourceEnds \/ \E h \in Hubs : MemberFails(h) \/ HubLeaves(h) \/ Disable(h)
                                           \/ Enable(h)
    BY <1>1, <2>1 DEF SourceEnds, MemberFails, HubLeaves, Disable, Enable, prepOnly
  <2>2. CASE SpawnFails
    <3>1. lock # <<>> /\ step = "spawn" /\ Finish("failed") /\ UNCHANGED intent
      BY <2>2 DEF SpawnFails
    <3>2. Me.op \notin Stoppers
      BY <1>5, <3>1
    <3>3. QED
      BY <1>7, <3>1, <3>2
  <2>3. CASE CohortMissing
    <3>1. CASE Me.op = "resync"
      BY <1>2, <1>4, <1>5, <2>3, <3>1, HolderGoesOn DEF CohortMissing
    <3>2. CASE Me.op # "resync"
      BY <1>2, <1>7, <2>3, <3>2 DEF CohortMissing
    <3>3. QED
      BY <3>1, <3>2
  <2>4. QED
    BY <1>10, <2>1, <2>2, <2>3 DEF Disturbance
<1>11. ASSUME NEW h \in Hubs, Member(h) PROVE QueueInv'
  BY <1>1, <1>11 DEF Member, TickPrepares, TickIsolates, MemberSuspended, MemberConnected,
                     HubReturns, Disabled, Enabled, prepOnly
<1>12. ASSUME NEW n \in DOMAIN asked,
              Request(n) \/ ResolveFails(n) \/ StopTimesOut(n) \/ ResetTimesOut(n)
       PROVE  QueueInv'
  <2>1. n \in 1..Len(asked) /\ asked \in Seq(Requests) /\ intent = Len(asked) /\ n \in Nat
    BY LenProperties DEF QueueInv, RequestTypes
  <2>2. CASE Resolved(n)
    <3>1. CASE IsCurrent(n)
      <4>1. /\ GoTo(n, "lock") /\ Queue(Owner(asked[n].op, n)) /\ UNCHANGED intent
            /\ asked[n].op \in {"play", "resume"}
        BY <2>2, <3>1 DEF Resolved
      <4>2. /\ RequestTypes' /\ SameOps /\ Len(asked') = Len(asked) /\ asked'[n].at = "lock"
            /\ \A i \in 1..Len(asked) : /\ asked'[i].op = asked[i].op
                                        /\ i # n => asked'[i] = asked[i]
        BY <1>2, <2>1, <4>1, RequestWent DEF QueueInv
      <4>3. PICK owner \in Owners : owner = Owner(asked[n].op, n)
        BY <1>2, <2>1, <4>1 DEF Owner, Owners
      <4>7. owner.op = asked[n].op /\ owner.n = n
        BY <4>3 DEF Owner
      <4>4. lock' \in Seq(Owners) /\ Range(lock') = Range(lock) \cup {owner} /\ Moved
        BY <4>1, <4>3, QueueGrows DEF QueueInv, QueueTypes
      <4>5. Owns(owner)'
        BY <1>2, <2>1, <4>1, <4>2, <4>7 DEF Owns
      <4>6. \A i \in 1..Len(asked') : asked'[i].op \in Stoppers /\ asked'[i].at \notin StopPlaces
              => i \in 1..Len(asked) /\ asked'[i] = asked[i]
        BY <1>2, <4>1, <4>2
      <4>8. QED
        BY <4>2, <4>4, <4>5, <4>6, QueueInvKept
    <3>2. CASE ~IsCurrent(n)
      BY <1>2, <2>1, <2>2, <3>2, OneGoes DEF Resolved
    <3>3. QED
      BY <3>1, <3>2
  <2>3. CASE Restore(n)
    <3>1. PICK place \in {"suspend", "done"} : GoTo(n, place)
      BY <2>3 DEF Restore
    <3>2. UNCHANGED <<intent, queue>> /\ asked[n].op = "startup"
      BY <2>3 DEF Restore, At
    <3>3. QED
      BY <1>2, <2>1, <3>1, <3>2, OneGoes
  <2>4. CASE RestoreSuspends(n)
    BY <1>2, <2>1, <2>4, OneGoes DEF RestoreSuspends
  <2>5. CASE RemoteCleaned(n)
    BY <1>2, <2>1, <2>5, OneGoes DEF RemoteCleaned
  <2>6. CASE Released(n)
    BY <1>2, <2>1, <2>6, OneGoes DEF Released
  <2>7. CASE ResolveFails(n)
    <3>1. asked[n].op \notin Stoppers
      BY <1>2, <2>1, <2>7 DEF ResolveFails, QueueInv, Programs
    <3>2. QED
      BY <1>2, <2>1, <2>7, <3>1, OneGoes DEF ResolveFails
  <2>8. CASE CancelRecovery(n)
    <3>1. /\ GoTo(n, "lock") /\ UNCHANGED intent /\ asked[n].op \in Stoppers
          /\ Interrupt({Recovery("watchdog"), Recovery("slow")}, <<Owner(asked[n].op, n)>>)
      BY <2>8 DEF CancelRecovery, Stoppers
    <3>2. /\ RequestTypes' /\ SameOps /\ Len(asked') = Len(asked) /\ asked'[n].at = "lock"
          /\ \A i \in 1..Len(asked) : /\ asked'[i].op = asked[i].op
                                      /\ i # n => asked'[i] = asked[i]
      BY <1>2, <2>1, <3>1, RequestWent DEF QueueInv
    <3>3. PICK owner \in Owners : owner = Owner(asked[n].op, n)
      BY <1>2, <2>1, <3>1 DEF Owner, Owners
    <3>7. owner.op = asked[n].op /\ owner.n = n
      BY <3>3 DEF Owner
    <3>4. Owns(owner)'
      BY <1>2, <2>1, <3>1, <3>2, <3>7 DEF Owns
    <3>5. <<owner>> \in Seq(Owners) /\ Range(<<owner>>) = {owner}
      BY <3>3 DEF Range
    <3>6. \A i \in 1..Len(asked') : asked'[i].op \in Stoppers /\ asked'[i].at \notin StopPlaces
            => i \in 1..Len(asked) /\ asked'[i] = asked[i]
      BY <1>2, <3>1, <3>2
    <3>8. Interrupt({Recovery("watchdog"), Recovery("slow")}, <<owner>>)
      BY <3>1, <3>3
    <3>9. QED
      BY <3>2, <3>4, <3>5, <3>6, <3>8, QueueInterrupted
  <2>9. CASE StopTimesOut(n)
    <3> DEFINE requests == [asked EXCEPT ![n].at = "done"]
    <3>1. Reset(requests, {Owner("stop", n)})
      BY <2>9 DEF StopTimesOut
    <3>2. /\ requests \in Seq(Requests) /\ Len(requests) = Len(asked) /\ requests[n].at = "done"
          /\ \A i \in 1..Len(asked) : /\ requests[i].op = asked[i].op
                                      /\ i # n => requests[i] = asked[i]
      <4>1. "done" \in Ats /\ Goes(requests, n, "done")
        BY <1>2 DEF Goes
      <4> HIDE DEF requests
      <4>2. QED
        BY <2>1, <4>1, RequestGoes
    <3> HIDE DEF requests
    <3>3. QED
      BY <3>1, <3>2, ResetIsAdded
  <2>10. CASE ResetTimesOut(n)
    <3> DEFINE owners == {Owner("off", n)} \cup
                         {Recovery(op) : op \in {"reconcile", "watchdog", "slow", "health"}}
    <3>1. /\ asked' = [asked EXCEPT ![n].op = "forced", ![n].at = "remote"]
          /\ asked[n].op = "off" /\ UNCHANGED intent /\ Interrupt(owners, <<>>)
      BY <2>10 DEF ResetTimesOut, At
    <3>2. /\ Len(asked') = Len(asked) /\ asked'[n].op = "forced"
          /\ \A i \in 1..Len(asked) : i # n => asked'[i] = asked[i]
      BY <2>1, <2>10, ResetWent DEF QueueInv
    <3> HIDE DEF owners
    <3>3. RequestTypes' /\ SameOps
      BY <2>1, <2>10, ResetWent DEF QueueInv
    <3>4. \A i \in 1..Len(asked') : asked'[i].op \in Stoppers /\ asked'[i].at \notin StopPlaces
            => i \in 1..Len(asked) /\ asked'[i] = asked[i]
      BY <1>2, <3>2
    <3>5. QED
      BY <3>1, <3>3, <3>4, QueueInterrupted, NoNewcomer
  <2>11. QED
    BY <1>12, <2>2, <2>3, <2>4, <2>5, <2>6, <2>7, <2>8, <2>9, <2>10 DEF Request
<1>13. CASE StartupExpires \/ TickEnds
  BY <1>1, <1>13 DEF StartupExpires, TickEnds, streamOnly
<1>14. CASE TickStarts
  BY <1>2, <1>14, TaskQueues DEF TickStarts
<1>15. CASE UNCHANGED vars
  BY <1>1, <1>15 DEF vars
<1>16. QED
  BY <1>6, <1>8, <1>9, <1>10, <1>11, <1>12, <1>13, <1>14, <1>15 DEF Next

-----------------------------------------------------------------------------
(* A Stop stands.                                                          *)

\* What a step does to the stream of a group that is being stopped: nothing new, but for
\* the FFmpeg that another holder was about to start.
Silent ==
  /\ ~want'.desired
  /\ stream.feed = "none" => stream'.feed = "none" \/ step = "spawn"
  /\ Gone => \A h \in Hubs : prep'[h] = "no"

\* The newest request stays a Stop where it was.
LEMMA StillStopping ==
  ASSUME RequestTypes, RequestTypes', SameOps, UNCHANGED intent, Stopping'
  PROVE  Stopping /\ Newest'.op = Newest.op /\ Stopper' = Stopper /\ intent \in 1..Len(asked)
<1>1. intent > 0 /\ intent \in 1..Len(asked) /\ asked'[intent].op \in Stoppers
  BY DEF Stopping, Newest, RequestTypes
<1>2. asked'[intent].op = asked[intent].op
  BY <1>1 DEF SameOps, Stoppers
<1>3. QED
  BY <1>1, <1>2 DEF Stopping, Newest, Stopper

LEMMA StopsMoved ==
  ASSUME RequestTypes, LockInv, Stops, UNCHANGED intent, RequestTypes', SameOps, Moved,
         Stopping => /\ Silent /\ asked'[intent] = asked[intent]
                     /\ Stopper \in Range(lock') <=> Stopper \in Range(lock)
  PROVE  Stops'
<1>1. SUFFICES ASSUME Stopping'
      PROVE  /\ ~want'.desired
             /\ Newest'.at = "cancel" => Stopper' \notin Range(lock')
             /\ Newest'.at = "lock" => Coming'
             /\ Newest'.at \in {"remote", "release", "done"} => Gone'
  BY DEF Stops
<1>2. Stopping /\ Stopper' = Stopper /\ Silent
  BY <1>1, StillStopping
<1>3. Newest' = Newest
  BY <1>2 DEF Newest
<1>4. ASSUME Coming PROVE Coming'
  <2>1. Stopper' \in Range(lock')
    BY <1>2, <1>4 DEF Coming
  <2>2. ASSUME Me' = Stopper', step' = "detach" PROVE stream'.feed = "none"
    <3>1. lock # <<>> /\ Me' = Me /\ step = "detach"
      BY <2>2 DEF Moved, LockInv, Places
    <3>2. stream.feed = "none"
      BY <1>2, <1>4, <2>2, <3>1 DEF Coming
    <3>3. QED
      BY <1>2, <3>1, <3>2 DEF Silent
  <2>3. QED
    BY <2>1, <2>2 DEF Coming
<1>5. ASSUME Gone PROVE Gone'
  <2>1. step' \in Quiets
    BY <1>5 DEF Gone, Moved, Quiets
  <2>2. QED
    BY <1>2, <1>5, <2>1 DEF Gone, Silent, Quiets
<1>6. QED
  BY <1>2, <1>3, <1>4, <1>5 DEF Stops, Silent

\* The holder goes on.
LEMMA StopsGoOn ==
  ASSUME Stops, UNCHANGED <<intent, asked, lock>>,
         Stopping => /\ Silent
                     /\ step' = "detach" => stream'.feed = "none" \/ UNCHANGED step
                     /\ step \in Quiets => step' \in Quiets
  PROVE  Stops'
<1>1. Newest' = Newest /\ Stopper' = Stopper /\ Me' = Me /\ (Stopping' <=> Stopping)
  BY DEF Newest, Stopper, Stopping, Me
<1>2. SUFFICES ASSUME Stopping
      PROVE  /\ ~want'.desired /\ (Coming => Coming') /\ (Gone => Gone')
  BY <1>1, <1>2 DEF Stops
<1>3. Silent
  BY <1>2
<1>4. ASSUME Coming PROVE Coming'
  BY <1>1, <1>2, <1>4 DEF Coming, Silent
<1>5. ASSUME Gone PROVE Gone'
  BY <1>2, <1>5 DEF Gone, Silent, Quiets
<1>6. QED
  BY <1>3, <1>4, <1>5 DEF Silent

\* A holder that is no Stop returns.
LEMMA StopsEnd ==
  ASSUME QueueInv, Stops, lock # <<>>, UNCHANGED intent, NEW place \in Ats, Finish(place),
         Me.op \notin Stoppers, Stopping => Silent
  PROVE  Stops'
<1>1. /\ Returned(place) /\ Moved /\ Range(lock') \subseteq Range(lock)
      /\ Range(lock) \subseteq Range(lock') \cup {Me}
  BY HolderReturns DEF QueueInv
<1>2. RequestTypes /\ LockInv /\ RequestTypes' /\ SameOps
  BY <1>1 DEF QueueInv, RequestTypes, Returned
<1>3. ASSUME Stopping
      PROVE  asked'[intent] = asked[intent] /\ (Stopper \in Range(lock') <=> Stopper \in Range(lock))
  <2>1. intent \in 1..Len(asked) /\ asked[intent].op \in Stoppers
    BY <1>2, <1>3 DEF Stopping, Newest, RequestTypes
  <2>2. Me.op \in Background \/ intent # Me.n
    BY <1>1, <2>1 DEF Returned, Owns, Stoppers, Users, Background
  <2>3. asked'[intent] = asked[intent]
    BY <1>1, <2>1, <2>2 DEF Returned
  <2>4. Me # Stopper
    BY <2>1 DEF Stopper, Owner, Newest
  <2>5. QED
    BY <1>1, <2>3, <2>4
<1>4. QED
  BY <1>1, <1>2, <1>3, StopsMoved

\* A task asks for the lock.
LEMMA StopsQueue ==
  ASSUME QueueInv, Stops, UNCHANGED <<intent, asked>>, NEW op \in Background,
         Queue(Recovery(op)), Stopping => Silent
  PROVE  Stops'
<1>1. Recovery(op) \in Owners /\ Recovery(op).op = op
  BY DEF Recovery, Owner, Owners
<1>2. lock' \in Seq(Owners) /\ Range(lock') = Range(lock) \cup {Recovery(op)} /\ Moved
  BY <1>1, QueueGrows DEF QueueInv, QueueTypes
<1>3. RequestTypes /\ LockInv /\ RequestTypes' /\ SameOps
  BY DEF QueueInv, RequestTypes, SameOps
<1>4. Stopping => Stopper # Recovery(op)
  BY <1>1 DEF Stopping, Stopper, Owner, Stoppers, Background
<1>5. QED
  BY <1>2, <1>3, <1>4, StopsMoved

\* Tasks are cancelled.
LEMMA StopsLose ==
  ASSUME QueueInv, Stops, UNCHANGED intent, RequestTypes', SameOps, NEW owners,
         Interrupt(owners, <<>>),
         Stopping => Silent /\ asked'[intent] = asked[intent] /\ Stopper \notin owners
  PROVE  Stops'
<1>1. /\ lock' \in Seq(Owners) /\ Moved /\ Range(lock') \subseteq Range(lock) \cup Range(<<>>)
      /\ \A owner \in Range(lock) : owner \notin owners => owner \in Range(lock')
  BY QueueLoses, NoNewcomer DEF QueueInv, QueueTypes
<1>2. Stopping => (Stopper \in Range(lock') <=> Stopper \in Range(lock))
  BY <1>1, NoNewcomer
<1>3. QED
  BY <1>1, <1>2, StopsMoved DEF QueueInv

\* Nothing of the requests and the queue changes.
LEMMA StopsStay ==
  ASSUME QueueInv, Stops, UNCHANGED <<intent, asked, queue>>, Stopping => Silent
  PROVE  Stops'
<1>1. UNCHANGED <<intent, asked, lock, step>>
  BY DEF queue
<1>2. QED
  BY <1>1, StopsGoOn

\* A request that is not the Stop goes on.
LEMMA StopsOther ==
  ASSUME QueueInv, Stops, UNCHANGED <<intent, queue>>, NEW n \in 1..Len(asked),
         NEW place \in Ats, GoTo(n, place), Stopping => Silent /\ n # intent
  PROVE  Stops'
<1>1. /\ RequestTypes' /\ SameOps
      /\ \A i \in 1..Len(asked) : i # n => asked'[i] = asked[i]
  BY RequestWent DEF QueueInv
<1>2. UNCHANGED <<lock, step, gather>> /\ Me' = Me
  BY DEF queue, Me
<1>3. Moved
  BY <1>2 DEF Moved
<1>4. Stopping => intent \in 1..Len(asked)
  BY DEF Stopping, QueueInv, RequestTypes
<1>5. QED
  BY <1>1, <1>2, <1>3, <1>4, StopsMoved DEF QueueInv

LEMMA RecoveryIsNoStopper ==
  ASSUME Stopping PROVE \A op \in Background : Stopper # Recovery(op)
BY DEF Stopping, Stopper, Recovery, Owner, Stoppers, Background

LEMMA StopsReset ==
  ASSUME QueueInv, StreamTypes, NEW requests \in Seq(Requests), Len(requests) = Len(asked),
         \A n \in 1..Len(asked) :
           requests[n].op = asked[n].op /\ (requests[n] = asked[n] \/ requests[n].at = "done"),
         NEW owners, Reset(requests, owners)
  PROVE  Stops'
<1>1. /\ asked'[intent'] = [op |-> "off", at |-> "cancel", station |-> "none"]
      /\ intent' = intent + 1
  BY ResetIsAdded DEF Reset
<1>2. ~want'.desired
  <2>1. want' = [Halted(want) EXCEPT !.attempts = 0]
    BY DEF Reset
  <2>2. Halted(want) \in Wants /\ ~Halted(want).desired
    BY DEF Halted, StreamTypes, Wants
  <2>3. QED
    BY <2>1, <2>2 DEF Wants
<1>3. /\ lock' \in Seq(Owners)
      /\ Range(lock') \subseteq Range(lock) \cup Range(<<>>)
  <2>1. Interrupt(owners \cup {Recovery("reconcile")}, <<>>)
    BY DEF Reset
  <2>2. QED
    BY <2>1, QueueLoses, NoNewcomer DEF QueueInv, QueueTypes
<1>4. \A owner \in Range(lock) : owner # Owner("off", intent + 1)
  BY DEF QueueInv, LockInv, Owns, RequestTypes, Owner
<1>5. Stopper' \notin Range(lock')
  BY <1>1, <1>3, <1>4, NoNewcomer DEF Stopper, Newest
<1>6. QED
  BY <1>1, <1>2, <1>5 DEF Stops, Newest

\* A Stop that holds the lock has torn the stream down.
LEMMA StopsReturn ==
  ASSUME QueueInv, Stops, Stopped
  PROVE  Stops'
<1>1. PICK place \in {"release", "remote"} : Finish(place)
  BY DEF Stopped
<1>2. /\ lock # <<>> /\ Me.op \in Stoppers /\ step = "detach" /\ prep' = AllIdle
      /\ UNCHANGED <<intent, want, stream>>
  BY DEF Stopped, Holds, Stoppers, Me
<1>3. place \in Ats
  BY <1>1 DEF Ats
<1>4. /\ Returned(place) /\ step' = "enter" /\ Moved /\ Range(lock') \subseteq Range(lock)
      /\ Range(lock) \subseteq Range(lock') \cup {Me}
  BY <1>1, <1>2, <1>3, HolderReturns DEF QueueInv
<1>5. RequestTypes /\ LockInv /\ RequestTypes' /\ SameOps
  BY <1>2, <1>4 DEF QueueInv, RequestTypes, Returned
<1>6. \A h \in Hubs : prep'[h] = "no"
  BY <1>2 DEF AllIdle
<1>7. CASE ~Stopping'
  BY <1>7 DEF Stops
<1>8. CASE Stopping' /\ Me.n = intent
  <2>1. Stopping /\ Newest'.op = Newest.op /\ intent \in 1..Len(asked)
    BY <1>2, <1>5, <1>8, StillStopping
  <2>2. Me = Stopper
    <3>1. Me.op = asked[intent].op
      BY <1>2, <1>4, <1>8, <2>1 DEF Returned, Owns, Stopping, Newest, Stoppers, Users, Background
    <3>2. Me = Owner(Me.op, Me.n)
      BY <1>4 DEF Returned, Owners, Owner
    <3>3. QED
      BY <1>8, <3>1, <3>2 DEF Stopper, Newest
  <2>3. Newest'.at = place
    BY <1>2, <1>4, <1>8 DEF Returned, Newest, Stoppers, Users
  <2>4. Newest.at \in StopPlaces
    BY <2>1 DEF QueueInv, Programs, Stopping, Newest
  <2>5. Stopper \in Range(lock)
    BY <1>4, <2>2 DEF Returned
  <2>6. stream.feed = "none" /\ ~want.desired
    BY <1>2, <2>1, <2>2, <2>4, <2>5 DEF Stops, StopPlaces, Coming, Gone
  <2>7. Gone'
    BY <1>2, <1>4, <1>6, <2>6 DEF Gone, Quiets
  <2>8. QED
    BY <1>1, <1>2, <2>3, <2>6, <2>7 DEF Stops
<1>9. CASE Stopping' /\ Me.n # intent
  <2>1. Stopping /\ intent \in 1..Len(asked)
    BY <1>2, <1>5, <1>9, StillStopping
  <2>2. asked'[intent] = asked[intent]
    BY <1>4, <1>9, <2>1 DEF Returned
  <2>3. Me # Stopper
    BY <1>9 DEF Stopper, Owner
  <2>4. Silent
    BY <1>2, <1>6, <2>1 DEF Stops, Silent
  <2>5. QED
    BY <1>2, <1>4, <1>5, <2>2, <2>3, <2>4, StopsMoved
<1>10. QED
  BY <1>7, <1>8, <1>9

LEMMA StopsNext ==
  ASSUME QueueInv, StreamTypes, HubTypes, Stops, [Next]_vars
  PROVE  Stops'
<1>1. Stopping => ~want.desired /\ intent \in 1..Len(asked) /\ asked[intent].op \in Stoppers
  BY DEF Stops, Stopping, Newest, QueueInv, RequestTypes
<1>2. /\ Users = {"play", "resume", "stop", "off"} /\ Stoppers = {"stop", "off"}
      /\ Background = {"reconcile", "watchdog", "slow", "health", "resync"}
      /\ Ats = {"resolve", "suspend", "cancel", "lock", "remote", "release", "done", "failed"}
      /\ Quiets = {"enter", "quiet", "stop", "detach"}
      /\ "none" \in Names /\ Stations \subseteq Names
  BY DEF Users, Stoppers, Background, Ats, Quiets, Names
<1>3. lock # <<>> => Me \in Owners /\ Me \in Range(lock) /\ Owns(Me)
  BY MeIsOwner
<1>4. Gone => (\A h \in Hubs : prep[h] = "no") /\ stream.feed = "none" /\ step \in Quiets
  BY DEF Gone
<1>5. CASE UNCHANGED <<intent, asked, queue>> /\ Silent
  BY <1>5, StopsStay
<1>6. /\ \A s : s.feed = "none" => Unspawned(s).feed = "none"
      /\ NoStream.feed = "none" /\ \A h \in Hubs : AllIdle[h] = "no"
  BY DEF Unspawned, NoStream, AllIdle
<1>7. CASE ~Stopping'
  BY <1>7 DEF Stops
<1>8. CASE User
  <2>1. ASSUME NEW station \in Stations, Play(station) PROVE Stops'
    <3>1. NextIntent("play", "resolve", station)
      BY <2>1 DEF Play
    <3>2. asked'[intent'] = [op |-> "play", at |-> "resolve", station |-> station]
      BY <1>2, <3>1, NextIsAdded
    <3>3. QED
      BY <1>2, <1>7, <3>2 DEF Stopping, Newest
  <2>2. CASE Resume
    <3>1. PICK place \in {"failed", "resolve"} : NextIntent("resume", place, want.media)
      BY <2>2 DEF Resume
    <3>2. want.media \in Names
      BY <2>2 DEF StreamTypes, Wants
    <3>3. asked'[intent'] = [op |-> "resume", at |-> place, station |-> want.media]
      BY <1>2, <3>1, <3>2, NextIsAdded
    <3>4. QED
      BY <1>2, <1>7, <3>3 DEF Stopping, Newest
  <2>3. CASE Stop
    <3>1. NextIntent("stop", "cancel", "none") /\ Interrupt({Recovery("reconcile")}, <<>>)
          /\ want' = Halted(want)
      BY <2>3 DEF Stop
    <3>2. /\ asked'[intent'] = [op |-> "stop", at |-> "cancel", station |-> "none"]
          /\ intent' = intent + 1
      <4>1. "cancel" \in StopPlaces
        BY DEF StopPlaces
      <4>2. QED
        BY <1>2, <3>1, <4>1, NextIsAdded DEF NextIntent
    <3>3. ~want'.desired
      BY <3>1 DEF Halted, StreamTypes, Wants
    <3>4. /\ lock' \in Seq(Owners)
          /\ Range(lock') \subseteq Range(lock) \cup Range(<<>>)
      BY <3>1, QueueLoses, NoNewcomer DEF QueueInv, QueueTypes
    <3>5. \A owner \in Range(lock) : owner # Owner("stop", intent + 1)
      BY DEF QueueInv, LockInv, Owns, RequestTypes, Owner
    <3>6. Stopper' \notin Range(lock')
      BY <3>2, <3>4, <3>5, NoNewcomer DEF Stopper, Newest
    <3>7. QED
      BY <3>2, <3>3, <3>6 DEF Stops, Newest
  <2>4. CASE TurnOff
    <3>1. Reset(asked, {})
      BY <2>4 DEF TurnOff
    <3>2. QED
      BY <3>1, StopsReset DEF QueueInv, RequestTypes
  <2>5. CASE Resync
    BY <1>1, <1>2, <2>5, StopsQueue DEF Resync, Silent, Gone
  <2>6. QED
    BY <1>8, <2>1, <2>2, <2>3, <2>4, <2>5 DEF User
<1>9. ASSUME NEW place \in {"done", "failed"}, lock # <<>>, UNCHANGED intent,
             Finish(place), Me.op \notin Stoppers, Stopping => Silent
      PROVE  Stops'
  BY <1>2, <1>9, StopsEnd
<1>10. \A op \in {"play", "resume"} : lock # <<>> /\ Me.op = op /\ IsCurrent(Me.n) => ~Stopping
  BY <1>1, <1>2, <1>3 DEF Owns, IsCurrent
<1>11. CASE Holder
  <2>1. CASE PlayEnters
    <3>1. CASE ~IsCurrent(Me.n)
      BY <1>1, <1>2, <1>4, <1>9, <2>1, <3>1 DEF PlayEnters, Holds, Me, Discard, Silent
    <3>2. CASE IsCurrent(Me.n)
      <4>1. ~Stopping /\ UNCHANGED <<intent, asked>>
        BY <1>10, <2>1, <3>2 DEF PlayEnters, Holds, Me
      <4>2. QED
        BY <1>7, <4>1 DEF Stopping, Newest
    <3>3. QED
      BY <3>1, <3>2
  <2>2. CASE ResumeEnters
    <3>1. CASE ~IsCurrent(Me.n)
      BY <1>1, <1>2, <1>4, <1>9, <2>2, <3>1 DEF ResumeEnters, Holds, Me, Discard, Silent
    <3>2. CASE IsCurrent(Me.n)
      <4>1. ~Stopping
        BY <1>10, <2>2, <3>2 DEF ResumeEnters, Holds, Me
      <4>2. CASE Running
        BY <1>2, <1>9, <2>2, <3>2, <4>1, <4>2 DEF ResumeEnters, Holds, Me
      <4>3. CASE ~Running
        <5>1. UNCHANGED <<intent, asked>>
          BY <2>2, <3>2, <4>3 DEF ResumeEnters
        <5>2. QED
          BY <1>7, <4>1, <5>1 DEF Stopping, Newest
      <4>4. QED
        BY <4>2, <4>3
    <3>3. QED
      BY <3>1, <3>2
  <2>3. CASE StopEnters
    BY <1>1, <1>2, <1>4, <2>3, StopsGoOn DEF StopEnters, Silent
  <2>4. CASE RecoveryEnters
    BY <1>1, <1>2, <1>4, <2>4, StopsGoOn DEF RecoveryEnters, Silent
  <2>5. CASE HealthEnters
    <3>1. CASE tasks.health = "lock" /\ want.desired
      BY <1>1, <2>5, <3>1, StopsGoOn DEF HealthEnters
    <3>2. CASE ~(tasks.health = "lock" /\ want.desired)
      BY <1>1, <1>2, <1>4, <1>9, <2>5, <3>2 DEF HealthEnters, Holds, Discard, Silent, Me
    <3>3. QED
      BY <3>1, <3>2
  <2>6. CASE ReconcileEnters
    <3> DEFINE Starts == want.desired /\ ~Running /\ Active # {} /\ want.url # "none"
                         /\ StartupReady
    <3>1. CASE Starts
      BY <1>1, <2>6, <3>1, StopsGoOn DEF ReconcileEnters
    <3>2. CASE ~Starts
      <4>1. /\ Discard /\ Holds({"reconcile"}, "enter")
            /\ UNCHANGED <<intent, want, stream, prep>>
        BY <2>6, <3>2 DEF ReconcileEnters, Discard
      <4>2. QED
        BY <1>1, <1>2, <1>4, <1>9, <4>1 DEF Holds, Discard, Silent, Me
    <3>3. QED
      BY <3>1, <3>2
  <2>7. CASE Quieted
    BY <1>1, <1>2, <1>4, <2>7, StopsGoOn DEF Quieted, Silent
  <2>8. CASE StopStream
    BY <1>1, <1>2, <1>4, <1>6, <2>8, StopsGoOn DEF StopStream, Silent
  <2>9. CASE Stopped
    BY <2>9, StopsReturn
  <2>10. CASE Restarts
    <3>1. CASE want.desired /\ want.url # "none"
      BY <1>1, <2>10, <3>1, StopsGoOn DEF Restarts
    <3>2. CASE ~(want.desired /\ want.url # "none")
      <4>1. /\ lock # <<>> /\ Me.op \in Restarters /\ Finish("done") /\ prep' = AllIdle
            /\ UNCHANGED <<intent, want, stream>>
        BY <2>10, <3>2 DEF Restarts, Holds, Me
      <4>2. Me.op \notin Stoppers
        BY <1>2, <4>1 DEF Restarters
      <4>3. QED
        BY <1>1, <1>4, <1>6, <1>9, <4>1, <4>2 DEF Silent
    <3>3. QED
      BY <3>1, <3>2
  <2>11. ASSUME NEW h \in Hubs, PlayerSuspended(h) PROVE Stops'
    BY <1>1, <1>2, <1>4, <2>11, StopsGoOn DEF PlayerSuspended, Silent
  <2>12. CASE Prepare
    BY <1>1, <1>2, <1>4, <2>12, StopsGoOn DEF Prepare, Silent
  <2>13. CASE CohortReady
    <3>1. CASE want.desired
      BY <1>1, <2>13, <3>1, StopsGoOn DEF CohortReady
    <3>2. CASE ~want.desired
      <4>1. /\ lock # <<>> /\ step = "prepare" /\ Finish("done")
            /\ UNCHANGED <<intent, want, stream, prep>>
        BY <2>13, <3>2 DEF CohortReady
      <4>2. Me.op \notin Stoppers
        BY <1>2, <4>1 DEF QueueInv, LockInv, Places, Me
      <4>3. QED
        BY <1>1, <1>4, <1>9, <4>1, <4>2 DEF Silent
    <3>3. QED
      BY <3>1, <3>2
  <2>14. CASE ResyncAbandoned
    <3>1. /\ lock # <<>> /\ Me.op = "resync" /\ Finish("done") /\ prep' = AllIdle
          /\ UNCHANGED <<intent, want, stream>>
      BY <2>14 DEF ResyncAbandoned, Holds, Me
    <3>2. QED
      BY <1>1, <1>2, <1>4, <1>6, <1>9, <3>1 DEF Silent
  <2>15. CASE Spawned
    <3>1. /\ lock # <<>> /\ step = "spawn" /\ Finish("done") /\ UNCHANGED <<intent, prep>>
          /\ want' = (IF Me.op = "reconcile" THEN NoStartup(want) ELSE want)
      BY <2>15 DEF Spawned
    <3>4. want'.desired = want.desired
      BY <3>1 DEF NoStartup, StreamTypes, Wants
    <3>2. Me.op \notin Stoppers
      BY <1>2, <3>1 DEF QueueInv, LockInv, Places, Me
    <3>3. QED
      BY <1>1, <1>4, <1>9, <3>1, <3>2, <3>4 DEF Silent
  <2>16. QED
    BY <1>11, <2>1, <2>2, <2>3, <2>4, <2>5, <2>6, <2>7, <2>8, <2>9, <2>10, <2>11, <2>12, <2>13,
       <2>14, <2>15 DEF Holder

<1>12. ASSUME want.desired, UNCHANGED <<intent, asked>> PROVE Stops'
  <2>1. ~Stopping
    BY <1>1, <1>12
  <2>2. QED
    BY <1>7, <1>12, <2>1 DEF Stopping, Newest
<1>13. CASE Watchers
  <2>1. CASE Primes \/ Primed \/ HealthStalls
    <3>1. want.desired /\ UNCHANGED <<intent, asked>>
      BY <2>1 DEF Primes, Primed, HealthStalls, streamOnly
    <3>2. QED
      BY <1>12, <3>1
  <2>2. CASE WatchdogChecks \/ SlowRetryChecks
    <3>1. UNCHANGED <<intent, asked, queue, want, stream, prep>>
      BY <2>2 DEF WatchdogChecks, SlowRetryChecks, streamOnly
    <3>2. CASE want.desired
      BY <1>12, <3>1, <3>2
    <3>3. CASE ~want.desired
      BY <1>4, <1>5, <3>1, <3>3 DEF Silent
    <3>4. QED
      BY <3>2, <3>3
  <2>3. CASE WatchdogWakes \/ SlowRetryWakes
    <3>1. UNCHANGED <<intent, asked, stream, prep>>
      BY <2>3 DEF WatchdogWakes, SlowRetryWakes
    <3>2. CASE want.desired
      BY <1>12, <3>1, <3>2
    <3>3. CASE ~want.desired
      <4>1. UNCHANGED <<want, queue>>
        BY <2>3, <3>3 DEF WatchdogWakes, SlowRetryWakes
      <4>2. QED
        BY <1>4, <1>5, <3>1, <3>3, <4>1 DEF Silent
    <3>4. QED
      BY <3>2, <3>3
  <2>4. CASE Stable
    <3>1. /\ Interrupt({Recovery("slow")}, <<>>) /\ UNCHANGED <<intent, asked, stream, prep>>
          /\ want' = [want EXCEPT !.attempts = 0]
      BY <2>4 DEF Stable
    <3>2. RequestTypes' /\ SameOps /\ want'.desired = want.desired
      BY <3>1 DEF QueueInv, RequestTypes, SameOps, StreamTypes, Wants
    <3>3. Stopping => Silent /\ Stopper \notin {Recovery("slow")}
      BY <1>1, <1>2, <1>4, <3>1, <3>2, RecoveryIsNoStopper DEF Silent
    <3>4. QED
      BY <3>1, <3>2, <3>3, StopsLose
  <2>5. QED
    BY <1>13, <2>1, <2>2, <2>3, <2>4 DEF Watchers
<1>14. ASSUME NEW h \in Hubs, NEW place \in {"no", "suspend", "connect", "up"}, Prep(h, place),
              place = "no" \/ prep[h] # "no"
       PROVE  Gone => \A g \in Hubs : prep'[g] = "no"
  BY <1>4, <1>14 DEF Prep, HubTypes
<1>15. CASE Disturbance
  <2>1. CASE SourceEnds
    <3>1. UNCHANGED <<intent, asked, queue, want, prep>> /\ stream.feed # "none"
      BY <2>1 DEF SourceEnds
    <3>2. CASE want.desired
      BY <1>12, <3>1, <3>2
    <3>3. CASE ~want.desired
      BY <1>4, <1>5, <3>1, <3>3 DEF Silent
    <3>4. QED
      BY <3>2, <3>3
  <2>2. CASE SpawnFails
    <3>1. /\ lock # <<>> /\ step = "spawn" /\ Finish("failed") /\ stream' = NoStream
          /\ UNCHANGED <<intent, want, prep>>
      BY <2>2 DEF SpawnFails
    <3>2. Me.op \notin Stoppers
      BY <1>2, <3>1 DEF QueueInv, LockInv, Places, Me
    <3>3. QED
      BY <1>1, <1>4, <1>6, <1>9, <3>1, <3>2 DEF Silent
  <2>3. CASE CohortMissing
    <3>1. lock # <<>> /\ step = "prepare" /\ UNCHANGED <<intent, want, stream, prep>>
      BY <2>3 DEF CohortMissing
    <3>2. Stopping => Silent
      BY <1>1, <1>4, <3>1 DEF Silent
    <3>3. CASE Me.op = "resync"
      <4>1. step' = "giveup" /\ UNCHANGED <<asked, lock>>
        BY <2>3, <3>3 DEF CohortMissing
      <4>2. QED
        BY <1>2, <3>1, <3>2, <4>1, StopsGoOn
    <3>4. CASE Me.op # "resync"
      <4>1. Finish("done")
        BY <2>3, <3>4 DEF CohortMissing
      <4>2. Me.op \notin Stoppers
        BY <1>2, <3>1 DEF QueueInv, LockInv, Places, Me
      <4>3. QED
        BY <1>9, <3>1, <3>2, <4>1, <4>2
    <3>5. QED
      BY <3>3, <3>4
  <2>4. ASSUME NEW h \in Hubs, MemberFails(h) \/ HubLeaves(h) \/ Disable(h) \/ Enable(h)
        PROVE  Stops'
    <3>1. UNCHANGED <<intent, asked, queue, want, stream>> /\ (Prep(h, "no") \/ UNCHANGED prep)
      BY <2>4 DEF MemberFails, HubLeaves, Disable, Enable, prepOnly
    <3>2. Gone => \A g \in Hubs : prep'[g] = "no"
      BY <1>4, <1>14, <3>1
    <3>3. CASE want.desired
      BY <1>12, <3>1, <3>3
    <3>4. CASE ~want.desired
      BY <1>5, <3>1, <3>2, <3>4 DEF Silent
    <3>5. QED
      BY <3>3, <3>4
  <2>5. QED
    BY <1>15, <2>1, <2>2, <2>3, <2>4 DEF Disturbance
<1>16. ASSUME NEW h \in Hubs, Member(h) PROVE Stops'
  <2>1. UNCHANGED <<intent, asked, queue, want, stream>>
    BY <1>16 DEF Member, TickPrepares, TickIsolates, MemberSuspended, MemberConnected,
                 HubReturns, Disabled, Enabled, prepOnly
  <2>2. CASE want.desired
    BY <1>12, <2>1, <2>2
  <2>3. CASE ~want.desired
    <3>1. \/ UNCHANGED prep
          \/ \E place \in {"no", "suspend", "connect", "up"} : Prep(h, place) /\ prep[h] # "no"
      BY <1>16, <2>3 DEF Member, TickPrepares, TickIsolates, MemberSuspended, MemberConnected,
                         HubReturns, Disabled, Enabled, Reconciling
    <3>2. Gone => \A g \in Hubs : prep'[g] = "no"
      BY <1>4, <1>14, <3>1
    <3>3. QED
      BY <1>5, <2>1, <2>3, <3>2 DEF Silent
  <2>4. QED
    BY <2>2, <2>3
<1>17. CASE StartupExpires \/ TickEnds \/ TickStarts \/ UNCHANGED vars
  <2>1. CASE want.desired /\ ~StartupExpires
    <3>1. UNCHANGED <<intent, asked>>
      BY <1>17, <2>1 DEF TickEnds, TickStarts, vars, streamOnly
    <3>2. QED
      BY <1>12, <2>1, <3>1
  <2>2. CASE StartupExpires
    <3>1. /\ UNCHANGED <<intent, asked, queue, stream, prep>>
          /\ want' = [want EXCEPT !.startup = "expired"]
      BY <2>2 DEF StartupExpires
    <3>2. want'.desired = want.desired
      BY <3>1 DEF StreamTypes, Wants
    <3>3. QED
      BY <1>4, <1>5, <1>12, <3>1, <3>2 DEF Silent
  <2>3. CASE ~want.desired /\ (TickEnds \/ TickStarts \/ UNCHANGED vars)
    <3>1. UNCHANGED <<intent, asked, queue, want, stream, prep>>
      BY <2>3 DEF TickEnds, TickStarts, Reconciling, vars, streamOnly
    <3>2. QED
      BY <1>4, <1>5, <2>3, <3>1 DEF Silent
  <2>4. QED
    BY <1>17, <2>1, <2>2, <2>3

<1>18. ASSUME NEW n \in DOMAIN asked,
              Request(n) \/ ResolveFails(n) \/ StopTimesOut(n) \/ ResetTimesOut(n)
       PROVE  Stops'
  <2>1. n \in 1..Len(asked) /\ asked \in Seq(Requests) /\ intent = Len(asked) /\ n \in Nat
    BY LenProperties DEF QueueInv, RequestTypes
  <2>2. ASSUME NEW place \in Ats, GoTo(n, place), UNCHANGED <<intent, queue>>,
               ~Stopping \/ (Silent /\ n # intent)
        PROVE  Stops'
    BY <2>1, <2>2, StopsOther
  <2>3. UNCHANGED <<stream, prep>> /\ ~want'.desired /\ ~want.desired => Silent
    BY <1>4 DEF Silent
  <2>4. CASE Resolved(n)
    <3>1. CASE IsCurrent(n)
      <4>1. /\ GoTo(n, "lock") /\ UNCHANGED intent /\ asked[n].op \in {"play", "resume"}
            /\ intent = n
        BY <2>4, <3>1 DEF Resolved, IsCurrent
      <4>2. asked'[n].op = asked[n].op
        BY <1>2, <2>1, <4>1, RequestWent DEF QueueInv
      <4>3. ~Stopping'
        BY <1>2, <4>1, <4>2 DEF Stopping, Newest
      <4>4. QED
        BY <1>7, <4>3
    <3>2. CASE ~IsCurrent(n)
      <4>1. /\ GoTo(n, "done") /\ UNCHANGED <<intent, queue, stream, prep>> /\ n # intent
            /\ want' = (IF asked[n].op = "resume" THEN [want EXCEPT !.url = asked[n].station]
                                                  ELSE want)
        BY <2>4, <3>2 DEF Resolved, IsCurrent
      <4>2. want'.desired = want.desired
        BY <4>1 DEF StreamTypes, Wants
      <4>3. QED
        BY <1>1, <1>2, <2>2, <2>3, <4>1, <4>2
    <3>3. QED
      BY <3>1, <3>2
  <2>5. CASE Restore(n)
    <3>1. PICK place \in {"suspend", "done"} : GoTo(n, place)
      BY <2>5 DEF Restore
    <3>2. UNCHANGED <<intent, queue, stream, prep>> /\ asked[n].op = "startup"
      BY <2>5 DEF Restore, At
    <3>3. want'.desired = want.desired
      BY <2>5 DEF Restore, StreamTypes, Wants
    <3>4. Stopping => n # intent
      BY <1>1, <1>2, <3>2
    <3>5. QED
      BY <1>1, <1>2, <2>2, <2>3, <3>1, <3>2, <3>3, <3>4
  <2>6. CASE RestoreSuspends(n)
    <3>1. /\ GoTo(n, "done") /\ UNCHANGED <<intent, queue, want, stream, prep>>
          /\ asked[n].op = "startup"
      BY <2>6 DEF RestoreSuspends, At
    <3>2. Stopping => n # intent
      BY <1>1, <1>2, <3>1
    <3>3. QED
      BY <1>1, <1>2, <2>2, <2>3, <3>1, <3>2
  <2>7. CASE ResolveFails(n)
    <3>1. GoTo(n, "failed") /\ UNCHANGED <<intent, queue, want, stream, prep>>
      BY <2>7 DEF ResolveFails
    <3>2. Stopping => n # intent
      BY <1>1, <1>2, <2>1, <2>7 DEF ResolveFails, QueueInv, Programs, StopPlaces
    <3>3. QED
      BY <1>1, <1>2, <2>2, <2>3, <3>1, <3>2
  <2>8. CASE RemoteCleaned(n) \/ Released(n)
    <3>1. PICK place \in {"release", "done"} :
            GoTo(n, place) /\ UNCHANGED <<intent, queue, want, stream, prep>>
            /\ asked[n].at \in {"remote", "release"}
      BY <2>8 DEF RemoteCleaned, Released
    <3>2. CASE n # intent
      BY <1>1, <1>2, <2>2, <2>3, <3>1, <3>2
    <3>3. CASE n = intent /\ Stopping
      <4>1. ~want.desired /\ Gone
        BY <3>1, <3>3 DEF Stops, Newest
      <4>2. Gone'
        BY <3>1, <4>1 DEF Gone, queue
      <4>3. Newest'.at = place
        BY <1>2, <2>1, <3>1, <3>3, RequestWent DEF QueueInv, Newest
      <4>4. QED
        BY <3>1, <4>1, <4>2, <4>3 DEF Stops
    <3>4. CASE ~Stopping
      BY <1>2, <2>2, <3>1, <3>4
    <3>5. QED
      BY <3>2, <3>3, <3>4
  <2>9. CASE CancelRecovery(n)
    <3>1. /\ GoTo(n, "lock") /\ UNCHANGED <<intent, want, prep>> /\ asked[n].op \in Stoppers
          /\ Interrupt({Recovery("watchdog"), Recovery("slow")}, <<Owner(asked[n].op, n)>>)
          /\ stream' = Unspawned(stream) /\ asked[n].at = "cancel"
      BY <2>9 DEF CancelRecovery, Stoppers
    <3>2. /\ RequestTypes' /\ SameOps /\ asked'[n].at = "lock"
          /\ \A i \in 1..Len(asked) : /\ asked'[i].op = asked[i].op
                                      /\ i # n => asked'[i] = asked[i]
      BY <1>2, <2>1, <3>1, RequestWent DEF QueueInv
    <3>3. PICK owner \in Owners : owner = Owner(asked[n].op, n)
      BY <1>2, <2>1, <3>1 DEF Owner, Owners
    <3>4. <<owner>> \in Seq(Owners) /\ Range(<<owner>>) = {owner}
      BY <3>3 DEF Range
    <3>5. Interrupt({Recovery("watchdog"), Recovery("slow")}, <<owner>>)
      BY <3>1, <3>3
    <3>6. /\ lock' \in Seq(Owners) /\ Moved /\ Range(lock') \subseteq Range(lock) \cup {owner}
          /\ owner \in Range(lock')
          /\ \A other \in Range(lock) :
               other \notin {Recovery("watchdog"), Recovery("slow")} => other \in Range(lock')
      BY <3>4, <3>5, QueueLoses DEF QueueInv, QueueTypes
    <3>7. Stopping => Silent
      BY <1>1, <1>4, <1>6, <3>1 DEF Silent
    <3>8. CASE n # intent
      <4>1. ASSUME Stopping
            PROVE  asked'[intent] = asked[intent]
                   /\ (Stopper \in Range(lock') <=> Stopper \in Range(lock))
        <5>1. asked'[intent] = asked[intent]
          BY <1>1, <3>2, <3>8, <4>1
        <5>2. Stopper # owner
          BY <3>3, <3>8 DEF Stopper, Owner
        <5>3. Stopper \notin {Recovery("watchdog"), Recovery("slow")}
          BY <1>2, <4>1, RecoveryIsNoStopper
        <5>4. QED
          BY <3>6, <5>1, <5>2, <5>3
      <4>2. QED
        BY <3>1, <3>2, <3>6, <3>7, <4>1, StopsMoved DEF QueueInv
    <3>9. CASE n = intent /\ Stopping'
      <4>1. Stopping /\ Stopper' = Stopper /\ owner = Stopper
        BY <3>1, <3>2, <3>3, <3>9, StillStopping DEF QueueInv, Stopper, Newest
      <4>2. ~want'.desired /\ Newest'.at = "lock"
        BY <1>1, <3>1, <3>2, <3>9, <4>1 DEF Newest
      <4>3. Stopper \notin Range(lock)
        BY <3>1, <3>9, <4>1 DEF Stops, Newest
      <4>4. step' = "detach" => Me' # Stopper
        <5>1. SUFFICES ASSUME step' = "detach" PROVE Me' # Stopper
          OBVIOUS
        <5>2. step = "detach" /\ lock # <<>> /\ Me' = Me
          BY <3>6, <5>1 DEF Moved, QueueInv, LockInv, Places
        <5>3. QED
          BY <1>3, <4>3, <5>2
      <4>5. Coming'
        BY <3>6, <4>1, <4>4 DEF Coming
      <4>6. QED
        BY <4>2, <4>5 DEF Stops
    <3>10. QED
      BY <1>7, <3>8, <3>9
  <2>10. CASE StopTimesOut(n)
    <3> DEFINE requests == [asked EXCEPT ![n].at = "done"]
    <3>1. Reset(requests, {Owner("stop", n)})
      BY <2>10 DEF StopTimesOut
    <3>2. /\ requests \in Seq(Requests) /\ Len(requests) = Len(asked) /\ requests[n].at = "done"
          /\ \A i \in 1..Len(asked) : /\ requests[i].op = asked[i].op
                                      /\ i # n => requests[i] = asked[i]
      <4>1. "done" \in Ats /\ Goes(requests, n, "done")
        BY <1>2 DEF Goes
      <4> HIDE DEF requests
      <4>2. QED
        BY <2>1, <4>1, RequestGoes
    <3> HIDE DEF requests
    <3>3. QED
      BY <3>1, <3>2, StopsReset
  <2>11. CASE ResetTimesOut(n)
    <3> DEFINE owners == {Owner("off", n)} \cup
                         {Recovery(op) : op \in {"reconcile", "watchdog", "slow", "health"}}
    <3>1. /\ asked' = [asked EXCEPT ![n].op = "forced", ![n].at = "remote"]
          /\ Interrupt(owners, <<>>) /\ prep' = AllIdle /\ UNCHANGED <<intent, want>>
          /\ stream' = (IF step' = "spawn" THEN stream ELSE NoStream)
      BY <2>11 DEF ResetTimesOut
    <3>2. /\ asked'[n].op = "forced" /\ Len(asked') = Len(asked)
          /\ \A i \in 1..Len(asked) : i # n => asked'[i] = asked[i]
      BY <2>1, <2>11, ResetWent DEF QueueInv
    <3>3. RequestTypes' /\ SameOps
      BY <2>1, <2>11, ResetWent DEF QueueInv
    <3>4. CASE n = intent
      <4>1. ~Stopping'
        BY <1>2, <3>1, <3>2, <3>4 DEF Stopping, Newest
      <4>2. QED
        BY <1>7, <4>1
    <3>5. CASE n # intent
      <4>1. ASSUME Stopping
            PROVE  Silent /\ asked'[intent] = asked[intent] /\ Stopper \notin owners
        <5>1. Silent
          BY <1>1, <1>6, <3>1, <4>1 DEF Silent
        <5>2. asked'[intent] = asked[intent]
          BY <1>1, <3>2, <3>5, <4>1
        <5>3. Stopper # Owner("off", n)
          BY <3>5 DEF Stopper, Owner
        <5>4. QED
          BY <1>2, <4>1, <5>1, <5>2, <5>3, RecoveryIsNoStopper
      <4> HIDE DEF owners
      <4>2. QED
        BY <3>1, <3>3, <4>1, StopsLose
    <3>6. QED
      BY <3>4, <3>5
  <2>12. QED
    BY <1>18, <2>4, <2>5, <2>6, <2>7, <2>8, <2>9, <2>10, <2>11 DEF Request
<1>19. QED
  BY <1>8, <1>11, <1>13, <1>15, <1>16, <1>17, <1>18 DEF Next

-----------------------------------------------------------------------------
(* The players.                                                            *)

\* A restored station that is the newest request was that, and it is at its suspension
\* since Restore.
SameStart ==
  intent' > 0 /\ Newest'.op = "startup" =>
    /\ UNCHANGED intent /\ Newest.op = "startup"
    /\ Newest'.at = "suspend" => Newest.at = "suspend" \/ Restore(intent)
Program == SameOps /\ SameStart /\ Cleaners'

LEMMA ProgramAdds ==
  ASSUME QueueInv, Cleaners, RequestTypes', SameOps, Len(asked') = Len(asked) + 1,
         asked'[intent'].op # "startup", asked'[intent'].at \notin {"remote", "release"},
         \A n \in 1..Len(asked) : asked'[n] = asked[n] \/ asked'[n].at = "done"
  PROVE  Program
<1>1. \A n \in 1..Len(asked') : n \in 1..Len(asked) \/ n = intent'
  BY DEF QueueInv, RequestTypes
<1>2. Cleaners'
  <2>1. SUFFICES ASSUME NEW n \in 1..Len(asked'), asked'[n].at \in {"remote", "release"}
                 PROVE  asked'[n].op \in Stoppers \cup {"forced"}
    BY DEF Cleaners, Stoppers
  <2>2. n \in 1..Len(asked) /\ asked'[n] = asked[n]
    BY <1>1, <2>1
  <2>3. QED
    BY <2>1, <2>2 DEF Cleaners
<1>3. QED
  BY <1>2 DEF Program, SameStart, Newest

LEMMA ProgramStays ==
  ASSUME QueueInv, Cleaners, UNCHANGED <<intent, asked>>
  PROVE  Program
BY DEF Program, SameOps, SameStart, Newest, Cleaners, QueueInv, RequestTypes

\* A request goes on, to a place where nothing is suspended or cleaned up, or as a
\* cleanup does.
LEMMA ProgramGoes ==
  ASSUME QueueInv, Cleaners, UNCHANGED intent, NEW n \in 1..Len(asked), NEW place \in Ats,
         GoTo(n, place), place = "suspend" => Restore(n),
         place \in {"remote", "release"} => asked[n].op \in Stoppers \cup {"forced"}
  PROVE  Program
<1>1. /\ RequestTypes' /\ SameOps /\ Len(asked') = Len(asked) /\ asked'[n].at = place
      /\ \A i \in 1..Len(asked) : asked'[i].op = asked[i].op /\ (i # n => asked'[i] = asked[i])
  BY RequestWent DEF QueueInv
<1>2. intent > 0 => intent \in 1..Len(asked)
  BY DEF QueueInv, RequestTypes
<1>3. SameStart
  BY <1>1, <1>2 DEF SameStart, Newest
<1>4. Cleaners'
  BY <1>1 DEF Cleaners
<1>5. QED
  BY <1>1, <1>3, <1>4 DEF Program

LEMMA ProgramReturns ==
  ASSUME QueueInv, Cleaners, UNCHANGED intent, lock # <<>>, NEW place \in Ats, Finish(place),
         place # "suspend", place \in {"remote", "release"} => Me.op \in Stoppers
  PROVE  Program
<1>1. Returned(place)
  BY HolderReturns DEF QueueInv
<1>2. intent > 0 => intent \in 1..Len(asked)
  BY DEF QueueInv, RequestTypes
<1>3. \A i \in 1..Len(asked) : /\ asked'[i].op = asked[i].op
                               /\ \/ asked'[i] = asked[i]
                                  \/ /\ asked'[i].at = place
                                     /\ Me.op \in Stoppers =>
                                          asked[i].op \in Stoppers \cup {"forced"}
  BY <1>1 DEF Returned, Owns, Users, Background, Stoppers
<1>4. SameStart
  BY <1>2, <1>3 DEF SameStart, Newest
<1>5. Cleaners'
  BY <1>1, <1>3 DEF Cleaners, Returned
<1>6. QED
  BY <1>1, <1>4, <1>5 DEF Program, Returned

LEMMA ProgramNext ==
  ASSUME QueueInv, StreamTypes, HubTypes, Cleaners, [Next]_vars
  PROVE  Program
<1>1. CASE UNCHANGED <<intent, asked>>
  BY <1>1, ProgramStays
<1>2. /\ Users = {"play", "resume", "stop", "off"} /\ Stoppers = {"stop", "off"}
      /\ Ats = {"resolve", "suspend", "cancel", "lock", "remote", "release", "done", "failed"}
      /\ StopPlaces = {"cancel", "lock", "remote", "release", "done"}
      /\ "none" \in Names /\ Stations \subseteq Names
  BY DEF Users, Stoppers, Ats, StopPlaces, Names
<1>3. ASSUME NEW op \in Users, NEW place \in {"resolve", "failed", "cancel"}, NEW station \in Names,
             NextIntent(op, place, station), op \in Stoppers => place \in StopPlaces
      PROVE  Program
  <2>1. /\ RequestTypes' /\ SameOps /\ Len(asked') = Len(asked) + 1
        /\ asked'[intent'] = [op |-> op, at |-> place, station |-> station]
        /\ \A n \in 1..Len(asked) : asked'[n] = asked[n]
    BY <1>2, <1>3, NextIsAdded
  <2>2. asked'[intent'].op # "startup" /\ asked'[intent'].at \notin {"remote", "release"}
    BY <1>2, <2>1
  <2>3. QED
    BY <2>1, <2>2, ProgramAdds
<1>4. ASSUME NEW requests \in Seq(Requests), Len(requests) = Len(asked),
             \A n \in 1..Len(asked) :
               requests[n].op = asked[n].op /\ (requests[n] = asked[n] \/ requests[n].at = "done"),
             NEW owners, Reset(requests, owners)
      PROVE  Program
  <2>1. /\ RequestTypes' /\ SameOps /\ Len(asked') = Len(asked) + 1
        /\ asked'[intent'] = [op |-> "off", at |-> "cancel", station |-> "none"]
        /\ \A n \in 1..Len(asked) : asked'[n] = requests[n]
    BY <1>4, ResetIsAdded
  <2>2. asked'[intent'].op # "startup" /\ asked'[intent'].at \notin {"remote", "release"}
    BY <2>1
  <2>3. \A n \in 1..Len(asked) : asked'[n] = asked[n] \/ asked'[n].at = "done"
    BY <1>4, <2>1
  <2>4. QED
    BY <2>1, <2>2, <2>3, ProgramAdds
<1>5. ASSUME NEW place \in {"done", "failed"}, lock # <<>>, UNCHANGED intent, Finish(place)
      PROVE  Program
  BY <1>2, <1>5, ProgramReturns
<1>6. CASE User
  <2>1. ASSUME NEW station \in Stations, Play(station) PROVE Program
    BY <1>2, <1>3, <2>1 DEF Play
  <2>2. CASE Resume
    <3>1. PICK place \in {"failed", "resolve"} : NextIntent("resume", place, want.media)
      BY <2>2 DEF Resume
    <3>2. want.media \in Names
      BY DEF StreamTypes, Wants
    <3>3. QED
      BY <1>2, <1>3, <3>1, <3>2
  <2>3. CASE Stop
    BY <1>2, <1>3, <2>3 DEF Stop
  <2>4. CASE TurnOff
    BY <1>4, <2>4 DEF TurnOff, QueueInv, RequestTypes
  <2>5. CASE Resync
    BY <1>1, <2>5 DEF Resync
  <2>6. QED
    BY <1>6, <2>1, <2>2, <2>3, <2>4, <2>5 DEF User
<1>7. CASE Holder
  <2>1. CASE PlayEnters \/ HealthEnters \/ ReconcileEnters
    <3>1. /\ lock # <<>> /\ UNCHANGED intent /\ (UNCHANGED asked \/ Finish("done"))
      BY <2>1 DEF PlayEnters, HealthEnters, ReconcileEnters, Holds, Discard
    <3>2. QED
      BY <1>1, <1>5, <3>1
  <2>2. CASE ResumeEnters \/ Restarts \/ CohortReady \/ ResyncAbandoned \/ Spawned
    <3>1. /\ lock # <<>> /\ UNCHANGED intent /\ (UNCHANGED asked \/ Finish("done"))
      BY <2>2 DEF ResumeEnters, Restarts, CohortReady, ResyncAbandoned, Spawned, Holds, Discard
    <3>2. QED
      BY <1>1, <1>5, <3>1
  <2>3. CASE StopEnters \/ RecoveryEnters \/ Quieted \/ StopStream \/ Prepare
    BY <1>1, <2>3 DEF StopEnters, RecoveryEnters, Quieted, StopStream, Prepare
  <2>4. ASSUME NEW h \in Hubs, PlayerSuspended(h) PROVE Program
    BY <1>1, <2>4 DEF PlayerSuspended
  <2>5. CASE Stopped
    <3>1. PICK place \in {"release", "remote"} : Finish(place)
      BY <2>5 DEF Stopped
    <3>2. lock # <<>> /\ UNCHANGED intent /\ Me.op \in Stoppers
      BY <1>2, <2>5 DEF Stopped, Holds, Me
    <3>3. QED
      BY <1>2, <3>1, <3>2, ProgramReturns
  <2>6. QED
    BY <1>7, <2>1, <2>2, <2>3, <2>4, <2>5 DEF Holder
<1>8. CASE Watchers
  BY <1>1, <1>8 DEF Watchers, Primes, Primed, HealthStalls, WatchdogWakes, SlowRetryWakes,
                    WatchdogChecks, SlowRetryChecks, Stable, streamOnly
<1>9. CASE Disturbance
  <2>1. CASE SpawnFails \/ CohortMissing
    <3>1. lock # <<>> /\ UNCHANGED intent
          /\ (UNCHANGED asked \/ Finish("done") \/ Finish("failed"))
      BY <2>1 DEF SpawnFails, CohortMissing
    <3>2. QED
      BY <1>1, <1>5, <3>1
  <2>2. CASE SourceEnds \/ \E h \in Hubs : MemberFails(h) \/ HubLeaves(h) \/ Disable(h)
                                           \/ Enable(h)
    BY <1>1, <2>2 DEF SourceEnds, MemberFails, HubLeaves, Disable, Enable, prepOnly
  <2>3. QED
    BY <1>9, <2>1, <2>2 DEF Disturbance
<1>10. ASSUME NEW h \in Hubs, Member(h) PROVE Program
  BY <1>1, <1>10 DEF Member, TickPrepares, TickIsolates, MemberSuspended, MemberConnected,
                     HubReturns, Disabled, Enabled, prepOnly
<1>11. CASE StartupExpires \/ TickEnds \/ TickStarts \/ UNCHANGED vars
  BY <1>1, <1>11 DEF StartupExpires, TickEnds, TickStarts, streamOnly, vars
<1>12. ASSUME NEW n \in DOMAIN asked,
              Request(n) \/ ResolveFails(n) \/ StopTimesOut(n) \/ ResetTimesOut(n)
       PROVE  Program
  <2>1. n \in 1..Len(asked) /\ asked \in Seq(Requests) /\ intent = Len(asked) /\ n \in Nat
    BY LenProperties DEF QueueInv, RequestTypes
  <2>2. ASSUME NEW place \in {"lock", "done", "failed"}, GoTo(n, place), UNCHANGED intent
        PROVE  Program
    BY <1>2, <2>1, <2>2, ProgramGoes
  <2>3. CASE Resolved(n) \/ RestoreSuspends(n) \/ ResolveFails(n) \/ CancelRecovery(n)
             \/ Released(n)
    <3>1. UNCHANGED intent /\ (GoTo(n, "lock") \/ GoTo(n, "done") \/ GoTo(n, "failed"))
      BY <2>3 DEF Resolved, RestoreSuspends, ResolveFails, CancelRecovery, Released
    <3>2. QED
      BY <2>2, <3>1
  <2>4. CASE Restore(n)
    <3>1. UNCHANGED intent /\ (GoTo(n, "suspend") \/ GoTo(n, "done"))
      BY <2>4 DEF Restore
    <3>2. QED
      BY <1>2, <2>1, <2>2, <2>4, <3>1, ProgramGoes
  <2>5. CASE RemoteCleaned(n)
    <3>1. GoTo(n, "release") /\ asked[n].at = "remote" /\ UNCHANGED intent
      BY <2>5 DEF RemoteCleaned
    <3>2. asked[n].op \in Stoppers \cup {"forced"}
      BY <2>1, <3>1 DEF Cleaners
    <3>3. QED
      BY <1>2, <2>1, <3>1, <3>2, ProgramGoes
  <2>6. CASE StopTimesOut(n)
    <3> DEFINE requests == [asked EXCEPT ![n].at = "done"]
    <3>1. Reset(requests, {Owner("stop", n)})
      BY <2>6 DEF StopTimesOut
    <3>2. /\ requests \in Seq(Requests) /\ Len(requests) = Len(asked) /\ requests[n].at = "done"
          /\ \A i \in 1..Len(asked) : /\ requests[i].op = asked[i].op
                                      /\ i # n => requests[i] = asked[i]
      <4>1. "done" \in Ats /\ Goes(requests, n, "done")
        BY <1>2 DEF Goes
      <4> HIDE DEF requests
      <4>2. QED
        BY <2>1, <4>1, RequestGoes
    <3> HIDE DEF requests
    <3>3. QED
      BY <1>4, <3>1, <3>2
  <2>7. CASE ResetTimesOut(n)
    <3>1. /\ SameOps /\ Len(asked') = Len(asked) /\ asked'[n].op = "forced"
          /\ \A i \in 1..Len(asked) : i # n => asked'[i] = asked[i]
      BY <2>1, <2>7, ResetWent DEF QueueInv
    <3>2. UNCHANGED intent
      BY <2>7 DEF ResetTimesOut
    <3>3. intent > 0 => intent \in 1..Len(asked)
      BY <2>1
    <3>4. SameStart
      BY <3>1, <3>2, <3>3 DEF SameStart, Newest
    <3>5. Cleaners'
      BY <3>1 DEF Cleaners
    <3>6. QED
      BY <3>1, <3>4, <3>5 DEF Program
  <2>8. QED
    BY <1>12, <2>3, <2>4, <2>5, <2>6, <2>7 DEF Request
<1>13. QED
  BY <1>6, <1>7, <1>8, <1>9, <1>10, <1>11, <1>12 DEF Next

\* A step that takes no player and gives none back, and prepares no hub.
NothingTaken ==
  /\ UNCHANGED <<selected, suspended, held, enabling, overtaken>> /\ gather' \subseteq gather
  /\ \A h \in Hubs : prep'[h] \in {"no", prep[h]}
TakesOrGives ==
  \/ Restarts \/ (\E h \in Hubs : PlayerSuspended(h)) \/ Prepare
  \/ \E h \in Hubs : \/ TickPrepares(h) \/ MemberSuspended(h) \/ MemberConnected(h)
                     \/ Disable(h) \/ Disabled(h) \/ Enable(h) \/ Enabled(h)
  \/ \E n \in DOMAIN asked : Restore(n) \/ RestoreSuspends(n) \/ Released(n)

LEMMA Takes ==
  ASSUME HubTypes, [Next]_vars
  PROVE  NothingTaken \/ TakesOrGives
<1>1. ASSUME UNCHANGED <<selected, suspended, held, enabling, overtaken, prep>>,
             gather' \subseteq gather
      PROVE  NothingTaken
  BY <1>1 DEF NothingTaken
<1>2. ASSUME UNCHANGED <<selected, suspended, held, enabling, overtaken>>, gather' \subseteq gather,
             prep' = AllIdle
      PROVE  NothingTaken
  BY <1>2 DEF NothingTaken, AllIdle
<1>3. \A owners, newcomer : Interrupt(owners, newcomer) => gather' \subseteq gather
  BY DEF Interrupt
<1>4. \A place : Finish(place) => gather' \subseteq gather
  BY DEF Finish, Release
<1>5. CASE User
  <2>1. UNCHANGED <<selected, suspended, held, enabling, overtaken, prep>>
    BY <1>5 DEF User, Play, Resume, Stop, TurnOff, Reset, Resync, hubs, players, switches
  <2>2. gather' \subseteq gather
    <3>1. (\E owners, newcomer : Interrupt(owners, newcomer)) \/ UNCHANGED gather
      BY <1>5 DEF User, Play, Resume, Stop, TurnOff, Reset, Resync, Queue, queue
    <3>2. QED
      BY <1>3, <3>1
  <2>3. QED
    BY <1>1, <2>1, <2>2
<1>6. CASE Holder /\ ~TakesOrGives
  <2>1. CASE PlayEnters \/ ResumeEnters \/ StopEnters \/ RecoveryEnters \/ HealthEnters
             \/ ReconcileEnters \/ Quieted \/ StopStream \/ CohortReady \/ Spawned
    <3>1. UNCHANGED <<selected, suspended, held, enabling, overtaken, prep>>
      BY <2>1 DEF PlayEnters, ResumeEnters, StopEnters, RecoveryEnters, HealthEnters,
                  ReconcileEnters, Quieted, StopStream, CohortReady, Spawned, hubs, players,
                  switches
    <3>2. (\E place : Finish(place)) \/ UNCHANGED gather
      BY <2>1 DEF PlayEnters, ResumeEnters, StopEnters, RecoveryEnters, HealthEnters,
                  ReconcileEnters, Quieted, StopStream, CohortReady, Spawned, Discard
    <3>3. QED
      BY <1>1, <1>4, <3>1, <3>2
  <2>2. CASE Stopped \/ ResyncAbandoned
    <3>1. /\ UNCHANGED <<selected, suspended, held, enabling, overtaken>> /\ prep' = AllIdle
          /\ \E place : Finish(place)
      BY <2>2 DEF Stopped, ResyncAbandoned, hubs, players, switches
    <3>2. QED
      BY <1>2, <1>4, <3>1
  <2>3. QED
    BY <1>6, <2>1, <2>2 DEF Holder, TakesOrGives
<1>7. CASE Watchers
  <2>1. UNCHANGED <<selected, suspended, held, enabling, overtaken, prep>>
    BY <1>7 DEF Watchers, Primes, Primed, HealthStalls, WatchdogWakes, SlowRetryWakes,
                WatchdogChecks, SlowRetryChecks, Stable, streamOnly, hubs, players, switches
  <2>2. (\E owners, newcomer : Interrupt(owners, newcomer)) \/ UNCHANGED gather
    BY <1>7 DEF Watchers, Primes, Primed, HealthStalls, WatchdogWakes, SlowRetryWakes,
                WatchdogChecks, SlowRetryChecks, Stable, streamOnly, Queue, queue
  <2>3. QED
    BY <1>1, <1>3, <2>1, <2>2
<1>8. ASSUME NEW h \in Hubs, Prep(h, "no"),
             UNCHANGED <<selected, suspended, held, enabling, overtaken, gather>>
      PROVE  NothingTaken
  BY <1>8 DEF Prep, NothingTaken, HubTypes
<1>9. CASE Disturbance /\ ~TakesOrGives
  <2>1. CASE SourceEnds \/ SpawnFails \/ CohortMissing
    <3>1. UNCHANGED <<selected, suspended, held, enabling, overtaken, prep>>
      BY <2>1 DEF SourceEnds, SpawnFails, CohortMissing, hubs, players, switches
    <3>2. (\E place : Finish(place)) \/ UNCHANGED gather
      BY <2>1 DEF SourceEnds, SpawnFails, CohortMissing, queue
    <3>3. QED
      BY <1>1, <1>4, <3>1, <3>2
  <2>2. ASSUME NEW h \in Hubs, MemberFails(h) \/ HubLeaves(h) PROVE NothingTaken
    <3>1. /\ UNCHANGED <<selected, suspended, held, enabling, overtaken, gather>>
          /\ Prep(h, "no") \/ UNCHANGED prep
      BY <2>2 DEF MemberFails, HubLeaves, prepOnly, hubs, players, switches, queue
    <3>2. CASE Prep(h, "no")
      BY <1>8, <3>1, <3>2
    <3>3. QED
      BY <1>1, <3>1, <3>2
  <2>3. QED
    BY <1>9, <2>1, <2>2 DEF Disturbance, TakesOrGives
<1>10. ASSUME NEW h \in Hubs, Member(h), ~TakesOrGives PROVE NothingTaken
  <2>1. TickIsolates(h) \/ HubReturns(h)
    BY <1>10 DEF Member, TakesOrGives
  <2>2. /\ UNCHANGED <<selected, suspended, held, enabling, overtaken, gather>>
        /\ Prep(h, "no") \/ UNCHANGED prep
    BY <2>1 DEF TickIsolates, HubReturns, prepOnly, hubs, players, switches, queue
  <2>3. CASE Prep(h, "no")
    BY <1>8, <2>2, <2>3
  <2>4. QED
    BY <1>1, <2>2, <2>3
<1>11. CASE StartupExpires \/ TickEnds \/ TickStarts \/ UNCHANGED vars
  <2>1. UNCHANGED <<selected, suspended, held, enabling, overtaken, prep, gather>>
    BY <1>11 DEF StartupExpires, TickEnds, TickStarts, Queue, streamOnly, vars, hubs, players,
                 switches, queue
  <2>2. QED
    BY <1>1, <2>1
<1>12. ASSUME NEW n \in DOMAIN asked, ~TakesOrGives,
              Request(n) \/ ResolveFails(n) \/ StopTimesOut(n) \/ ResetTimesOut(n)
       PROVE  NothingTaken
  <2>1. CASE Resolved(n) \/ CancelRecovery(n) \/ RemoteCleaned(n) \/ ResolveFails(n)
             \/ StopTimesOut(n)
    <3>1. UNCHANGED <<selected, suspended, held, enabling, overtaken, prep>>
      BY <2>1 DEF Resolved, CancelRecovery, RemoteCleaned, ResolveFails, StopTimesOut, Reset,
                  hubs, players, switches
    <3>2. (\E owners, newcomer : Interrupt(owners, newcomer)) \/ UNCHANGED gather
      BY <2>1 DEF Resolved, CancelRecovery, RemoteCleaned, ResolveFails, StopTimesOut, Reset,
                  Queue, queue
    <3>3. gather' \subseteq gather
      BY <1>3, <3>2
    <3>4. QED
      BY <1>1, <3>1, <3>3
  <2>2. CASE ResetTimesOut(n)
    <3>1. /\ UNCHANGED <<selected, suspended, held, enabling, overtaken>> /\ prep' = AllIdle
          /\ \E owners, newcomer : Interrupt(owners, newcomer)
      BY <2>2 DEF ResetTimesOut, hubs, players, switches
    <3>2. gather' \subseteq gather
      BY <1>3, <3>1
    <3>3. QED
      BY <1>2, <3>1, <3>2
  <2>3. QED
    BY <1>12, <2>1, <2>2 DEF Request, TakesOrGives
<1>13. QED
  BY <1>5, <1>6, <1>7, <1>9, <1>10, <1>11, <1>12 DEF Next

\* A hub is no longer prepared, or as it was, or its player was taken.
Noted == suspended \cup overtaken
PrepKept(h) ==
  \/ prep'[h] = "no"
  \/ prep'[h] = prep[h] /\ (h \in Noted => h \in Noted')
  \/ prep'[h] # "suspend" /\ h \in Noted'
  \/ prep'[h] = "suspend" /\ h \in Taken'

\* A request that is no restored station, or a restored one that already was at its place.
LEMMA HeldStays ==
  ASSUME Prepared, Gathered, Restored, SameStart, UNCHANGED <<selected, enabling>>,
         \A n \in DOMAIN asked : ~Restore(n), Taken \subseteq Taken',
         gather' \subseteq gather \cup Taken', \A h \in Hubs : PrepKept(h),
         RequestTypes
  PROVE  Prepared' /\ Gathered' /\ Restored'
<1>1. Prepared'
  BY DEF Prepared, PrepKept, Noted
<1>2. Gathered'
  BY DEF Gathered
<1>3. ASSUME intent' > 0, Newest'.op = "startup"
      PROVE  enabling' \subseteq Taken' /\ (Newest'.at = "suspend" => selected' \subseteq Taken')
  <2>1. /\ UNCHANGED intent /\ Newest.op = "startup" /\ intent > 0
        /\ Newest'.at = "suspend" => Newest.at = "suspend" \/ Restore(intent)
    BY <1>3 DEF SameStart
  <2>2. intent \in DOMAIN asked
    BY <2>1, LenProperties DEF RequestTypes
  <2>3. QED
    BY <2>1, <2>2 DEF Restored
<1>4. Restored'
  BY <1>3 DEF Restored
<1>5. QED
  BY <1>1, <1>2, <1>4

LEMMA EnablingApart ==
  ASSUME enabling \cap selected = {}, [Next]_vars, HubTypes
  PROVE  (enabling \cap selected = {})'
<1>1. CASE UNCHANGED <<selected, enabling>>
  BY <1>1
<1>2. CASE NothingTaken
  BY <1>1, <1>2 DEF NothingTaken
<1>3. CASE Restarts \/ (\E h \in Hubs : PlayerSuspended(h)) \/ Prepare
  BY <1>1, <1>3 DEF Restarts, PlayerSuspended, Prepare, hubs, switches
<1>4. ASSUME NEW h \in Hubs,
             \/ TickPrepares(h) \/ MemberSuspended(h) \/ MemberConnected(h)
             \/ Disable(h) \/ Disabled(h) \/ Enable(h) \/ Enabled(h)
      PROVE  (enabling \cap selected = {})'
  <2>1. CASE TickPrepares(h) \/ MemberSuspended(h) \/ MemberConnected(h) \/ Disabled(h)
    BY <1>1, <2>1 DEF TickPrepares, MemberSuspended, MemberConnected, Disabled, prepOnly, hubs,
                      switches
  <2>2. CASE Disable(h)
    BY <2>2 DEF Disable
  <2>3. CASE Enable(h)
    BY <2>3 DEF Enable, hubs
  <2>4. CASE Enabled(h)
    BY <2>4 DEF Enabled
  <2>5. QED
    BY <1>4, <2>1, <2>2, <2>3, <2>4
<1>5. CASE \E n \in DOMAIN asked : Restore(n) \/ RestoreSuspends(n) \/ Released(n)
  BY <1>1, <1>5 DEF Restore, RestoreSuspends, Released, hubs, switches
<1>6. QED
  BY <1>2, <1>3, <1>4, <1>5, Takes DEF TakesOrGives

\* Only hubs of the group are prepared.
LEMMA OffStays ==
  ASSUME Off, HubTypes, [Next]_vars
  PROVE  Off'
<1>1. CASE NothingTaken
  BY <1>1 DEF NothingTaken, Off
<1>2. CASE Restarts
  BY <1>2 DEF Restarts, AllIdle, Off
<1>3. CASE Prepare
  BY <1>3 DEF Prepare, Eligible, hubs, Off
<1>4. ASSUME NEW h \in Hubs,
             \/ PlayerSuspended(h) \/ Disabled(h) \/ Enable(h) \/ Enabled(h)
      PROVE  Off'
  BY <1>4 DEF PlayerSuspended, Disabled, Enable, Enabled, hubs, Off
<1>5. ASSUME NEW h \in Hubs, TickPrepares(h) \/ MemberSuspended(h) \/ MemberConnected(h)
      PROVE  Off'
  <2>1. UNCHANGED selected /\ (h \in selected \/ prep'[h] = "no")
    BY <1>5 DEF TickPrepares, MemberSuspended, MemberConnected, Prep, Eligible, prepOnly, hubs,
                HubTypes, Off
  <2>2. \A g \in Hubs : g # h => prep'[g] = prep[g]
    BY <1>5 DEF TickPrepares, MemberSuspended, MemberConnected, Prep, HubTypes
  <2>3. QED
    BY <2>1, <2>2 DEF Off
<1>6. ASSUME NEW h \in Hubs, Disable(h) PROVE Off'
  BY <1>6 DEF Disable, Prep, HubTypes, Off
<1>7. CASE \E n \in DOMAIN asked : Restore(n) \/ RestoreSuspends(n) \/ Released(n)
  BY <1>7 DEF Restore, RestoreSuspends, Released, hubs, Off
<1>8. QED
  BY <1>1, <1>2, <1>3, <1>4, <1>5, <1>6, <1>7, Takes DEF TakesOrGives

\* A hub of the step and what is prepared of it.
LEMMA Suspends ==
  ASSUME HubTypes, held' = held \cup Suspending'
  PROVE  /\ held \subseteq held'
         /\ \A h \in Hubs : prep'[h] = "suspend" => h \in held'
BY DEF Suspending

LEMMA PlayersNext ==
  ASSUME QueueInv, HubTypes, Cleaners, Stops, Players, Program, RequestTypes', [Next]_vars
  PROVE  Players'
<1>1. /\ (enabling \cap selected = {})' /\ enabling \cap selected = {}
      /\ Off /\ Off'
  BY EnablingApart, OffStays DEF Players
<1>2. RequestTypes /\ SameStart /\ SameOps
  BY DEF QueueInv, Program
<1>3. CASE Forced
  BY <1>1, <1>2, <1>3, ForcedStays DEF Players, RequestTypes
<1>4. SUFFICES ASSUME ~Forced, Prepared, Gathered, Restored
      PROVE  Forced' \/ (Prepared' /\ Gathered' /\ Restored')
  BY <1>1, <1>3 DEF Players
<1>5. ASSUME NEW n \in DOMAIN asked, Restore(n) PROVE Prepared' /\ Gathered' /\ Restored'
  <2>1. /\ UNCHANGED <<suspended, overtaken, selected, enabling, prep, gather, intent>>
        /\ n \in 1..Len(asked)
    BY <1>5, LenProperties DEF Restore, hubs, switches, queue, QueueInv, RequestTypes
  <2>2. held' = held \cup selected \/ (UNCHANGED held /\ GoTo(n, "done"))
    BY <1>5 DEF Restore
  <2>3. ASSUME intent' > 0, Newest'.op = "startup"
        PROVE  enabling' \subseteq Taken' /\ (Newest'.at = "suspend" => selected' \subseteq Taken')
    <3>1. /\ Newest.op = "startup" /\ intent > 0 /\ enabling \subseteq Taken
          /\ Newest.at = "suspend" => selected \subseteq Taken
      BY <1>2, <2>1, <2>3, <1>4 DEF SameStart, Restored
    <3>2. CASE held' = held \cup selected
      BY <2>1, <3>1, <3>2 DEF Taken
    <3>3. CASE UNCHANGED held /\ GoTo(n, "done")
      <4>1. "done" \in Ats
        BY DEF Ats
      <4>2. /\ asked'[n].at = "done"
            /\ \A i \in 1..Len(asked) : i # n => asked'[i] = asked[i]
        BY <1>2, <2>1, <3>3, <4>1, RequestWent
      <4>3. intent \in 1..Len(asked)
        BY <1>2, <3>1 DEF RequestTypes
      <4>4. Newest'.at = "suspend" => Newest.at = "suspend"
        BY <2>1, <4>2, <4>3 DEF Newest
      <4>5. QED
        BY <2>1, <3>1, <3>3, <4>4 DEF Taken
    <3>4. QED
      BY <2>2, <3>2, <3>3
  <2>4. QED
    BY <1>4, <2>1, <2>2, <2>3 DEF Prepared, Gathered, Restored, Taken
<1>6. ASSUME UNCHANGED <<selected, enabling>>, \A n \in DOMAIN asked : ~Restore(n),
             Taken \subseteq Taken', gather' \subseteq gather \cup Taken',
             \A h \in Hubs : PrepKept(h)
      PROVE  Prepared' /\ Gathered' /\ Restored'
  BY <1>2, <1>4, <1>6, HeldStays
<1>7. SUFFICES ASSUME \A n \in DOMAIN asked : ~Restore(n)
      PROVE  Forced' \/ (Prepared' /\ Gathered' /\ Restored')
  BY <1>5
<1>8. CASE NothingTaken
  BY <1>6, <1>7, <1>8 DEF NothingTaken, Taken, Noted, PrepKept
<1>9. CASE Restarts
  <2>1. /\ UNCHANGED <<selected, enabling, suspended>> /\ prep' = AllIdle
        /\ gather' \subseteq Taken' /\ Taken \subseteq Taken'
    BY <1>9 DEF Restarts, Finish, Release, hubs, Taken
  <2>2. \A h \in Hubs : PrepKept(h)
    BY <2>1 DEF AllIdle, PrepKept
  <2>3. QED
    BY <1>6, <1>7, <2>1, <2>2
<1>10. ASSUME NEW h \in Hubs, PlayerSuspended(h)
       PROVE  Prepared' /\ Gathered' /\ Restored'
  <2>1. UNCHANGED <<selected, enabling, held, prep, overtaken>>
        /\ suspended \subseteq suspended' /\ gather' \subseteq gather
    BY <1>10 DEF PlayerSuspended, hubs, switches
  <2>2. QED
    BY <1>6, <1>7, <2>1 DEF Taken, Noted, PrepKept
<1>11. CASE Prepare
  <2>1. /\ UNCHANGED <<selected, enabling, suspended, overtaken, gather>>
        /\ held' = held \cup Suspending'
        /\ \A h \in Hubs : prep'[h] \in {prep[h], Begin(h)}
    BY <1>11 DEF Prepare, hubs, switches
  <2>2. QED
    BY <1>6, <1>7, <2>1, Suspends DEF Begin, Taken, Noted, PrepKept
<1>12. ASSUME NEW h \in Hubs, TickPrepares(h)
       PROVE  Prepared' /\ Gathered' /\ Restored'
  <2>1. /\ UNCHANGED <<selected, enabling, suspended, overtaken, gather>>
        /\ held' = held \cup Suspending'
        /\ \A g \in Hubs : prep'[g] = prep[g] \/ (g = h /\ prep'[g] = Begin(h))
    BY <1>12 DEF TickPrepares, hubs, prepOnly, queue, Prep, HubTypes, switches
  <2>2. QED
    BY <1>6, <1>7, <2>1, Suspends DEF Begin, Taken, Noted, PrepKept
<1>13. ASSUME NEW h \in Hubs, MemberSuspended(h)
       PROVE  Prepared' /\ Gathered' /\ Restored'
  <2>1. /\ UNCHANGED <<selected, enabling, held, overtaken, gather>>
        /\ suspended' = suspended \cup {h}
        /\ prep'[h] # "suspend" /\ \A g \in Hubs : g # h => prep'[g] = prep[g]
    BY <1>13 DEF MemberSuspended, hubs, prepOnly, queue, Prep, HubTypes, switches
  <2>2. QED
    BY <1>6, <1>7, <2>1 DEF Taken, Noted, PrepKept
<1>14. ASSUME NEW h \in Hubs, MemberConnected(h)
       PROVE  Prepared' /\ Gathered' /\ Restored'
  <2>1. /\ UNCHANGED <<selected, enabling, held, suspended, overtaken, gather>>
        /\ prep[h] = "connect"
        /\ prep'[h] # "suspend" /\ \A g \in Hubs : g # h => prep'[g] = prep[g]
    BY <1>14 DEF MemberConnected, hubs, prepOnly, queue, Prep, HubTypes, switches
  <2>2. h \in Noted
    BY <1>4, <2>1 DEF Prepared, Noted
  <2>3. QED
    BY <1>6, <1>7, <2>1, <2>2 DEF Taken, Noted, PrepKept
<1>15. ASSUME NEW h \in Hubs, Disable(h) \/ Disabled(h) \/ Enable(h) \/ Enabled(h)
       PROVE  Prepared' /\ Gathered' /\ Restored'
  <2>1. UNCHANGED <<intent, asked, gather>>
    BY <1>15 DEF Disable, Disabled, Enable, Enabled, queue
  <2>2. UNCHANGED <<Newest, intent>>
    BY <2>1 DEF Newest
  <2>3. CASE Disable(h)
    <3>1. /\ selected' = selected \ {h} /\ UNCHANGED <<enabling, held, suspended, overtaken>>
          /\ \A g \in Hubs : prep'[g] = IF g = h THEN "no" ELSE prep[g]
      BY <2>3 DEF Disable, Prep, HubTypes
    <3>2. QED
      BY <1>4, <2>1, <2>2, <3>1 DEF Prepared, Gathered, Restored, Taken
  <2>4. CASE Enable(h)
    <3>1. /\ UNCHANGED <<selected, suspended, overtaken, prep>>
          /\ enabling' = enabling \cup {h} /\ held' = held \cup {h}
      BY <2>4 DEF Enable, hubs
    <3>2. QED
      BY <1>4, <2>1, <2>2, <3>1 DEF Prepared, Gathered, Restored, Taken
  <2>5. CASE Enabled(h)
    <3>1. /\ UNCHANGED <<held, overtaken, prep>> /\ h \in enabling
          /\ enabling' = enabling \ {h}
          /\ suspended' = suspended \cup {h} /\ selected' = selected \cup {h}
      BY <2>5 DEF Enabled
    <3>2. QED
      BY <1>4, <2>1, <2>2, <3>1 DEF Prepared, Gathered, Restored, Taken
  <2>6. CASE Disabled(h)
    <3>1. /\ UNCHANGED <<selected, enabling, prep>>
          /\ held' = held \ (suspended \cap {h}) /\ suspended' = suspended \ {h}
          /\ overtaken' = overtaken \cup ({h} \cap suspended \cap (selected \cup enabling))
      BY <2>6 DEF Disabled, hubs
    <3>2. /\ Taken \cap (selected \cup enabling) \subseteq Taken'
          /\ Noted \cap (selected \cup enabling) \subseteq Noted'
      BY <3>1 DEF Taken, Noted
    <3>3. Prepared'
      BY <1>1, <1>4, <3>1, <3>2 DEF Prepared, Noted, Off
    <3>4. QED
      BY <1>4, <2>1, <2>2, <3>1, <3>2, <3>3 DEF Gathered, Restored
  <2>7. QED
    BY <1>15, <2>3, <2>4, <2>5, <2>6
<1>16. ASSUME NEW n \in DOMAIN asked, RestoreSuspends(n)
       PROVE  Prepared' /\ Gathered' /\ Restored'
  <2>1. /\ UNCHANGED <<selected, enabling, held, overtaken, prep, gather>>
        /\ suspended \subseteq suspended'
    BY <1>16 DEF RestoreSuspends, hubs, queue, switches
  <2>2. QED
    BY <1>6, <1>7, <2>1 DEF Taken, Noted, PrepKept
<1>17. ASSUME NEW n \in DOMAIN asked, Released(n)
       PROVE  Prepared' /\ Gathered' /\ Restored'
  <2>1. UNCHANGED <<selected, enabling, overtaken, prep, queue, intent, gather>>
        /\ asked[n].at = "release"
    BY <1>17 DEF Released, hubs, queue, switches
  <2>2. CASE ~IsCurrent(n)
    <3>1. UNCHANGED <<held, suspended>>
      BY <1>17, <2>2 DEF Released
    <3>2. QED
      BY <1>6, <1>7, <2>1, <3>1 DEF Taken, Noted, PrepKept
  <2>3. CASE IsCurrent(n)
    <3>1. n = intent /\ n \in 1..Len(asked) /\ intent > 0
      BY <2>3, LenProperties DEF IsCurrent, QueueInv, RequestTypes
    <3>2. asked[n].op \in Stoppers
      BY <1>4, <2>1, <3>1 DEF Cleaners, Forced
    <3>3. Gone
      BY <2>1, <3>1, <3>2 DEF Stops, Stopping, Newest
    <3>4. gather = {}
      BY <3>3 DEF Gone, QueueInv, QueueTypes, Quiets
    <3>5. Newest'.op # "startup"
      BY <1>2, <2>1, <3>1, <3>2 DEF SameStart, Newest, Stoppers
    <3>6. QED
      BY <2>1, <3>3, <3>4, <3>5 DEF Gone, Prepared, Gathered, Restored
  <2>4. QED
    BY <2>2, <2>3
<1>18. QED
  BY <1>7, <1>8, <1>9, <1>10, <1>11, <1>12, <1>13, <1>14, <1>15, <1>16, <1>17, Takes
     DEF TakesOrGives

\* What OneSource says of a step.
Sourced ==
  Forced' \/ \A h \in Hubs \ overtaken' :
    /\ prep'[h] \in {"connect", "up"} => h \in suspended'
    /\ h \in Mistaken' /\ h \notin Mistaken => NotedLate(h)

LEMMA SourcedNext ==
  ASSUME QueueInv, HubTypes, Players, Players', Forced => Forced', [Next]_vars
  PROVE  Sourced
<1>1. SUFFICES ASSUME ~Forced', NEW h \in Hubs, h \notin overtaken',
                      h \in Mistaken', h \notin Mistaken
      PROVE  NotedLate(h)
  BY DEF Sourced, Players, Prepared
<1>2. ~Forced /\ Prepared /\ Gathered /\ Restored
  BY <1>1 DEF Players
<1>3. h \in suspended' /\ h \notin held' /\ (h \notin suspended \/ h \in held)
  BY <1>1 DEF Mistaken
<1>4. ~(held \subseteq held' /\ suspended' \subseteq suspended)
  BY <1>3
<1>5. ~NothingTaken
  BY <1>4 DEF NothingTaken
<1>6. ~Restarts /\ ~Prepare
  BY <1>4 DEF Restarts, Prepare
<1>7. ASSUME NEW g \in Hubs, PlayerSuspended(g) PROVE NotedLate(h)
  <2>1. g \in gather /\ suspended' = suspended \cup {g} /\ UNCHANGED <<held, overtaken>>
    BY <1>7 DEF PlayerSuspended, switches
  <2>2. h = g /\ h \notin Taken
    BY <1>1, <1>3, <2>1 DEF Taken
  <2>3. h \notin selected
    BY <1>2, <2>1, <2>2 DEF Gathered
  <2>4. QED
    BY <1>7, <2>2, <2>3 DEF NotedLate
<1>8. ASSUME NEW g \in Hubs,
             \/ TickPrepares(g) \/ MemberSuspended(g) \/ MemberConnected(g)
             \/ Disable(g) \/ Disabled(g) \/ Enable(g) \/ Enabled(g)
      PROVE  NotedLate(h)
  <2>1. ~TickPrepares(g) /\ ~MemberConnected(g) /\ ~Enable(g)
    BY <1>4 DEF TickPrepares, MemberConnected, Enable
  <2>2. ~Disable(g) /\ ~Disabled(g)
    <3>1. /\ Disable(g) => UNCHANGED <<held, suspended>>
          /\ Disabled(g) => /\ held' = held \ (suspended \cap {g})
                            /\ suspended' = suspended \ {g}
      BY DEF Disable, Disabled
    <3>2. QED
      BY <1>3, <3>1
  <2>3. CASE MemberSuspended(g)
    <3>1. prep[g] = "suspend" /\ suspended' = suspended \cup {g}
          /\ UNCHANGED <<held, overtaken>>
      BY <2>3 DEF MemberSuspended, prepOnly, switches
    <3>2. QED
      BY <1>1, <1>2, <1>3, <3>1 DEF Prepared, Taken
  <2>4. CASE Enabled(g)
    <3>1. suspended' = suspended \cup {g} /\ UNCHANGED held
      BY <2>4 DEF Enabled
    <3>2. h = g
      BY <1>3, <3>1
    <3>3. QED
      BY <2>4, <3>2 DEF NotedLate
  <2>5. QED
    BY <1>8, <2>1, <2>2, <2>3, <2>4
<1>9. ASSUME NEW n \in DOMAIN asked, Restore(n) \/ RestoreSuspends(n) \/ Released(n)
      PROVE  NotedLate(h)
  <2>1. ~Restore(n)
    BY <1>4 DEF Restore
  <2>2. ~Released(n)
    BY <1>3, <1>4 DEF Released
  <2>3. RestoreSuspends(n)
    BY <1>9, <2>1, <2>2
  <2>4. CASE ~IsCurrent(n)
    BY <2>3, <2>4 DEF NotedLate
  <2>5. CASE IsCurrent(n)
    <3>1. /\ suspended' = suspended \cup selected /\ UNCHANGED <<held, overtaken>>
          /\ asked[n].op = "startup" /\ asked[n].at = "suspend" /\ n = intent
      BY <2>3, <2>5 DEF RestoreSuspends, At, IsCurrent, switches
    <3>2. intent > 0
      BY <3>1, LenProperties DEF QueueInv, RequestTypes
    <3>3. selected \subseteq Taken
      BY <1>2, <3>1, <3>2 DEF Restored, Newest
    <3>4. QED
      BY <1>1, <1>3, <3>1, <3>3 DEF Taken
  <2>6. QED
    BY <2>4, <2>5
<1>10. QED
  BY <1>5, <1>6, <1>7, <1>8, <1>9, Takes DEF TakesOrGives

-----------------------------------------------------------------------------
(* The invariant, and what follows from it.                                *)

LEMMA ControlInvInit ==
  ASSUME Init PROVE ControlInv
<1>1. PICK restored \in BOOLEAN, station \in Stations, direct \in BOOLEAN :
       /\ intent = (IF restored THEN 1 ELSE 0)
       /\ asked = (IF restored THEN <<[op |-> "startup", at |-> "resolve",
                                       station |-> station]>> ELSE <<>>)
       /\ want = [desired |-> restored, media |-> IF restored THEN station ELSE "none",
                  url |-> IF restored /\ direct THEN station ELSE "none",
                  startup |-> IF restored THEN "waiting" ELSE "no", attempts |-> 0]
       /\ tasks = [reconcile |-> IF restored THEN "run" ELSE "no",
                   watchdog |-> "none", slow |-> "none", health |-> "none"]
  BY DEF Init
<1>2. /\ lock = <<>> /\ step = "enter" /\ gather = {} /\ stream = NoStream
      /\ selected = Hubs /\ able = Hubs /\ prep = AllIdle
      /\ suspended = {} /\ held = {} /\ enabling = {} /\ faults = MaxFaults /\ late = MaxLate
      /\ disabling = [h \in Hubs |-> 0] /\ overtaken = {}
  BY DEF Init
<1>3. station \in Names /\ "none" \in Names
  BY DEF Names
<1>4. asked \in Seq(Requests) /\ intent = Len(asked) /\ intent \in Nat
      /\ \A n \in 1..Len(asked) : asked[n].op = "startup" /\ asked[n].at = "resolve"
  <2> DEFINE request == [op |-> "startup", at |-> "resolve", station |-> station]
  <2>1. request \in Requests /\ request.op = "startup" /\ request.at = "resolve"
    BY <1>3 DEF Requests
  <2> HIDE DEF request
  <2>2. CASE restored
    <3>1. asked = <<request>> /\ intent = 1
      BY <1>1, <2>2 DEF request
    <3>2. QED
      BY <2>1, <3>1
  <2>3. CASE ~restored
    BY <1>1, <2>3
  <2>4. QED
    BY <2>2, <2>3
<1>5. RequestTypes /\ QueueTypes
  BY <1>2, <1>4 DEF RequestTypes, QueueTypes, Steps, Quiets
<1>6. StreamTypes
  BY <1>1, <1>2, <1>3, LimitIsNat, NoStreamType DEF StreamTypes, Wants, Tasks, Waits
<1>7. HubTypes /\ SwitchTypes
  BY <1>2, GroupConstants DEF HubTypes, SwitchTypes, AllIdle
<1>8. LockInv
  BY <1>2, NoNewcomer DEF LockInv, Places
<1>9. Programs /\ Cleaners
  BY <1>4 DEF Programs, Cleaners, Stoppers
<1>10. Stops
  <2>1. intent > 0 => Newest.op = "startup"
    BY <1>4 DEF Newest
  <2>2. QED
    BY <2>1 DEF Stops, Stopping, Stoppers
<1>11. Players
  <2>1. intent > 0 => Newest.at = "resolve"
    BY <1>4 DEF Newest
  <2>2. \A h \in Hubs : prep[h] = "no"
    BY <1>2 DEF AllIdle
  <2>3. QED
    BY <1>2, <2>1, <2>2 DEF Players, Prepared, Gathered, Restored, Off
<1>12. QED
  BY <1>5, <1>6, <1>7, <1>8, <1>9, <1>10, <1>11 DEF ControlInv, Types

LEMMA ControlInvNext ==
  ASSUME ControlInv, [Next]_vars PROVE ControlInv' /\ Sourced
<1>1. RequestTypes /\ QueueTypes /\ StreamTypes /\ HubTypes /\ SwitchTypes /\ LockInv
      /\ Programs /\ Cleaners /\ Stops /\ Players /\ QueueInv
  BY DEF ControlInv, Types, QueueInv
<1>2. QueueInv'
  BY <1>1, QueueInvNext
<1>3. StreamTypes' /\ HubTypes' /\ SwitchTypes'
  BY <1>1, StreamTypesKept, HubTypesKept, SwitchTypesKept
<1>4. Stops'
  BY <1>1, StopsNext
<1>5. Program /\ RequestTypes'
  BY <1>1, <1>2, ProgramNext DEF QueueInv
<1>6. Players'
  BY <1>1, <1>5, PlayersNext
<1>7. Forced => Forced'
  BY <1>1, <1>5, ForcedStays DEF Program, RequestTypes
<1>8. Sourced
  BY <1>1, <1>6, <1>7, SourcedNext
<1>9. ControlInv'
  BY <1>2, <1>3, <1>4, <1>5, <1>6 DEF ControlInv, Types, QueueInv, Program
<1>10. QED
  BY <1>8, <1>9

\* Requests, queue, tasks and members stay in ControlInv, whatever fails or is cancelled.
THEOREM Invariant == Spec => []ControlInv
<1>1. Init => ControlInv
  BY ControlInvInit
<1>2. ControlInv /\ [Next]_vars => ControlInv'
  BY ControlInvNext
<1>3. QED
  BY <1>1, <1>2, PTL DEF Spec

\* TypeOK: state is of its type, whatever the number of hubs, requests and faults; a
\* restart is scheduled only while attempts are left (_schedule_watchdog_restart).
THEOREM Typed == Spec => []TypeOK
<1>1. ControlInv => TypeOK
  <2>1. ASSUME ControlInv PROVE TypeOK
    <3>1. /\ intent = Len(asked) /\ asked \in Seq(Requests)
          /\ \A n \in 1..Len(asked) : asked[n] \in Requests
      BY <2>1 DEF ControlInv, Types, RequestTypes
    <3>2. DOMAIN asked = 1..Len(asked)
      BY <3>1, LenProperties
    <3>3. \A n \in DOMAIN asked : asked[n].at \in Ats
      BY <3>1, <3>2 DEF Requests, Ats
    <3>4. stream.feed \in Feeds /\ want.attempts \in 0..WATCHDOG_MAX_RESTARTS
      BY <2>1 DEF ControlInv, Types, StreamTypes, StreamRecords, Wants
    <3>5. QED
      BY <2>1, <3>1, <3>3, <3>4
         DEF ControlInv, Types, QueueTypes, HubTypes, SwitchTypes, TypeOK, Ats, Feeds
  <2>2. QED
    BY <2>1
<1>2. QED
  BY <1>1, Invariant, PTL

\* StoppedStays: after a Stop or Off that nobody followed has returned, no recovery, no
\* preparation and no late restart starts the stream again, in whatever order they asked
\* for the lock (_cancel_background_recovery).
THEOREM StopStands == Spec => []StoppedStays
<1>1. ControlInv => StoppedStays
  BY DEF ControlInv, Stops, Stopping, Newest, Gone, Stoppers, StoppedStays, LastWord
<1>2. QED
  BY <1>1, Invariant, PTL

\* OneSource: no hub is connected before its own radio player was suspended, and the group
\* takes no player for suspended that is not, but by a note written late; all but the hubs
\* whose switching off was overtaken (_suspend_individual_for_group, _prepare_member,
\* async_member_disabled).
THEOREM SuspendedFirst == Spec => OneSource
<1>1. ControlInv /\ [Next]_vars => Sourced
  BY ControlInvNext
<1>2. Sourced => [Forced' \/ \A h \in Hubs \ overtaken' :
                    /\ prep'[h] \in {"connect", "up"} => h \in suspended'
                    /\ h \in Mistaken' /\ h \notin Mistaken => NotedLate(h)]_vars
  BY DEF Sourced
<1>3. QED
  BY <1>1, <1>2, Invariant, PTL DEF Spec, OneSource

=============================================================================
