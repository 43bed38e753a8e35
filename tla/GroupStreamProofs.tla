-------------------------- MODULE GroupStreamProofs --------------------------
(***************************************************************************)
(* Theorems about the stream of the media group: about GroupFanout, which  *)
(* cuts it into what each member is given, and about GroupReceivers, which *)
(* says who is connected.  For any number of members, any source and any   *)
(* sizes of queue, history and batches, what a member is given is the      *)
(* common timeline, and in it the source, whole; for any number of hubs,   *)
(* faults, claims and requests, a hub taken by a sound or by a Stop is let *)
(* go, and all that plays plays in step.                                   *)
(*                                                                         *)
(* TimelineWhole is not inductive: a writer finds PCM by its distance from *)
(* the oldest, so the numbers of the history (TypeOK) are part of it, and  *)
(* so is what a member not ready was given (Gapless).  For the source, the *)
(* timeline must be in order from the number each prefill began with       *)
(* (InOrder), up to the chunk the broadcaster takes next (QueueNext).      *)
(*                                                                         *)
(* Nor are LetGo and InStep: a preparation or a detachment under way can   *)
(* bring a hub back, so ReceiverInv says what each of them leaves at every *)
(* place it can be at (Linked), and what a barrier has done so far         *)
(* (Course).                                                               *)
(***************************************************************************)
EXTENDS GroupFanout, GroupReceivers, SequenceTheorems, TLAPS

\* What a member was given ends at its cursor, which is inside the timeline.
Gapless ==
  \A m \in Members :
    /\ cursor[m] <= sequence /\ Len(given[m]) <= cursor[m]
    /\ \A i \in DOMAIN given[m] : given[m][i] = cursor[m] - Len(given[m]) + i - 1

\* The queue holds the newest chunks of the source, behind the one that is paced.
Pending == phase = "pace" /\ chunk # 0
QueueNext ==
  /\ Len(queue) <= produced
  /\ \A i \in DOMAIN queue : queue[i] = produced - Len(queue) + i
  /\ Pending => chunk = produced - Len(queue)

\* The chunks of the source the broadcaster is done with.
Done == produced - Len(queue) - (IF Pending THEN 1 ELSE 0)

\* Behind the first n of t the chunks are in order, up to chunk d.
InOrder(t, n, d) ==
  \A i \in n + 1..Len(t) : t[i] # 0 =>
    /\ t[i] <= d
    /\ \A j \in i + 1..Len(t) : t[j] # 0 => t[i] < t[j]
    /\ \A c \in t[i]..d : \E j \in i..Len(t) : t[j] = c

First(m) == cursor[m] - Len(given[m])

\* The source of every member that plays; without faults it has played from the start, and
\* at the end to the end.
Played ==
  /\ \A m \in Ready : InOrder(timeline, First(m), Done)
  /\ phase = "prebuffer" => timeline = <<>> /\ Done = 0 /\ Ready = {}
  /\ phase \in {"flush", "ended"} => eof /\ queue = <<>>
  /\ faults = MaxFaults => \A m \in Ready :
       /\ First(m) = 0 /\ timeline # <<>> /\ timeline[1] = 1
       /\ phase = "ended" => cursor[m] = sequence

FanoutInv == TypeOK /\ Gapless /\ QueueNext /\ Played

-----------------------------------------------------------------------------
(* The bounds, the batches and the history.                                *)

LEMMA SizeTypes ==
  /\ SourceLength \in Nat /\ MaxSilence \in Nat /\ MaxFaults \in Nat
  /\ GROUP_JITTER_BUFFER_CHUNKS \in Nat \ {0} /\ GROUP_REMOTE_PREFILL_CHUNKS \in Nat \ {0}
  /\ SHARED_FANOUT_CHUNKS \in Nat \ {0}
  /\ GROUP_TRANSPORT_PERIOD_MS \in Nat \ {0} /\ GROUP_TRANSPORT_TARGET_MS \in Nat \ {0}
BY FanoutConstants

\* The least of two numbers and of four.
LEMMA MinOfTwo ==
  ASSUME NEW a \in Int, NEW b \in Int
  PROVE  Min({a, b}) \in {a, b} /\ Min({a, b}) <= a /\ Min({a, b}) <= b
<1>1. \E x \in {a, b} : \A y \in {a, b} : x =< y
  <2>1. CASE a <= b
    BY <2>1
  <2>2. CASE b <= a
    BY <2>2
  <2>3. QED
    BY <2>1, <2>2
<1>2. QED
  BY <1>1 DEF Min

LEMMA MinOfFour ==
  ASSUME NEW a \in Int, NEW b \in Int, NEW c \in Int, NEW d \in Int
  PROVE  /\ Min({a, b, c, d}) \in Int
         /\ Min({a, b, c, d}) <= c /\ Min({a, b, c, d}) <= d
<1>1. \E x \in {a, b, c, d} : \A y \in {a, b, c, d} : x =< y
  <2>1. PICK x \in {a, b} : x <= a /\ x <= b
    BY MinOfTwo
  <2>2. PICK y \in {c, d} : y <= c /\ y <= d
    BY MinOfTwo
  <2>3. CASE x <= y
    BY <2>1, <2>2, <2>3
  <2>4. CASE y <= x
    BY <2>1, <2>2, <2>4
  <2>5. QED
    BY <2>1, <2>2, <2>3, <2>4
<1>2. QED
  BY <1>1 DEF Min

\* The end of a batch is a number, whatever the lengths of period and batch.
LEMMA BoundaryType ==
  ASSUME TypeOK, NEW c \in Nat
  PROVE  NextBatchBoundary(c) \in Int /\ GROUP_TRANSPORT_BATCH_CHUNKS \in Int
<1>1. origin \in Nat
  BY DEF TypeOK
<1>2. ASSUME NEW batch \in Int PROVE BatchEndsAt(batch) \in Int
  <2>1. batch * GROUP_TRANSPORT_TARGET_MS + GROUP_TRANSPORT_PERIOD_MS - 1 \in Int
    BY SizeTypes
  <2>2. QED
    BY <1>1, <2>1, SizeTypes DEF BatchEndsAt
<1>3. BatchOf(c) \in Int
  <2>1. (IF c > origin THEN c - origin ELSE 0) \in Int
    BY <1>1
  <2>2. (IF c > origin THEN c - origin ELSE 0) * GROUP_TRANSPORT_PERIOD_MS \in Int
    BY <2>1, SizeTypes
  <2>3. QED
    BY <2>2, SizeTypes DEF BatchOf
<1>4. QED
  BY <1>1, <1>2, <1>3 DEF NextBatchBoundary, GROUP_TRANSPORT_BATCH_CHUNKS

\* The deque keeps the newest entries, at least one of them, in their order.
LEMMA KeptNewest ==
  ASSUME NEW s \in Seq(Nat)
  PROVE  /\ Kept(s) \in Seq(Nat) /\ Len(Kept(s)) <= SHARED_FANOUT_CHUNKS
         /\ Len(Kept(s)) <= Len(s) /\ (s # <<>> => Kept(s) # <<>>)
         /\ \A i \in DOMAIN Kept(s) : Kept(s)[i] = s[Len(s) - Len(Kept(s)) + i]
<1> DEFINE k == Min({Len(s), SHARED_FANOUT_CHUNKS})
<1>1. k \in Nat /\ k <= Len(s) /\ k <= SHARED_FANOUT_CHUNKS /\ (s # <<>> => k > 0)
  <2>1. Len(s) \in Nat /\ (s # <<>> => Len(s) > 0)
    OBVIOUS
  <2>2. k \in {Len(s), SHARED_FANOUT_CHUNKS} /\ k <= Len(s) /\ k <= SHARED_FANOUT_CHUNKS
    BY <2>1, SizeTypes, MinOfTwo
  <2>3. QED
    BY <2>1, <2>2, SizeTypes
<1> HIDE DEF k
<1>2. \A i \in Len(s) - k + 1..Len(s) : s[i] \in Nat
  BY <1>1
<1>3. /\ SubSeq(s, Len(s) - k + 1, Len(s)) \in Seq(Nat)
      /\ Len(SubSeq(s, Len(s) - k + 1, Len(s))) = k
      /\ \A i \in 1..k : SubSeq(s, Len(s) - k + 1, Len(s))[i] = s[Len(s) - k + i]
  <2>1. Len(s) - k + 1 \in Int /\ Len(s) \in Int /\ Len(s) - (Len(s) - k + 1) + 1 = k
        /\ (IF Len(s) - k + 1 <= Len(s) THEN Len(s) - (Len(s) - k + 1) + 1 ELSE 0) = k
        /\ \A i \in 1..k : Len(s) - k + 1 + i - 1 = Len(s) - k + i
    BY <1>1
  <2>2. QED
    BY <1>2, <2>1, SubSeqProperties
<1>4. Kept(s) = SubSeq(s, Len(s) - k + 1, Len(s))
  BY DEF Kept, k
<1>5. Len(Kept(s)) = k /\ DOMAIN Kept(s) = 1..k
  BY <1>1, <1>3, <1>4
<1>6. Kept(s) # <<>> <=> k > 0
  <2>1. Kept(s) \in Seq(Nat)
    BY <1>3, <1>4
  <2>2. QED
    BY <1>1, <1>5, <2>1
<1>7. QED
  BY <1>1, <1>3, <1>4, <1>5, <1>6

\* A history whose numbers have no hole keeps none.
LEMMA KeptNumbers ==
  ASSUME NEW s \in Seq(Nat), NEW n \in Nat, \A i \in DOMAIN s : s[i] = n - Len(s) + i - 1
  PROVE  \A i \in DOMAIN Kept(s) : Kept(s)[i] = n - Len(Kept(s)) + i - 1
<1>1. /\ Kept(s) \in Seq(Nat) /\ Len(Kept(s)) <= Len(s)
      /\ \A i \in DOMAIN Kept(s) : Kept(s)[i] = s[Len(s) - Len(Kept(s)) + i]
  BY KeptNewest
<1> DEFINE k == Len(Kept(s))
<1>2. k \in Nat /\ DOMAIN Kept(s) = 1..k
  BY <1>1
<1>3. SUFFICES ASSUME NEW i \in 1..k PROVE Kept(s)[i] = n - k + i - 1
  BY <1>2
<1> HIDE DEF k
<1>4. Len(s) - k + i \in DOMAIN s
  BY <1>1, <1>2 DEF k
<1>5. Kept(s)[i] = s[Len(s) - k + i]
  BY <1>1, <1>2 DEF k
<1>6. QED
  BY <1>2, <1>4, <1>5

-----------------------------------------------------------------------------
(* The order of the source.                                                *)

\* Silence does not disturb it.
LEMMA SilenceInOrder ==
  ASSUME NEW t \in Seq(Nat), NEW n \in Nat, NEW d \in Nat, InOrder(t, n, d)
  PROVE  InOrder(Append(t, 0), n, d)
BY DEF InOrder

\* The next chunk continues it.
LEMMA NextInOrder ==
  ASSUME NEW t \in Seq(Nat), NEW n \in Nat, NEW d \in Nat, InOrder(t, n, d)
  PROVE  InOrder(Append(t, d + 1), n, d + 1)
<1> DEFINE u == Append(t, d + 1)
<1>1. u \in Seq(Nat) /\ Len(u) = Len(t) + 1 /\ u[Len(u)] = d + 1 /\ \A i \in 1..Len(t) : u[i] = t[i]
  OBVIOUS
<1> HIDE DEF u
<1>2. SUFFICES ASSUME NEW i \in n + 1..Len(u), u[i] # 0
      PROVE /\ u[i] <= d + 1
            /\ \A j \in i + 1..Len(u) : u[j] # 0 => u[i] < u[j]
            /\ \A c \in u[i]..d + 1 : \E j \in i..Len(u) : u[j] = c
  BY DEF InOrder, u
<1>3. CASE i = Len(u)
  BY <1>1, <1>3
<1>4. CASE i # Len(u)
  <2>1. i \in n + 1..Len(t) /\ t[i] # 0 /\ u[i] = t[i] /\ t[i] <= d
    BY <1>1, <1>2, <1>4 DEF InOrder
  <2>2. ASSUME NEW j \in i + 1..Len(u), u[j] # 0 PROVE u[i] < u[j]
    <3>1. CASE j = Len(u)
      BY <1>1, <2>1, <3>1
    <3>2. CASE j # Len(u)
      <4>1. j \in i + 1..Len(t) /\ t[j] # 0 /\ u[j] = t[j]
        <5>1. Len(t) \in Nat /\ Len(u) = Len(t) + 1 /\ i \in Int /\ i >= 1
          BY <1>1, <2>1
        <5>2. j \in Int /\ j >= i + 1 /\ j <= Len(u) /\ j # Len(u)
          BY <3>2, <5>1
        <5>3. j \in i + 1..Len(t) /\ j \in 1..Len(t)
          BY <5>1, <5>2
        <5>4. QED
          BY <1>1, <2>2, <5>3
      <4>2. QED
        BY <2>1, <4>1 DEF InOrder
    <3>3. QED
      BY <3>1, <3>2
  <2>3. ASSUME NEW c \in u[i]..d + 1 PROVE \E j \in i..Len(u) : u[j] = c
    <3>1. CASE c = d + 1
      BY SMTT(30), <1>1, <2>1, <3>1
    <3>2. CASE c # d + 1
      <4>1. c \in t[i]..d
        BY <1>1, <2>1, <3>2
      <4>2. PICK j \in i..Len(t) : t[j] = c
        BY <2>1, <4>1 DEF InOrder
      <4>3. QED
        BY SMTT(30), <1>1, <2>1, <4>2
    <3>3. QED
      BY <3>1, <3>2
  <2>4. QED
    BY <1>1, <2>1, <2>2, <2>3
<1>5. QED
  BY <1>3, <1>4

\* A prefill is in order from where it begins.
LEMMA PrefillInOrder ==
  ASSUME NEW t \in Seq(Nat), NEW q \in Seq(Nat), NEW d \in Nat,
         \A i \in DOMAIN q : q[i] = d + i
  PROVE  InOrder(t \o q, Len(t), d + Len(q))
<1> DEFINE u == t \o q
<1>1. Len(u) = Len(t) + Len(q) /\ \A i \in Len(t) + 1..Len(u) : u[i] = d + (i - Len(t))
  BY SMTT(30)
<1> HIDE DEF u
<1>2. SUFFICES ASSUME NEW i \in Len(t) + 1..Len(u)
      PROVE /\ u[i] <= d + Len(q)
            /\ \A j \in i + 1..Len(u) : u[j] # 0 => u[i] < u[j]
            /\ \A c \in u[i]..d + Len(q) : \E j \in i..Len(u) : u[j] = c
  BY DEF InOrder, u
<1>3. u[i] <= d + Len(q) /\ \A j \in i + 1..Len(u) : u[i] < u[j]
  BY SMTT(30), <1>1
<1>4. ASSUME NEW c \in u[i]..d + Len(q) PROVE \E j \in i..Len(u) : u[j] = c
  <2>1. /\ u[i] = d + (i - Len(t)) /\ Len(t) \in Nat /\ Len(q) \in Nat /\ i \in Int
        /\ Len(u) = Len(t) + Len(q) /\ i >= Len(t) + 1
    BY <1>1
  <2>2. c \in Int /\ c >= d + (i - Len(t)) /\ c <= d + Len(q)
    BY <2>1
  <2> DEFINE j == c - d + Len(t)
  <2>3. j \in Int /\ j >= i /\ j <= Len(u) /\ d + (j - Len(t)) = c
    BY <2>1, <2>2
  <2> HIDE DEF j
  <2>4. j \in i..Len(u) /\ j \in Len(t) + 1..Len(u)
    BY <2>1, <2>3
  <2>5. u[j] = c
    BY <1>1, <2>3, <2>4
  <2>6. QED
    BY <2>4, <2>5
<1>5. QED
  BY <1>3, <1>4

-----------------------------------------------------------------------------
(* The steps.                                                              *)

LEMMA InitFanoutInv == Init => FanoutInv
<1> SUFFICES ASSUME Init PROVE FanoutInv
  OBVIOUS
<1>1. TypeOK
  <2>1. /\ produced \in 0..SourceLength /\ released \in 0..sequence /\ origin \in 0..sequence
        /\ Len(queue) <= GROUP_JITTER_BUFFER_CHUNKS /\ Len(history) <= SHARED_FANOUT_CHUNKS
        /\ silence \in 0..MaxSilence /\ faults \in 0..MaxFaults
    BY SizeTypes DEF Init, sequence
  <2>2. cursor \in [Members -> Nat] /\ timeouts \in [Members -> Nat] /\ given \in [Members -> Seq(Nat)]
    BY DEF Init
  <2>3. draining \in [Members -> BOOLEAN] /\ ready \in [Members -> BOOLEAN]
    BY DEF Init
  <2>4. /\ queue \in Seq(Nat) /\ timeline \in Seq(Nat) /\ history = <<>> /\ phase = "prebuffer"
        /\ chunk \in Nat
    BY DEF Init
  <2>5. eof \in BOOLEAN /\ rebuffering \in BOOLEAN
    BY DEF Init
  <2>6. QED
    BY <2>1, <2>2, <2>3, <2>4, <2>5 DEF TypeOK, sequence
<1>2. Gapless /\ QueueNext
  BY DEF Init, Gapless, QueueNext, Pending, sequence
<1>3. Ready = {}
  BY DEF Init, Ready
<1>4. Played
  <2>1. ~Pending /\ phase = "prebuffer" /\ timeline = <<>> /\ produced = 0 /\ queue = <<>>
    BY DEF Init, Pending
  <2>2. Done = 0
    <3>1. Len(queue) = 0 /\ produced = 0
      BY <2>1
    <3>2. (IF Pending THEN 1 ELSE 0) = 0
      BY <2>1
    <3>3. Done = 0 - 0 - 0
      BY <3>1, <3>2, Zenon DEF Done
    <3>4. QED
      BY <3>3
  <2>3. QED
    BY <1>3, <2>1, <2>2 DEF Played
<1>5. QED
  BY <1>1, <1>2, <1>4 DEF FanoutInv

\* A step that leaves the timeline, what was given of it and what is done with alone.
LEMMA StaysPlayed ==
  ASSUME FanoutInv, Done' = Done, UNCHANGED <<timeline, cursor, given>>, Ready' \subseteq Ready,
         faults' = MaxFaults => faults = MaxFaults,
         phase' \in {"prebuffer", "ended"} => phase' = phase,
         phase' \in {"flush", "ended"} => eof' /\ queue' = <<>>
  PROVE  Played'
<1>1. \A m \in Members : First(m)' = First(m)
  BY DEF First
<1>2. Ready' \subseteq Members /\ Ready \subseteq Members
  BY DEF Ready
<1>3. \A m \in Ready' : InOrder(timeline', First(m)', Done')
  BY <1>1, <1>2 DEF FanoutInv, Played, sequence
<1>4. phase' = "prebuffer" => timeline' = <<>> /\ Done' = 0 /\ Ready' = {}
  BY DEF FanoutInv, Played, sequence
<1>5. faults' = MaxFaults => \A m \in Ready' :
        /\ First(m)' = 0 /\ timeline' # <<>> /\ timeline'[1] = 1
        /\ phase' = "ended" => cursor'[m] = Len(timeline')
  BY <1>1, <1>2 DEF FanoutInv, Played, sequence
<1>6. QED
  BY <1>3, <1>4, <1>5 DEF Played, sequence

LEMMA ProduceKeeps ==
  ASSUME FanoutInv, Produce PROVE FanoutInv'
<1>1. /\ ~eof /\ produced' = produced + 1 /\ queue' = Append(queue, produced + 1)
      /\ produced < SourceLength /\ Len(queue) < GROUP_JITTER_BUFFER_CHUNKS
      /\ UNCHANGED <<eof, phase, chunk, rebuffering, timeline, history, origin, released, cursor,
                     draining, timeouts, given, ready, silence, faults>>
  BY DEF Produce, broadcaster, shared, writers, bounds
<1>2. TypeOK'
  <2>1. produced' \in 0..SourceLength /\ queue' \in Seq(Nat) /\ Len(queue') <= GROUP_JITTER_BUFFER_CHUNKS
    BY <1>1, SizeTypes DEF FanoutInv, TypeOK, sequence
  <2>2. QED
    BY <1>1, <2>1 DEF FanoutInv, TypeOK, sequence
<1>3. Gapless'
  BY <1>1 DEF FanoutInv, Gapless, sequence
<1>4. QueueNext' /\ Done' = Done
  <2>1. /\ produced \in Nat /\ queue \in Seq(Nat) /\ Len(queue') = Len(queue) + 1
        /\ queue'[Len(queue) + 1] = produced + 1 /\ DOMAIN queue' = 1..Len(queue) + 1
        /\ \A i \in DOMAIN queue : queue'[i] = queue[i]
    BY <1>1, SizeTypes DEF FanoutInv, TypeOK
  <2>2. Len(queue') <= produced' /\ (Pending' => chunk' = produced' - Len(queue'))
    BY <1>1, <2>1 DEF FanoutInv, QueueNext, Pending
  <2>3. \A i \in DOMAIN queue' : queue'[i] = produced' - Len(queue') + i
    BY <1>1, <2>1 DEF FanoutInv, QueueNext
  <2>4. Pending' = Pending /\ produced' - Len(queue') = produced - Len(queue)
    BY <1>1, <2>1 DEF Pending
  <2>5. QED
    BY <2>2, <2>3, <2>4 DEF QueueNext, Done
<1>5. Played'
  <2>1. Ready' = Ready /\ phase \notin {"flush", "ended"}
    BY <1>1 DEF Ready, FanoutInv, Played, sequence
  <2>2. QED
    BY <1>1, <1>4, <2>1, StaysPlayed
<1>6. QED
  BY <1>2, <1>3, <1>4, <1>5 DEF FanoutInv

LEMMA SourceEndsKeeps ==
  ASSUME FanoutInv, SourceEnds PROVE FanoutInv'
<1>1. UNCHANGED <<produced, queue, phase, chunk, rebuffering, timeline, history, origin, released,
                  cursor, draining, timeouts, given, ready, silence, faults>>
  BY DEF SourceEnds, broadcaster, shared, writers, bounds
<1>2. eof' \in BOOLEAN
  BY DEF SourceEnds
<1>3. TypeOK' /\ Gapless'
  BY <1>1, <1>2 DEF FanoutInv, TypeOK, Gapless, sequence
<1>4. QueueNext' /\ Done' = Done
  BY <1>1 DEF FanoutInv, QueueNext, Pending, Done
<1>5. Played'
  BY <1>1, <1>4, StaysPlayed DEF SourceEnds, Ready, FanoutInv, Played, sequence
<1>6. QED
  BY <1>3, <1>4, <1>5 DEF FanoutInv

\* The chunk that is taken for a frame is still to come in the timeline.
LEMMA TakePcmKeeps ==
  ASSUME FanoutInv, TakePcm PROVE FanoutInv'
<1>1. /\ phase = "play" /\ queue # <<>> /\ chunk' = Head(queue) /\ queue' = Tail(queue)
      /\ phase' = "pace" /\ rebuffering' = FALSE
      /\ UNCHANGED <<produced, eof, timeline, history, origin, released, cursor, draining, timeouts,
                     given, ready, silence, faults>>
  BY DEF TakePcm, shared, writers, bounds
<1>2. /\ queue \in Seq(Nat) /\ chunk' = queue[1] /\ chunk' \in Nat /\ queue' \in Seq(Nat)
      /\ Len(queue') = Len(queue) - 1 /\ \A i \in DOMAIN queue' : queue'[i] = queue[i + 1]
  BY <1>1 DEF FanoutInv, TypeOK, sequence
<1>3. rebuffering' \in BOOLEAN
  BY <1>1
<1>4. TypeOK'
  <2>1. Len(queue') <= GROUP_JITTER_BUFFER_CHUNKS
    BY <1>2, SizeTypes DEF FanoutInv, TypeOK, sequence
  <2>2. QED
    BY <1>1, <1>2, <1>3, <2>1 DEF FanoutInv, TypeOK, sequence
<1>5. Gapless'
  BY <1>1 DEF FanoutInv, Gapless, sequence
<1>6. produced \in Nat /\ Len(queue) <= produced /\ chunk' = produced - Len(queue) + 1
  <2>1. produced \in Nat /\ 1 \in DOMAIN queue
    BY <1>1, <1>2, SizeTypes DEF FanoutInv, TypeOK
  <2>2. QED
    BY <1>1, <1>2, <2>1 DEF FanoutInv, QueueNext
<1>7. QueueNext'
  BY <1>1, <1>2, <1>6 DEF FanoutInv, QueueNext, Pending
<1>8. Done' = Done
  BY <1>1, <1>2, <1>6 DEF Pending, Done
<1>9. Played'
  BY <1>1, <1>8, StaysPlayed DEF Ready
<1>10. QED
  BY <1>4, <1>5, <1>7, <1>9 DEF FanoutInv

LEMMA TakeSilenceKeeps ==
  ASSUME FanoutInv, TakeSilence PROVE FanoutInv'
<1>1. /\ phase = "play" /\ silence > 0 /\ silence' = silence - 1 /\ chunk' = 0 /\ phase' = "pace"
      /\ UNCHANGED <<produced, queue, eof, timeline, history, origin, released, cursor, draining,
                     timeouts, given, ready, faults>>
  BY DEF TakeSilence, source, shared, writers
<1>2. rebuffering' \in BOOLEAN
  BY DEF TakeSilence
<1>3. TypeOK' /\ Gapless'
  <2>1. silence' \in 0..MaxSilence
    BY <1>1, SizeTypes DEF FanoutInv, TypeOK, sequence
  <2>2. QED
    BY <1>1, <1>2, <2>1 DEF FanoutInv, TypeOK, Gapless, sequence
<1>4. QueueNext' /\ Done' = Done
  BY <1>1 DEF FanoutInv, QueueNext, Pending, Done
<1>5. Played'
  BY <1>1, <1>4, StaysPlayed DEF Ready
<1>6. QED
  BY <1>3, <1>4, <1>5 DEF FanoutInv

LEMMA StallsKeeps ==
  ASSUME FanoutInv, Stalls PROVE FanoutInv'
<1>1. /\ phase = "play" /\ phase' = "failed"
      /\ UNCHANGED <<produced, queue, eof, chunk, rebuffering, timeline, history, origin, released,
                     cursor, draining, timeouts, given, ready, silence, faults>>
  BY DEF Stalls, source, shared, writers, bounds
<1>2. TypeOK' /\ Gapless'
  BY <1>1 DEF FanoutInv, TypeOK, Gapless, sequence
<1>3. QueueNext' /\ Done' = Done
  BY <1>1 DEF FanoutInv, QueueNext, Pending, Done
<1>4. Played'
  BY <1>1, <1>3, StaysPlayed DEF Ready
<1>5. QED
  BY <1>2, <1>3, <1>4 DEF FanoutInv

\* The frame takes the next number; a chunk of the source is now done with.
LEMMA FanoutKeeps ==
  ASSUME FanoutInv, Fanout PROVE FanoutInv'
<1>1. /\ phase = "pace" /\ phase' = "play" /\ history' = Kept(Append(history, Len(timeline)))
      /\ timeline' = Append(timeline, chunk) /\ released' \in {released, Len(timeline) + 1}
      /\ UNCHANGED <<produced, queue, eof, chunk, rebuffering, origin, cursor, draining, timeouts,
                     given, ready, silence, faults>>
  BY DEF Fanout, source, writers, bounds, sequence
<1>2. /\ timeline \in Seq(Nat) /\ history \in Seq(Nat) /\ chunk \in Nat /\ timeline' \in Seq(Nat)
      /\ Len(timeline') = Len(timeline) + 1 /\ released \in 0..Len(timeline)
      /\ origin \in 0..Len(timeline) /\ cursor \in [Members -> Nat] /\ given \in [Members -> Seq(Nat)]
  BY <1>1 DEF FanoutInv, TypeOK, sequence
<1>3. TypeOK'
  <2> DEFINE numbers == Append(history, Len(timeline))
  <2>1. /\ numbers \in Seq(Nat) /\ Len(numbers) = Len(history) + 1
        /\ \A i \in DOMAIN history : numbers[i] = history[i]
        /\ numbers[Len(history) + 1] = Len(timeline) /\ DOMAIN numbers = 1..Len(history) + 1
    BY <1>2
  <2> HIDE DEF numbers
  <2>2. \A i \in DOMAIN numbers : numbers[i] = Len(timeline') - Len(numbers) + i - 1
    <3>1. \A i \in DOMAIN history : history[i] = Len(timeline) - Len(history) + i - 1
      BY DEF FanoutInv, TypeOK, sequence
    <3>2. Len(timeline) \in Nat /\ Len(history) \in Nat /\ DOMAIN history = 1..Len(history)
      BY <1>2
    <3>3. SUFFICES ASSUME NEW i \in 1..Len(history) + 1
          PROVE numbers[i] = Len(timeline') - Len(numbers) + i - 1
      BY <2>1
    <3>4. CASE i = Len(history) + 1
      BY <1>2, <2>1, <3>2, <3>4
    <3>5. CASE i # Len(history) + 1
      <4>1. i \in DOMAIN history
        BY <3>2, <3>5
      <4>2. QED
        BY <1>2, <2>1, <3>1, <3>2, <4>1
    <3>6. QED
      BY <3>4, <3>5
  <2>3. history' = Kept(numbers)
    BY <1>1 DEF numbers
  <2>4. \A i \in DOMAIN history' : history'[i] = Len(timeline') - Len(history') + i - 1
    <3>1. Len(timeline') \in Nat
      BY <1>2
    <3>2. QED
      BY <2>1, <2>2, <2>3, <3>1, KeptNumbers
  <2>5. history' \in Seq(Nat) /\ Len(history') <= SHARED_FANOUT_CHUNKS
    BY <2>1, <2>3, KeptNewest
  <2>6. released' \in 0..Len(timeline') /\ origin' \in 0..Len(timeline')
    BY <1>1, <1>2
  <2>7. QED
    BY <1>1, <1>2, <2>4, <2>5, <2>6 DEF FanoutInv, TypeOK, sequence
<1>4. Gapless'
  BY <1>1, <1>2 DEF FanoutInv, Gapless, sequence
<1>5. QueueNext' /\ ~Pending'
  BY <1>1 DEF FanoutInv, QueueNext, Pending
<1>6. Done \in Nat /\ Done' \in Nat /\ ((chunk = 0 /\ Done' = Done) \/ (chunk = Done + 1 /\ Done' = Done + 1))
  <2>1. produced \in Nat /\ Len(queue) \in Nat /\ Len(queue) <= produced
    BY SizeTypes DEF FanoutInv, TypeOK, QueueNext
  <2>2. Done' = produced - Len(queue)
    BY <1>1, <1>5, <2>1 DEF Done
  <2>3. CASE chunk = 0
    <3>1. (IF Pending THEN 1 ELSE 0) = 0
      BY <2>3 DEF Pending
    <3>2. QED
      BY <2>1, <2>2, <2>3 DEF Done, Pending
  <2>4. CASE chunk # 0
    <3>1. Pending /\ chunk = produced - Len(queue)
      BY <1>1, <2>4 DEF Pending, FanoutInv, QueueNext
    <3>2. QED
      BY <1>2, <2>1, <2>2, <2>4, <3>1 DEF Done
  <2>5. QED
    BY <2>3, <2>4
<1>7. Played'
  <2>1. ASSUME NEW m \in Ready' PROVE InOrder(timeline', First(m)', Done')
    <3>1. m \in Ready /\ m \in Members /\ First(m)' = First(m) /\ First(m) \in Nat
      BY <1>1, <1>2, <2>1 DEF Ready, First, FanoutInv, Gapless
    <3>2. InOrder(timeline, First(m), Done)
      BY <3>1 DEF FanoutInv, Played
    <3>3. QED
      BY <1>1, <1>2, <1>6, <3>1, <3>2, SilenceInOrder, NextInOrder
  <2>2. faults' = MaxFaults => \A m \in Ready' :
          First(m)' = 0 /\ timeline' # <<>> /\ timeline'[1] = 1
    <3>1. SUFFICES ASSUME faults = MaxFaults, NEW m \in Ready
          PROVE First(m)' = 0 /\ timeline' # <<>> /\ timeline'[1] = 1
      BY <1>1 DEF Ready
    <3>2. First(m) = 0 /\ timeline # <<>> /\ timeline[1] = 1
      BY <3>1 DEF FanoutInv, Played
    <3>3. First(m)' = First(m)
      BY <1>1 DEF First
    <3>4. timeline' # <<>> /\ timeline'[1] = timeline[1]
      <4>1. 1 \in 1..Len(timeline)
        BY <1>2, <3>2
      <4>2. Append(timeline, chunk)[1] = timeline[1] /\ Append(timeline, chunk) # <<>>
        BY <1>2, <4>1
      <4>3. QED
        BY <1>1, <4>2
    <3>5. QED
      BY <3>2, <3>3, <3>4
  <2>3. QED
    BY <1>1, <2>1, <2>2 DEF Played
<1>8. QED
  BY <1>3, <1>4, <1>5, <1>7 DEF FanoutInv

LEMMA FlushKeeps ==
  ASSUME FanoutInv, Flush PROVE FanoutInv'
<1>1. /\ phase = "play" /\ eof /\ queue = <<>> /\ phase' = "flush" /\ released' = Len(timeline)
      /\ UNCHANGED <<produced, queue, eof, chunk, rebuffering, timeline, history, origin, cursor,
                     draining, timeouts, given, ready, silence, faults>>
  BY DEF Flush, source, writers, bounds, sequence
<1>2. TypeOK' /\ Gapless'
  <2>1. released' \in 0..Len(timeline')
    BY <1>1 DEF FanoutInv, TypeOK
  <2>2. QED
    BY <1>1, <2>1 DEF FanoutInv, TypeOK, Gapless, sequence
<1>3. QueueNext' /\ Done' = Done
  BY <1>1 DEF FanoutInv, QueueNext, Pending, Done
<1>4. Played'
  BY <1>1, <1>3, StaysPlayed DEF Ready
<1>5. QED
  BY <1>2, <1>3, <1>4 DEF FanoutInv

\* Without a fault the end has waited for every member that plays.
LEMMA FlushedKeeps ==
  ASSUME FanoutInv, Flushed PROVE FanoutInv'
<1>1. /\ phase = "flush" /\ phase' = "ended"
      /\ UNCHANGED <<produced, queue, eof, chunk, rebuffering, timeline, history, origin, released,
                     cursor, draining, timeouts, given, ready, silence>>
  BY DEF Flushed, Fault, source, shared, writers, bounds
<1>2. \/ faults' = faults /\ \A m \in Ready : cursor[m] >= Len(timeline)
      \/ faults > 0 /\ faults' = faults - 1
  BY DEF Flushed, Fault, bounds, sequence
<1>3. faults' \in 0..MaxFaults /\ (faults' = MaxFaults => faults' = faults)
  BY <1>2, SizeTypes DEF FanoutInv, TypeOK
<1>4. TypeOK' /\ Gapless'
  BY <1>1, <1>3 DEF FanoutInv, TypeOK, Gapless, sequence
<1>5. QueueNext' /\ Done' = Done
  BY <1>1 DEF FanoutInv, QueueNext, Pending, Done
<1>6. Played'
  <2>1. Ready' = Ready /\ Ready \subseteq Members /\ \A m \in Members : First(m)' = First(m)
    BY <1>1 DEF Ready, First
  <2>2. \A m \in Ready' : InOrder(timeline', First(m)', Done')
    BY <1>1, <1>5, <2>1 DEF FanoutInv, Played
  <2>3. faults' = MaxFaults => \A m \in Ready' :
          First(m)' = 0 /\ timeline' # <<>> /\ timeline'[1] = 1
    BY <1>1, <1>3, <2>1 DEF FanoutInv, Played
  <2>4. faults' = MaxFaults => \A m \in Ready' : cursor'[m] = Len(timeline')
    <3>1. SUFFICES ASSUME faults' = MaxFaults, NEW m \in Ready PROVE cursor[m] = Len(timeline)
      BY <1>1, <2>1
    <3>2. cursor[m] >= Len(timeline)
      BY <1>2, <1>3, <3>1 DEF FanoutInv, TypeOK
    <3>3. cursor[m] \in Nat /\ Len(timeline) \in Nat /\ cursor[m] <= Len(timeline)
      BY <2>1 DEF FanoutInv, TypeOK, Gapless, sequence
    <3>4. QED
      BY <3>2, <3>3
  <2>5. eof' /\ queue' = <<>>
    BY <1>1 DEF FanoutInv, Played
  <2>6. QED
    BY <1>1, <2>2, <2>3, <2>4, <2>5 DEF Played, sequence
<1>7. QED
  BY <1>4, <1>5, <1>6 DEF FanoutInv

-----------------------------------------------------------------------------
(* The writers.                                                            *)

\* A member that is isolated keeps what it was given.
LEMMA IsolatedKeeps ==
  ASSUME FanoutInv, NEW m \in Members, Isolate(m), UNCHANGED <<source, broadcaster, shared, writers, bounds>>
  PROVE  FanoutInv'
<1>1. UNCHANGED <<produced, queue, eof, phase, chunk, rebuffering, timeline, history, origin,
                  released, cursor, draining, timeouts, given, silence, faults>>
  BY DEF source, broadcaster, shared, writers, bounds
<1>2. ready' \in [Members -> BOOLEAN]
  BY DEF Isolate, FanoutInv, TypeOK
<1>3. TypeOK' /\ Gapless'
  BY <1>1, <1>2 DEF FanoutInv, TypeOK, Gapless, sequence
<1>4. QueueNext' /\ Done' = Done
  BY <1>1 DEF FanoutInv, QueueNext, Pending, Done
<1>5. Ready' \subseteq Ready
  BY DEF Isolate, Ready, FanoutInv, TypeOK
<1>6. Played'
  BY <1>1, <1>4, <1>5, StaysPlayed DEF FanoutInv, Played
<1>7. QED
  BY <1>3, <1>4, <1>6 DEF FanoutInv

LEMMA DrainedKeeps ==
  ASSUME FanoutInv, NEW m \in Members, Drained(m) PROVE FanoutInv'
<1>1. /\ timeouts' = [timeouts EXCEPT ![m] = 0]
      /\ UNCHANGED <<produced, queue, eof, phase, chunk, rebuffering, timeline, history, origin,
                     released, cursor, given, ready, silence, faults>>
  BY DEF Drained, source, broadcaster, shared, bounds
<1>2. draining' \in [Members -> BOOLEAN] /\ timeouts' \in [Members -> Nat]
  BY DEF Drained, FanoutInv, TypeOK
<1>3. TypeOK' /\ Gapless'
  BY <1>1, <1>2 DEF FanoutInv, TypeOK, Gapless, sequence
<1>4. QueueNext' /\ Done' = Done
  BY <1>1 DEF FanoutInv, QueueNext, Pending, Done
<1>5. Played'
  BY <1>1, <1>4, StaysPlayed DEF Ready, FanoutInv, Played
<1>6. QED
  BY <1>3, <1>4, <1>5 DEF FanoutInv

LEMMA DrainTimesOutKeeps ==
  ASSUME FanoutInv, NEW m \in Members, DrainTimesOut(m) PROVE FanoutInv'
<1>1. /\ faults > 0 /\ faults' = faults - 1
      /\ UNCHANGED <<produced, queue, eof, phase, chunk, rebuffering, timeline, history, origin,
                     released, cursor, given, silence>>
  BY DEF DrainTimesOut, Fault, source, broadcaster, shared
<1>2. draining' \in [Members -> BOOLEAN] /\ timeouts' \in [Members -> Nat]
  BY DEF DrainTimesOut, FanoutInv, TypeOK
<1>3. ready' \in [Members -> BOOLEAN] /\ Ready' \subseteq Ready
  BY DEF DrainTimesOut, Isolate, Ready, FanoutInv, TypeOK
<1>4. faults' \in 0..MaxFaults /\ faults' # MaxFaults
  BY <1>1, SizeTypes DEF FanoutInv, TypeOK
<1>5. TypeOK' /\ Gapless'
  BY <1>1, <1>2, <1>3, <1>4 DEF FanoutInv, TypeOK, Gapless, sequence
<1>6. QueueNext' /\ Done' = Done
  BY <1>1 DEF FanoutInv, QueueNext, Pending, Done
<1>7. Played'
  BY <1>1, <1>3, <1>4, <1>6, StaysPlayed DEF FanoutInv, Played
<1>8. QED
  BY <1>5, <1>6, <1>7 DEF FanoutInv

\* What a writer finds in the history at its distance from the oldest is what its cursor
\* names, and its batch does not reach beyond the newest.
LEMMA WriteKeeps ==
  ASSUME FanoutInv, NEW m \in Members, Write(m) PROVE FanoutInv'
<1> DEFINE e == BatchEnd(m)
           c == cursor[m]
           h == Len(history)
           n == Len(timeline)
           payload == [i \in 1..(e - c) |-> Entry(c - Head(history) + i - 1)]
<1>1. /\ given' = [given EXCEPT ![m] = given[m] \o payload] /\ cursor' = [cursor EXCEPT ![m] = e]
      /\ history # <<>> /\ ~(c < Head(history)) /\ c < e
      /\ draining' = [draining EXCEPT ![m] = TRUE]
      /\ UNCHANGED <<produced, queue, eof, phase, chunk, rebuffering, timeline, history, origin,
                     released, timeouts, ready, silence, faults>>
  BY DEF Write, Behind, source, broadcaster, shared, bounds
<1>2. /\ history \in Seq(Nat) /\ h \in Nat /\ h > 0 /\ n \in Nat /\ c \in Nat /\ released \in Int
      /\ \A i \in 1..h : history[i] = n - h + i - 1
      /\ given[m] \in Seq(Nat) /\ cursor \in [Members -> Nat] /\ given \in [Members -> Seq(Nat)]
  BY SMTT(30), <1>1 DEF FanoutInv, TypeOK, sequence
<1>3. Head(history) = n - h /\ Last(history) = n - 1
  <2>1. 1 \in 1..h /\ h \in 1..h /\ Head(history) = history[1]
    BY <1>1, <1>2
  <2>2. QED
    BY <1>2, <2>1 DEF Last
<1>4. e \in Int /\ e <= n
  <2>1. cursor[m] + GROUP_TRANSPORT_BATCH_CHUNKS \in Int /\ NextBatchBoundary(cursor[m]) \in Int
    BY <1>2, BoundaryType DEF FanoutInv
  <2>2. Last(history) + 1 = n
    BY <1>2, <1>3
  <2> DEFINE batch == cursor[m] + GROUP_TRANSPORT_BATCH_CHUNKS
             boundary == NextBatchBoundary(cursor[m])
             newest == Last(history) + 1
  <2>3. e = Min({batch, boundary, released, newest})
    BY DEF BatchEnd
  <2>4. batch \in Int /\ boundary \in Int /\ released \in Int /\ newest \in Int /\ newest = n
    BY <1>2, <2>1, <2>2
  <2> HIDE DEF e, batch, boundary, newest
  <2>5. QED
    BY <2>3, <2>4, MinOfFour
<1> HIDE DEF e, c, h, n
<1>5. e - c \in Nat /\ c >= n - h
  BY <1>1, <1>2, <1>3, <1>4
<1>6. \A i \in 1..(e - c) : payload[i] = c + i - 1
  <2>1. SUFFICES ASSUME NEW i \in 1..(e - c) PROVE Entry(c - Head(history) + i - 1) = c + i - 1
    BY DEF payload
  <2>2. i \in Int /\ i >= 1 /\ i <= e - c /\ n - h \in Int
    BY <1>2, <1>4, <1>5
  <2>3. c - (n - h) + i \in 1..h
    BY <1>2, <1>4, <1>5, <2>2
  <2>4. c - (n - h) + i - 1 >= 0 /\ c - (n - h) + i - 1 + 1 = c - (n - h) + i
    BY <1>2, <1>5, <2>2
  <2>5. Entry(c - Head(history) + i - 1) = history[c - (n - h) + i]
    BY <1>3, <2>4 DEF Entry
  <2>6. QED
    BY <1>2, <2>2, <2>3, <2>5
<1>7. payload \in Seq(Nat) /\ Len(payload) = e - c
  <2>1. \A i \in 1..(e - c) : c + i - 1 \in Nat
    BY <1>2, <1>5
  <2>2. \A i \in 1..(e - c) : Entry(c - Head(history) + i - 1) \in Nat
    BY <1>6, <2>1
  <2>3. QED
    BY <1>5, <2>2
<1> HIDE DEF payload
<1>8. /\ cursor' \in [Members -> Nat] /\ given' \in [Members -> Seq(Nat)]
      /\ cursor'[m] = e /\ given'[m] = given[m] \o payload
      /\ \A o \in Members \ {m} : cursor'[o] = cursor[o] /\ given'[o] = given[o]
  <2>1. given[m] \o payload \in Seq(Nat) /\ e \in Nat
    BY <1>1, <1>2, <1>4, <1>7
  <2>2. QED
    BY <1>1, <1>2, <2>1
<1>9. TypeOK'
  <2>1. draining' \in [Members -> BOOLEAN]
    BY <1>1 DEF FanoutInv, TypeOK
  <2>2. QED
    BY <1>1, <1>8, <2>1 DEF FanoutInv, TypeOK, sequence
<1>10. /\ Len(given[m]) \in Nat /\ Len(given[m]) <= c
       /\ Len(given'[m]) = Len(given[m]) + (e - c)
       /\ \A i \in 1..Len(given'[m]) : given'[m][i] = c - Len(given[m]) + i - 1
  <2>1. /\ Len(given[m]) \in Nat /\ Len(given[m]) <= c
        /\ \A i \in 1..Len(given[m]) : given[m][i] = c - Len(given[m]) + i - 1
    BY <1>2 DEF FanoutInv, Gapless, c
  <2>2. Len(given'[m]) = Len(given[m]) + (e - c)
    BY SMTT(30), <1>2, <1>7, <1>8
  <2>3. SUFFICES ASSUME NEW i \in 1..Len(given'[m])
        PROVE given'[m][i] = c - Len(given[m]) + i - 1
    BY <2>1, <2>2
  <2>4. CASE i <= Len(given[m])
    <3>1. i \in 1..Len(given[m]) /\ (given[m] \o payload)[i] = given[m][i]
      BY <1>2, <1>7, <2>1, <2>2, <2>4
    <3>2. QED
      BY <1>8, <2>1, <3>1
  <2>5. CASE i > Len(given[m])
    <3>1. i - Len(given[m]) \in 1..(e - c)
      BY <1>5, <2>1, <2>2, <2>5
    <3>2. (given[m] \o payload)[i] = payload[i - Len(given[m])]
      BY <1>2, <1>5, <1>7, <2>1, <2>2, <2>5
    <3>3. payload[i - Len(given[m])] = c + (i - Len(given[m])) - 1
      BY <1>6, <3>1
    <3>4. QED
      BY <1>2, <1>8, <2>1, <3>2, <3>3
  <2>6. QED
    BY <2>1, <2>4, <2>5
<1>11. Len(given'[m]) <= e /\ e - Len(given'[m]) = c - Len(given[m])
  BY <1>2, <1>4, <1>10
<1>12. Gapless'
  <2>1. SUFFICES ASSUME NEW o \in Members
        PROVE /\ cursor'[o] <= n /\ Len(given'[o]) <= cursor'[o]
              /\ \A i \in DOMAIN given'[o] : given'[o][i] = cursor'[o] - Len(given'[o]) + i - 1
    BY <1>1 DEF Gapless, sequence, n
  <2>2. CASE o = m
    <3>1. given'[o] \in Seq(Nat) /\ DOMAIN given'[o] = 1..Len(given'[m])
      BY <1>8, <2>2
    <3>2. Len(given'[o]) <= cursor'[o] /\ cursor'[o] - Len(given'[o]) = c - Len(given[m])
      BY <1>8, <1>11, <2>2
    <3>3. QED
      BY <1>4, <1>8, <1>10, <2>2, <3>1, <3>2
  <2>3. CASE o # m
    BY <1>8, <2>3 DEF FanoutInv, Gapless, sequence, n
  <2>4. QED
    BY <2>2, <2>3
<1>13. QueueNext' /\ Done' = Done
  BY <1>1 DEF FanoutInv, QueueNext, Pending, Done
<1>14. Played'
  <2>1. \A o \in Members : First(o)' = First(o)
    <3>1. SUFFICES ASSUME NEW o \in Members PROVE cursor'[o] - Len(given'[o]) = cursor[o] - Len(given[o])
      BY DEF First
    <3>2. CASE o = m
      BY <1>8, <1>11, <3>2 DEF c
    <3>3. CASE o # m
      BY <1>8, <3>3
    <3>4. QED
      BY <3>2, <3>3
  <2>2. Ready' = Ready /\ Ready \subseteq Members
    BY <1>1 DEF Ready
  <2>3. \A o \in Ready' : InOrder(timeline', First(o)', Done')
    BY <1>1, <1>13, <2>1, <2>2 DEF FanoutInv, Played
  <2>4. faults' = MaxFaults => \A o \in Ready' :
          /\ First(o)' = 0 /\ timeline' # <<>> /\ timeline'[1] = 1
    BY <1>1, <2>1, <2>2 DEF FanoutInv, Played
  <2>5. faults' = MaxFaults /\ phase' = "ended" => \A o \in Ready' : cursor'[o] = n
    <3>1. SUFFICES ASSUME faults = MaxFaults, phase = "ended", NEW o \in Ready
          PROVE cursor'[o] = n
      BY <1>1, <2>2
    <3>2. cursor[o] = n /\ o \in Members
      BY <2>2, <3>1 DEF FanoutInv, Played, sequence, n
    <3>3. o # m
      BY <1>1, <1>2, <1>4, <3>2 DEF c
    <3>4. QED
      BY <1>8, <3>2, <3>3
  <2>6. QED
    BY <1>1, <1>13, <2>2, <2>3, <2>4, <2>5 DEF FanoutInv, Played, sequence, n
<1>15. QED
  BY <1>9, <1>12, <1>13, <1>14 DEF FanoutInv

-----------------------------------------------------------------------------
(* The prefill.                                                            *)

\* What is taken from the queue is its head, at least one chunk of it.
LEMMA TakenFromQueue ==
  ASSUME FanoutInv
  PROVE  /\ Taken \in Seq(Nat) /\ Len(Taken) \in 0..Len(queue) /\ (queue # <<>> => Len(Taken) > 0)
         /\ \A i \in 1..Len(Taken) : Taken[i] = produced - Len(queue) + i
         /\ Numbers \in Seq(Nat) /\ Len(Numbers) = Len(Taken)
         /\ \A i \in 1..Len(Taken) : Numbers[i] = Len(timeline) + i - 1
         /\ LET rest == SubSeq(queue, Len(Taken) + 1, Len(queue))
            IN /\ rest \in Seq(Nat) /\ Len(rest) = Len(queue) - Len(Taken)
               /\ \A i \in 1..Len(rest) : rest[i] = queue[Len(Taken) + i]
<1> DEFINE k == Min({Len(queue), GROUP_REMOTE_PREFILL_CHUNKS})
           q == Len(queue)
<1>1. queue \in Seq(Nat) /\ q \in Nat /\ (queue # <<>> => q > 0) /\ DOMAIN queue = 1..q
      /\ timeline \in Seq(Nat) /\ Len(timeline) \in Nat /\ produced \in Nat /\ q <= produced
      /\ \A i \in 1..q : queue[i] \in Nat /\ queue[i] = produced - q + i
  BY SizeTypes DEF FanoutInv, TypeOK, QueueNext
<1>2. k \in Nat /\ k <= q /\ (queue # <<>> => k > 0)
  <2>1. q \in Int /\ GROUP_REMOTE_PREFILL_CHUNKS \in Int
    BY <1>1, SizeTypes
  <2>2. k \in {q, GROUP_REMOTE_PREFILL_CHUNKS} /\ k <= q
    BY <2>1, MinOfTwo
  <2>3. QED
    BY <1>1, <2>2, SizeTypes
<1> HIDE DEF k, q
<1>3. Taken = SubSeq(queue, 1, k)
  BY DEF Taken, k
<1>4. Taken \in Seq(Nat) /\ Len(Taken) = k /\ \A i \in 1..k : Taken[i] = queue[i]
  <2>1. \A i \in 1..k : queue[i] \in Nat
    BY <1>1, <1>2
  <2>2. /\ SubSeq(queue, 1, k) \in Seq(Nat)
        /\ Len(SubSeq(queue, 1, k)) = (IF 1 <= k THEN k - 1 + 1 ELSE 0)
        /\ \A i \in 1..k - 1 + 1 : SubSeq(queue, 1, k)[i] = queue[1 + i - 1]
    <3>1. 1 \in Int /\ k \in Int
      BY <1>2
    <3>2. QED
      BY <2>1, <3>1, SubSeqProperties
  <2>3. (IF 1 <= k THEN k - 1 + 1 ELSE 0) = k /\ k - 1 + 1 = k /\ \A i \in 1..k : 1 + i - 1 = i
    BY <1>2
  <2>4. QED
    BY <1>3, <2>2, <2>3
<1>5. \A i \in 1..k : Taken[i] = produced - q + i
  BY <1>1, <1>2, <1>4
<1>6. Numbers \in Seq(Nat) /\ Len(Numbers) = k /\ \A i \in 1..k : Numbers[i] = Len(timeline) + i - 1
  <2>1. Numbers = [i \in 1..k |-> Len(timeline) + i - 1]
    BY <1>4 DEF Numbers, sequence
  <2>2. \A i \in 1..k : Len(timeline) + i - 1 \in Nat
    BY <1>1, <1>2
  <2>3. QED
    BY <1>2, <2>1, <2>2
<1>7. /\ SubSeq(queue, k + 1, q) \in Seq(Nat) /\ Len(SubSeq(queue, k + 1, q)) = q - k
      /\ \A i \in 1..q - k : SubSeq(queue, k + 1, q)[i] = queue[k + i]
  <2>1. \A i \in k + 1..q : queue[i] \in Nat
    BY <1>1, <1>2
  <2>2. k + 1 \in Int /\ q \in Int
    BY <1>1, <1>2
  <2>3. /\ SubSeq(queue, k + 1, q) \in Seq(Nat)
        /\ Len(SubSeq(queue, k + 1, q)) = (IF k + 1 <= q THEN q - (k + 1) + 1 ELSE 0)
        /\ \A i \in 1..q - (k + 1) + 1 : SubSeq(queue, k + 1, q)[i] = queue[k + 1 + i - 1]
    BY <2>1, <2>2, SubSeqProperties
  <2>4. (IF k + 1 <= q THEN q - (k + 1) + 1 ELSE 0) = q - k /\ q - (k + 1) + 1 = q - k
        /\ \A i \in 1..q - k : k + 1 + i - 1 = k + i
    BY <1>1, <1>2
  <2>5. QED
    BY <2>3, <2>4
<1>8. SubSeq(queue, Len(Taken) + 1, Len(queue)) = SubSeq(queue, k + 1, q)
  BY <1>4 DEF q
<1>9. Len(Taken) \in 0..Len(queue) /\ Len(queue) = q
  BY <1>1, <1>2, <1>4 DEF q
<1>10. QED
  BY <1>2, <1>4, <1>5, <1>6, <1>7, <1>8, <1>9

\* The history that a prefill leaves has no hole.
LEMMA PrefilledHistory ==
  ASSUME FanoutInv, NEW kept \in {history, <<>>}
  PROVE  /\ Kept(kept \o Numbers) \in Seq(Nat)
         /\ Len(Kept(kept \o Numbers)) <= SHARED_FANOUT_CHUNKS
         /\ \A i \in DOMAIN Kept(kept \o Numbers) :
              Kept(kept \o Numbers)[i]
                = (Len(timeline) + Len(Taken)) - Len(Kept(kept \o Numbers)) + i - 1
<1> DEFINE all == kept \o Numbers
           n == Len(timeline)
           k == Len(Taken)
           h == Len(kept)
<1>1. n \in Nat /\ k \in Nat /\ Numbers \in Seq(Nat) /\ Len(Numbers) = k
      /\ \A i \in 1..k : Numbers[i] = n + i - 1
  <2>1. timeline \in Seq(Nat)
    BY DEF FanoutInv, TypeOK
  <2>2. QED
    BY <2>1, TakenFromQueue
<1>2. kept \in Seq(Nat) /\ h \in Nat /\ \A i \in 1..h : kept[i] = n - h + i - 1
  <2>1. CASE kept = history
    BY <2>1 DEF FanoutInv, TypeOK, sequence
  <2>2. CASE kept = <<>>
    BY <2>2
  <2>3. QED
    BY <2>1, <2>2
<1> HIDE DEF n, k, h
<1>3. all \in Seq(Nat) /\ Len(all) = h + k /\ DOMAIN all = 1..h + k
      /\ \A i \in 1..h + k : all[i] = IF i <= h THEN kept[i] ELSE Numbers[i - h]
  <2>1. Len(kept) = h
    BY DEF h
  <2>2. /\ all \in Seq(Nat) /\ Len(all) = Len(kept) + Len(Numbers)
        /\ \A i \in 1..Len(kept) + Len(Numbers) :
             all[i] = IF i <= Len(kept) THEN kept[i] ELSE Numbers[i - Len(kept)]
    <3>1. kept \in Seq(Nat) /\ Numbers \in Seq(Nat)
      BY <1>1, <1>2
    <3>2. QED
      BY <3>1, ConcatProperties
  <2>3. DOMAIN all = 1..Len(all)
    BY <2>2
  <2>4. QED
    BY <1>1, <2>1, <2>2, <2>3
<1> HIDE DEF all
<1>4. \A i \in DOMAIN all : all[i] = (n + k) - Len(all) + i - 1
  <2>1. SUFFICES ASSUME NEW i \in 1..h + k PROVE all[i] = (n + k) - (h + k) + i - 1
    BY <1>3
  <2>2. CASE i <= h
    <3>1. i \in 1..h /\ all[i] = kept[i]
      BY <1>1, <1>2, <1>3, <2>2
    <3>2. all[i] = n - h + i - 1
      BY <1>2, <3>1
    <3>3. QED
      BY <1>1, <1>2, <3>2
  <2>3. CASE i > h
    <3>1. i - h \in 1..k /\ all[i] = Numbers[i - h]
      BY <1>1, <1>2, <1>3, <2>3
    <3>2. all[i] = n + (i - h) - 1
      BY <1>1, <3>1
    <3>3. QED
      BY <1>1, <1>2, <3>2
  <2>4. QED
    BY <1>1, <1>2, <2>2, <2>3
<1>5. n + k \in Nat
  BY <1>1
<1>6. /\ Kept(all) \in Seq(Nat) /\ Len(Kept(all)) <= SHARED_FANOUT_CHUNKS
      /\ \A i \in DOMAIN Kept(all) : Kept(all)[i] = (n + k) - Len(Kept(all)) + i - 1
  BY <1>3, <1>4, <1>5, KeptNewest, KeptNumbers
<1>7. QED
  BY <1>6 DEF all, n, k

\* A barrier, or the start: who takes the prefill begins behind the common timeline, and
\* nobody else plays.
LEMMA PrefillKeeps ==
  ASSUME FanoutInv, NEW kept \in {history, <<>>}, NEW members \in SUBSET Members,
         Prefill(members, kept), members # {} => queue # <<>>,
         phase \in {"prebuffer", "play"}, phase' \in {"play", "failed"}, rebuffering' \in BOOLEAN,
         faults' \in 0..MaxFaults, faults' = MaxFaults => phase = "prebuffer",
         UNCHANGED <<produced, eof, chunk, silence>>
  PROVE  FanoutInv'
<1> DEFINE n == Len(timeline)
           k == Len(Taken)
<1>1. /\ queue' = SubSeq(queue, k + 1, Len(queue)) /\ ready' = [m \in Members |-> m \in members]
      /\ queue' \in Seq(Nat) /\ Len(queue') = Len(queue) - k /\ k \in 0..Len(queue)
      /\ queue \in Seq(Nat) /\ \A i \in 1..Len(queue') : queue'[i] = queue[k + i]
  BY TakenFromQueue DEF Prefill, FanoutInv, TypeOK
<1>2. /\ timeline \in Seq(Nat) /\ n \in Nat /\ produced \in Nat /\ Len(queue) \in Nat
      /\ Len(queue) <= produced /\ cursor \in [Members -> Nat] /\ given \in [Members -> Seq(Nat)]
  BY SizeTypes DEF FanoutInv, TypeOK, QueueNext
<1>3. Taken \in Seq(Nat) /\ \A i \in DOMAIN Taken : Taken[i] = (produced - Len(queue)) + i
  BY TakenFromQueue
<1> HIDE DEF n, k
<1>4. ready' \in [Members -> BOOLEAN] /\ Ready' = members
  <2>1. ready' \in [Members -> BOOLEAN]
    BY <1>1
  <2>2. Ready' = {m \in Members : ready'[m]}
    BY DEF Ready
  <2>3. \A m \in Members : ready'[m] <=> m \in members
    BY <1>1, Zenon
  <2>4. QED
    BY <2>1, <2>2, <2>3
<1>5. QueueNext' /\ ~Pending' /\ Done' = (produced - Len(queue)) + k
  <2>1. ~Pending'
    BY DEF Pending
  <2>2. \A i \in DOMAIN queue' : queue'[i] = produced' - Len(queue') + i
    <3>1. SUFFICES ASSUME NEW i \in 1..Len(queue') PROVE queue'[i] = produced - Len(queue') + i
      <4>1. DOMAIN queue' = 1..Len(queue') /\ produced' = produced
        BY <1>1
      <4>2. QED
        BY <4>1
    <3>2. k + i \in 1..Len(queue) /\ queue'[i] = queue[k + i]
      BY <1>1, <1>2
    <3>3. queue[k + i] = produced - Len(queue) + (k + i)
      BY <1>1, <3>2 DEF FanoutInv, QueueNext
    <3>4. k \in Int /\ i \in Int /\ Len(queue') = Len(queue) - k
      BY <1>1, <1>2
    <3>5. produced - Len(queue) + (k + i) = produced - (Len(queue) - k) + i
      BY <1>2, <3>4
    <3>6. QED
      BY <3>2, <3>3, <3>4, <3>5
  <2>3. Len(queue') <= produced'
    BY <1>1, <1>2
  <2>4. Done' = produced' - Len(queue')
    BY <1>1, <1>2, <2>1 DEF Done
  <2>5. QED
    BY <1>1, <1>2, <2>1, <2>2, <2>3, <2>4 DEF QueueNext
<1>6. Len(queue') <= GROUP_JITTER_BUFFER_CHUNKS
  BY <1>1, <1>2, SizeTypes DEF FanoutInv, TypeOK
<1>7. CASE members = {}
  <2>1. /\ history' = kept
        /\ UNCHANGED <<timeline, origin, released, cursor, draining, timeouts, given>>
    BY <1>7 DEF Prefill, writers
  <2>2. TypeOK'
    <3>1. /\ history' \in Seq(Nat) /\ Len(history') <= SHARED_FANOUT_CHUNKS
          /\ \A i \in DOMAIN history' : history'[i] = Len(timeline') - Len(history') + i - 1
      <4>1. CASE kept = history
        BY <2>1, <4>1 DEF FanoutInv, TypeOK, sequence
      <4>2. CASE kept = <<>>
        BY <2>1, <4>2, SizeTypes
      <4>3. QED
        BY <4>1, <4>2
    <3>2. QED
      BY <1>1, <1>4, <1>6, <2>1, <3>1 DEF FanoutInv, TypeOK, sequence
  <2>3. Gapless'
    BY <2>1 DEF FanoutInv, Gapless, sequence
  <2>4. Played'
    BY <1>4, <1>7 DEF Played
  <2>5. QED
    BY <1>5, <2>2, <2>3, <2>4 DEF FanoutInv
<1>8. CASE members # {}
  <2>1. /\ timeline' = timeline \o Taken /\ history' = Kept(kept \o Numbers)
        /\ origin' = Len(timeline') /\ released' = Len(timeline')
        /\ cursor' = [m \in Members |-> IF m \in members THEN Len(timeline') ELSE cursor[m]]
        /\ given' = [m \in Members |-> IF m \in members THEN Numbers ELSE given[m]]
        /\ timeouts' = [m \in Members |-> IF m \in members THEN 0 ELSE timeouts[m]]
        /\ draining' = [m \in Members |-> draining[m] /\ m \notin members]
    BY <1>8 DEF Prefill, sequence
  <2>2. timeline' \in Seq(Nat) /\ Len(timeline') = n + k /\ k \in Nat /\ k > 0
    BY <1>2, <1>3, <1>8, <2>1, TakenFromQueue DEF n, k
  <2>3. Numbers \in Seq(Nat) /\ Len(Numbers) = k /\ \A i \in 1..k : Numbers[i] = n + i - 1
    BY TakenFromQueue DEF n, k
  <2>4. TypeOK'
    <3>1. draining' \in [Members -> BOOLEAN]
      BY <2>1
    <3>2. /\ cursor' \in [Members -> Nat] /\ given' \in [Members -> Seq(Nat)]
          /\ timeouts' \in [Members -> Nat]
      BY SMTT(30), <1>2, <2>1, <2>2, <2>3 DEF FanoutInv, TypeOK
    <3>3. /\ history' \in Seq(Nat) /\ Len(history') <= SHARED_FANOUT_CHUNKS
          /\ \A i \in DOMAIN history' : history'[i] = Len(timeline') - Len(history') + i - 1
      <4>1. /\ history' \in Seq(Nat) /\ Len(history') <= SHARED_FANOUT_CHUNKS
            /\ \A i \in DOMAIN history' : history'[i] = (n + k) - Len(history') + i - 1
        BY <2>1, PrefilledHistory DEF n, k
      <4>2. QED
        BY <2>2, <4>1
    <3>4. origin' \in 0..Len(timeline') /\ released' \in 0..Len(timeline')
      BY <2>1, <2>2
    <3>5. /\ produced' \in 0..SourceLength /\ chunk' \in Nat /\ silence' \in 0..MaxSilence
          /\ phase' \in {"play", "failed"}
      BY DEF FanoutInv, TypeOK
    <3>6. eof' \in BOOLEAN
      BY DEF FanoutInv, TypeOK
    <3>7. QED
      BY <1>1, <1>4, <1>6, <2>2, <3>1, <3>2, <3>3, <3>4, <3>5, <3>6 DEF TypeOK, sequence
  <2>5. ASSUME NEW m \in members
        PROVE  m \in Members /\ cursor'[m] = n + k /\ given'[m] = Numbers /\ First(m)' = n
    <3>1. m \in Members
      OBVIOUS
    <3>2. cursor'[m] = n + k /\ given'[m] = Numbers
      BY <2>1, <2>2, <3>1
    <3>3. cursor'[m] - Len(given'[m]) = n
      BY <1>2, <2>2, <2>3, <3>2 DEF n
    <3>4. QED
      BY <3>1, <3>2, <3>3 DEF First
  <2>6. Gapless'
    <3>1. SUFFICES ASSUME NEW m \in Members
          PROVE /\ cursor'[m] <= n + k /\ Len(given'[m]) <= cursor'[m]
                /\ \A i \in DOMAIN given'[m] : given'[m][i] = cursor'[m] - Len(given'[m]) + i - 1
      BY <2>2 DEF Gapless, sequence
    <3>2. CASE m \in members
      <4>1. cursor'[m] = n + k /\ given'[m] = Numbers
        BY <2>5, <3>2
      <4>2. n \in Nat /\ DOMAIN Numbers = 1..k
        BY <1>2, <2>3 DEF n
      <4>3. QED
        BY SMTT(30), <2>2, <2>3, <4>1, <4>2
    <3>3. CASE m \notin members
      <4>1. cursor'[m] = cursor[m] /\ given'[m] = given[m]
        BY <2>1, <3>3
      <4>2. cursor[m] \in Nat /\ cursor[m] <= n /\ n \in Nat
        BY <1>2 DEF FanoutInv, Gapless, sequence, n
      <4>3. QED
        BY <2>2, <4>1, <4>2 DEF FanoutInv, Gapless
    <3>4. QED
      BY <3>2, <3>3
  <2>7. Played'
    <3>1. \A m \in Ready' : InOrder(timeline', First(m)', Done')
      <4>1. produced - Len(queue) \in Nat
        BY <1>2
      <4>2. InOrder(timeline \o Taken, Len(timeline), (produced - Len(queue)) + Len(Taken))
        BY <1>2, <1>3, <4>1, PrefillInOrder
      <4>3. InOrder(timeline', n, Done')
        BY <1>5, <2>1, <4>2 DEF n, k
      <4>4. QED
        BY <1>4, <2>5, <4>3
    <3>2. ASSUME faults' = MaxFaults
          PROVE  n = 0 /\ timeline' # <<>> /\ timeline'[1] = 1
      <4>1. timeline = <<>> /\ Done = 0 /\ ~Pending
        BY <3>2 DEF FanoutInv, Played, Pending
      <4>2. produced - Len(queue) = 0
        BY <1>2, <4>1 DEF Done
      <4>3. timeline' = Taken /\ 1 \in DOMAIN Taken
        BY <1>3, <2>1, <2>2, <4>1 DEF n, k
      <4>4. QED
        BY <1>3, <4>1, <4>2, <4>3 DEF n
    <3>3. QED
      BY <1>4, <2>5, <3>1, <3>2 DEF Played
  <2>8. QED
    BY <1>5, <2>4, <2>6, <2>7 DEF FanoutInv
<1>9. QED
  BY <1>7, <1>8

LEMMA StartKeeps ==
  ASSUME FanoutInv, Start PROVE FanoutInv'
<1>1. PICK members \in SUBSET Members :
        /\ (queue = <<>> => members = {}) /\ Prefill(members, history)
        /\ phase' = IF members = {} THEN "failed" ELSE "play"
  BY DEF Start
<1>2. /\ phase = "prebuffer"
      /\ UNCHANGED <<produced, eof, chunk, rebuffering, silence, faults>>
  BY DEF Start, bounds
<1>3. rebuffering' \in BOOLEAN /\ faults' \in 0..MaxFaults
  BY <1>2 DEF FanoutInv, TypeOK
<1>4. phase' \in {"play", "failed"} /\ history \in {history, <<>>}
  BY <1>1
<1>5. QED
  BY <1>1, <1>2, <1>3, <1>4, PrefillKeeps

LEMMA RealignKeeps ==
  ASSUME FanoutInv, NEW members \in SUBSET Members, Realign(members) PROVE FanoutInv'
<1>1. /\ phase = "play" /\ queue # <<>> /\ Prefill(members, <<>>) /\ phase' \in {"play", "failed"}
      /\ faults > 0 /\ faults' = faults - 1 /\ UNCHANGED <<produced, eof, chunk, silence>>
  BY DEF Realign, Fault
<1>2. faults' \in 0..MaxFaults /\ faults' # MaxFaults
  BY <1>1, SizeTypes DEF FanoutInv, TypeOK
<1>3. rebuffering' \in BOOLEAN
  BY DEF Realign
<1>4. QED
  BY <1>1, <1>2, <1>3, PrefillKeeps

-----------------------------------------------------------------------------
(* The theorems.                                                           *)

LEMMA FanoutNextKeeps == FanoutInv /\ [Next]_vars => FanoutInv'
<1> SUFFICES ASSUME FanoutInv, [Next]_vars PROVE FanoutInv'
  OBVIOUS
<1>1. CASE Produce \/ SourceEnds \/ Flushed
  BY <1>1, ProduceKeeps, SourceEndsKeeps, FlushedKeeps
<1>2. CASE Broadcast
  BY <1>2, StartKeeps, TakePcmKeeps, TakeSilenceKeeps, StallsKeeps, FanoutKeeps, FlushKeeps
     DEF Broadcast
<1>3. CASE \E members \in SUBSET Members : Realign(members)
  BY <1>3, RealignKeeps
<1>4. ASSUME NEW m \in Members, Writer(m) \/ LagsBehind(m) \/ DrainTimesOut(m) PROVE FanoutInv'
  <2>1. CASE Overrun(m) \/ LagsBehind(m)
    BY <2>1, IsolatedKeeps DEF Overrun, LagsBehind
  <2>2. CASE Write(m) \/ Drained(m) \/ DrainTimesOut(m)
    BY <2>2, WriteKeeps, DrainedKeeps, DrainTimesOutKeeps
  <2>3. QED
    BY <1>4, <2>1, <2>2 DEF Writer
<1>5. CASE UNCHANGED vars
  <2>1. UNCHANGED <<produced, queue, eof, phase, chunk, rebuffering, timeline, history, origin,
                    released, cursor, draining, timeouts, given, ready, silence, faults>>
    BY <1>5 DEF vars, source, broadcaster, shared, writers, bounds
  <2>2. TypeOK' /\ Gapless'
    BY <2>1 DEF FanoutInv, TypeOK, Gapless, sequence
  <2>3. QueueNext' /\ Done' = Done
    BY <2>1 DEF FanoutInv, QueueNext, Pending, Done
  <2>4. Played'
    BY <2>1, <2>3, StaysPlayed DEF Ready, FanoutInv, Played
  <2>5. QED
    BY <2>2, <2>3, <2>4 DEF FanoutInv
<1>6. QED
  BY <1>1, <1>2, <1>3, <1>4, <1>5 DEF Next

\* Producer, broadcaster, history and writers stay in FanoutInv, whatever the sizes.
THEOREM FanoutInvariant == Spec => []FanoutInv
BY InitFanoutInv, FanoutNextKeeps, PTL DEF Spec

\* The state keeps its types, queue and history their limits, and the history has no hole.
THEOREM HistoryHasNoHole == Spec => []TypeOK
<1>1. FanoutInv => TypeOK
  BY DEF FanoutInv
<1>2. QED
  BY <1>1, FanoutInvariant, PTL

\* As in TimelineWhole: every member that plays is given the common timeline without gap,
\* repetition or change of order.
THEOREM TimelineIsWhole == Spec => []TimelineWhole
<1>1. FanoutInv => TimelineWhole
  BY DEF FanoutInv, Gapless, TimelineWhole, Ready
<1>2. QED
  BY <1>1, FanoutInvariant, PTL

\* What a member heard as its i-th PCM, in the timeline.
LEMMA HeardInTimeline ==
  ASSUME FanoutInv, NEW m \in Ready
  PROVE  /\ m \in Members /\ timeline \in Seq(Nat) /\ First(m) \in Nat /\ Len(given[m]) \in Nat
         /\ DOMAIN given[m] = 1..Len(given[m]) /\ First(m) + Len(given[m]) = cursor[m]
         /\ cursor[m] <= Len(timeline)
         /\ \A i \in 1..Len(given[m]) : Heard(m, i) = timeline[First(m) + i]
<1>1. /\ m \in Members /\ timeline \in Seq(Nat) /\ given[m] \in Seq(Nat) /\ cursor[m] \in Nat
      /\ cursor[m] <= Len(timeline) /\ Len(given[m]) <= cursor[m]
      /\ \A i \in DOMAIN given[m] : given[m][i] = cursor[m] - Len(given[m]) + i - 1
  BY DEF FanoutInv, TypeOK, Gapless, Ready, sequence
<1> DEFINE c == cursor[m]
           l == Len(given[m])
<1>2. l \in Nat /\ c \in Nat /\ l <= c /\ DOMAIN given[m] = 1..l /\ First(m) = c - l
      /\ \A i \in 1..l : given[m][i] = c - l + i - 1
  BY <1>1 DEF First
<1> HIDE DEF c, l
<1>3. First(m) \in Nat /\ First(m) + l = c
  BY <1>2
<1>4. ASSUME NEW i \in 1..l PROVE given[m][i] + 1 = First(m) + i
  <2>1. given[m][i] = c - l + i - 1 /\ i \in Int
    BY <1>2
  <2>2. QED
    BY <1>2, <2>1
<1>5. QED
  BY <1>1, <1>2, <1>3, <1>4 DEF Heard, c, l

\* While nothing is paced, all but the queue is done with.
LEMMA DoneButQueue ==
  ASSUME FanoutInv
  PROVE  Done \in Int /\ (phase # "pace" => Done = produced - Len(queue))
<1>1. produced \in Int /\ Len(queue) \in Int
  BY SizeTypes DEF FanoutInv, TypeOK
<1>2. CASE Pending
  BY <1>1, <1>2 DEF Done, Pending
<1>3. CASE ~Pending
  <2>1. Done = produced - Len(queue) - 0
    BY <1>3, Zenon DEF Done
  <2>2. QED
    BY <1>1, <2>1
<1>4. QED
  BY <1>2, <1>3

\* As in SourceWhole: what of the source a member heard is in order and without a gap, and at
\* an end without faults it is all of the source.
THEOREM SourceIsWhole == Spec => []SourceWhole
<1>1. FanoutInv => SourceWhole
  <2>1. SUFFICES ASSUME FanoutInv, NEW m \in Ready
        PROVE /\ \A i, j \in DOMAIN given[m] :
                   i < j /\ Heard(m, i) # 0 /\ Heard(m, j) # 0 =>
                     /\ Heard(m, i) < Heard(m, j)
                     /\ \A c \in Heard(m, i)..Heard(m, j) : \E k \in i..j : Heard(m, k) = c
              /\ phase = "ended" /\ faults = MaxFaults =>
                   \A c \in 1..produced : \E i \in DOMAIN given[m] : Heard(m, i) = c
    BY DEF SourceWhole
  <2> DEFINE t == timeline
             n == Len(timeline)
             f == First(m)
             l == Len(given[m])
             H(i) == Heard(m, i)
  <2>2. /\ t \in Seq(Nat) /\ n \in Nat /\ f \in Nat /\ l \in Nat /\ f + l = cursor[m] /\ f + l <= n
        /\ DOMAIN given[m] = 1..l /\ \A i \in 1..l : H(i) = t[f + i]
        /\ n = Len(t) /\ \A i \in 1..n : t[i] \in Nat
    <3>1. /\ timeline \in Seq(Nat) /\ f \in Nat /\ l \in Nat /\ f + l = cursor[m] /\ cursor[m] <= n
          /\ DOMAIN given[m] = 1..l /\ \A i \in 1..l : H(i) = t[f + i]
      BY <2>1, HeardInTimeline
    <3> HIDE DEF f, l, H
    <3>2. QED
      BY <3>1
  <2>3. InOrder(t, f, Done)
    BY <2>1 DEF FanoutInv, Played
  <2> HIDE DEF t, f, l, H
  <2>4. ASSUME NEW i \in 1..l, NEW j \in 1..l, i < j, H(i) # 0, H(j) # 0
        PROVE  H(i) < H(j) /\ \A c \in H(i)..H(j) : \E k \in i..j : H(k) = c
    <3> DEFINE x == f + i
               y == f + j
    <3>1. /\ x \in f + 1..n /\ x \in 1..n /\ y \in x + 1..n /\ y \in 1..n
          /\ H(i) = t[x] /\ H(j) = t[y]
      BY <2>2, <2>4
    <3> HIDE DEF x, y
    <3>2. /\ t[x] \in Nat /\ t[y] \in Nat /\ t[x] # 0 /\ t[y] # 0
          /\ t[x] < t[y] /\ t[y] <= Done
          /\ \A c \in t[x]..Done : \E k \in x..n : t[k] = c
      <4>1. y \in f + 1..n
        BY <2>2, <3>1
      <4>2. QED
        BY <2>2, <2>3, <2>4, <3>1, <4>1 DEF InOrder
    <3>3. ASSUME NEW c \in t[x]..t[y] PROVE \E k \in i..j : H(k) = c
      <4>1. Done \in Int
        BY <2>1, DoneButQueue
      <4>2. c \in t[x]..Done
        BY <3>2, <4>1
      <4>3. PICK k \in x..n : t[k] = c
        BY <3>2, <4>2
      <4>4. k <= y
        <5>1. SUFFICES ASSUME k > y PROVE FALSE
          BY <2>2, <3>1
        <5>2. k \in y + 1..n /\ t[k] # 0 /\ y \in f + 1..n
          <6>1. x \in Int /\ y \in Int /\ k \in Int /\ k <= n /\ x >= f + 1 /\ y >= x /\ y <= n
            BY <2>2, <3>1
          <6>2. k \in y + 1..n /\ y \in f + 1..n
            BY <2>2, <5>1, <6>1
          <6>3. t[k] # 0
            BY <3>2, <4>3
          <6>4. QED
            BY <6>2, <6>3
        <5>3. t[y] < t[k]
          BY <2>2, <2>3, <3>2, <5>2 DEF InOrder
        <5>4. QED
          BY <3>2, <4>3, <5>3
      <4>5. k - f \in i..j /\ k - f \in 1..l /\ f + (k - f) = k
        BY <2>2, <3>1, <4>3, <4>4 DEF x, y
      <4>6. H(k - f) = c
        BY <2>2, <4>3, <4>5
      <4>7. QED
        BY <4>5, <4>6
    <3>4. QED
      BY <3>1, <3>2, <3>3
  <2>5. ASSUME phase = "ended", faults = MaxFaults, NEW c \in 1..produced
        PROVE  \E i \in 1..l : H(i) = c
    <3>1. /\ f = 0 /\ t # <<>> /\ t[1] = 1 /\ cursor[m] = n /\ queue = <<>>
      BY <2>1, <2>5 DEF FanoutInv, Played, sequence, t, f
    <3>2. l = n /\ n >= 1
      BY <2>2, <3>1
    <3>3. Done = produced
      <4>1. Len(queue) = 0 /\ produced \in Nat
        <5>1. produced \in 0..SourceLength
          BY <2>1 DEF FanoutInv, TypeOK
        <5>2. QED
          BY <3>1, <5>1, SizeTypes
      <4>2. QED
        BY <2>1, <2>5, <4>1, DoneButQueue
    <3>4. 1 \in f + 1..n /\ c \in t[1]..Done /\ t[1] # 0
      BY <3>1, <3>2, <3>3
    <3>5. PICK k \in 1..n : t[k] = c
      BY <2>2, <2>3, <3>4 DEF InOrder
    <3>6. k \in 1..l /\ H(k) = t[f + k] /\ f + k = k
      BY <2>2, <3>1, <3>2
    <3>7. QED
      BY <3>5, <3>6
  <2>6. ASSUME NEW i \in DOMAIN given[m], NEW j \in DOMAIN given[m],
               i < j, Heard(m, i) # 0, Heard(m, j) # 0
        PROVE  /\ Heard(m, i) < Heard(m, j)
               /\ \A c \in Heard(m, i)..Heard(m, j) : \E k \in i..j : Heard(m, k) = c
    <3>1. i \in 1..l /\ j \in 1..l
      BY <2>2
    <3>2. QED
      BY <3>1, <2>4, <2>6 DEF H
  <2>7. ASSUME phase = "ended", faults = MaxFaults, NEW c \in 1..produced
        PROVE  \E i \in DOMAIN given[m] : Heard(m, i) = c
    <3>1. DOMAIN given[m] = 1..l
      BY <2>2
    <3>2. QED
      BY <3>1, <2>5, <2>7 DEF H
  <2>8. QED
    BY <2>6, <2>7
<1>2. QED
  BY <1>1, FanoutInvariant, PTL

-----------------------------------------------------------------------------
(* The receivers.                                                          *)

Places == {"no", "suspend", "start", "connect", "fail"}
Writers == {"none", "ok", "broken"}
Ends == {"none", "listening", "serving", "closing"}
Calls == [by : Callers, at : {"close", "command", "late"}, conn : BOOLEAN, stop : BOOLEAN]
Commands == [cmd : {"start", "stop"}, by : Callers \cup {"prepare", "quiet", "nobody"}]

StreamTypes ==
  /\ desired \in BOOLEAN /\ fresh \in BOOLEAN /\ stopping \in {"no", "asked", "quiet"}
  /\ bc \in {"off", "prebuffer", "prime", "play", "dead", "detach", "prepare", "reprime"}
  /\ cohort \subseteq Hubs /\ away \subseteq Hubs /\ burst \subseteq Hubs
  /\ aligned \subseteq Hubs /\ online \subseteq Hubs
  /\ gate \in {"no", "returning", "drift"} /\ troubles \in Nat
MemberTypes ==
  /\ claims \in [Hubs -> SUBSET Kinds]
  /\ writer \in [Hubs -> Writers] /\ admitted \in [Hubs -> BOOLEAN]
  /\ prepare \in [Hubs -> Places] /\ detaching \in [Hubs -> BOOLEAN]
LinkTypes ==
  /\ detach \in [Hubs -> SUBSET Calls] /\ pending \in [Hubs -> Seq(Commands)]
  /\ receiver \in [Hubs -> Ends]
Types == StreamTypes /\ MemberTypes /\ LinkTypes

\* A member and its hub: the two ends of a connection; a member that is detached,
\* prepared or taken has none, and one that is taken is not prepared.
Member(h) ==
  /\ receiver[h] = "serving" <=> writer[h] = "ok"
  /\ receiver[h] = "closing" => \E d \in detach[h] : d.conn /\ d.at = "close"
  /\ admitted[h] => writer[h] # "none"
  /\ detaching[h] \/ prepare[h] # "no" => writer[h] = "none"
  /\ claims[h] # {} => writer[h] = "none" /\ prepare[h] = "no"

\* The command a preparation waits for: there is one at most, and none once the
\* preparation waits for something else.
NoneOf(commands) == \A i \in 1..Len(commands) : commands[i].by # "prepare"
Awaits(commands, place) ==
  /\ place \notin {"start", "fail"} => NoneOf(commands)
  /\ \A i, j \in 1..Len(commands) :
       commands[i].by = "prepare" /\ commands[j].by = "prepare" => i = j

\* Nothing of h is connected or on its way to be.
Off(h) == writer[h] = "none" /\ prepare[h] = "no"

\* What a Stop leaves; what a barrier has detached; that no member is admitted before
\* the prefill; who is left out by a barrier; and what all this is for.
Ended == ~desired /\ stopping = "no" => bc = "off" /\ \A h \in Hubs : Off(h)
Emptied == bc = "detach" => \A h \in cohort : Off(h)
Unready == bc \in {"off", "prebuffer", "prime"} => \A h \in Hubs : ~admitted[h]
Left == Realigning => \A h \in Hubs : admitted[h] => h \in away
Together == \A h \in Hubs : admitted[h] => h \in aligned \cup away
Course == Ended /\ Emptied /\ Unready /\ Left /\ Together

Linked == \A h \in Hubs : Member(h) /\ Awaits(pending[h], prepare[h])

ReceiverInv == Types /\ Linked /\ Course

-----------------------------------------------------------------------------
(* The commands on their way.                                              *)

LEMMA OrphanedCommands ==
  ASSUME NEW commands \in Seq(Commands), NEW by
  PROVE  /\ Orphaned(commands, by) \in Seq(Commands)
         /\ \A place : Awaits(commands, place) => Awaits(Orphaned(commands, by), place)
         /\ by = "prepare" => NoneOf(Orphaned(commands, by))
<1> DEFINE n == Len(commands)
           orphans == Orphaned(commands, by)
<1>1. n \in Nat /\ DOMAIN commands = 1..n /\ \A i \in 1..n : commands[i] \in Commands
  OBVIOUS
<1>2. orphans = [i \in 1..n |->
         [commands[i] EXCEPT !.by = IF @ = by THEN "nobody" ELSE @]]
  BY <1>1 DEF Orphaned
<1>3. \A i \in 1..n : /\ orphans[i] \in Commands
                      /\ orphans[i].by = (IF commands[i].by = by THEN "nobody" ELSE commands[i].by)
  <2> SUFFICES ASSUME NEW i \in 1..n
               PROVE  /\ orphans[i] \in Commands
                      /\ orphans[i].by = (IF commands[i].by = by THEN "nobody" ELSE commands[i].by)
    OBVIOUS
  <2>1. commands[i] \in Commands
    BY <1>1
  <2>2. orphans[i] = [commands[i] EXCEPT !.by = IF @ = by THEN "nobody" ELSE @]
    BY <1>2
  <2> HIDE DEF orphans
  <2>3. QED
    BY <2>1, <2>2 DEF Commands
<1>4. orphans \in [1..n -> Commands]
  BY <1>2, <1>3
<1> HIDE DEF orphans
<1>5. orphans \in Seq(Commands) /\ Len(orphans) = n
  <2>1. orphans \in Seq(Commands) /\ DOMAIN orphans = 1..n
    BY <1>1, <1>4
  <2>2. QED
    BY <2>1, <1>1
<1>6. ASSUME NEW place, Awaits(commands, place) PROVE Awaits(orphans, place)
  BY <1>3, <1>5, <1>6 DEF Awaits, NoneOf
<1>7. by = "prepare" => NoneOf(orphans)
  BY <1>3, <1>5 DEF NoneOf
<1>8. QED
  BY <1>5, <1>6, <1>7 DEF orphans

LEMMA GivenCommands ==
  ASSUME NEW commands \in Seq(Commands), NEW cmd \in {"start", "stop"},
         NEW by \in Callers \cup {"prepare", "quiet", "nobody"}
  PROVE  /\ Given(commands, cmd, by) \in Seq(Commands)
         /\ by # "prepare" =>
              \A place : Awaits(commands, place) => Awaits(Given(commands, cmd, by), place)
         /\ NoneOf(commands) =>
              \A place \in {"start", "fail"} : Awaits(Given(commands, cmd, by), place)
<1> DEFINE n == Len(commands)
           c == [cmd |-> cmd, by |-> by]
           more == Given(commands, cmd, by)
<1>1. c \in Commands /\ c.by = by
  BY DEF Commands
<1>2. /\ more \in Seq(Commands) /\ Len(more) = n + 1 /\ n \in Nat
      /\ \A i \in 1..n : more[i] = commands[i]
      /\ more[n + 1] = c
  BY <1>1, AppendProperties, LenProperties DEF Given
<1>3. \A i \in 1..Len(more) : i \in 1..n \/ i = n + 1
  BY <1>2
<1> HIDE DEF more, c
<1>4. ASSUME by # "prepare", NEW place, Awaits(commands, place) PROVE Awaits(more, place)
  BY <1>1, <1>2, <1>3, <1>4 DEF Awaits, NoneOf
<1>5. ASSUME NoneOf(commands), NEW place \in {"start", "fail"} PROVE Awaits(more, place)
  BY <1>2, <1>3, <1>5 DEF Awaits, NoneOf
<1>6. QED
  BY <1>2, <1>4, <1>5 DEF more

LEMMA FirstCommand ==
  ASSUME NEW commands \in Seq(Commands), commands # <<>>
  PROVE  /\ Head(commands) \in Commands /\ Tail(commands) \in Seq(Commands)
         /\ \A place : Awaits(commands, place) =>
              /\ Awaits(Tail(commands), place)
              /\ Head(commands).by = "prepare" =>
                   NoneOf(Tail(commands)) /\ place \in {"start", "fail"}
<1> DEFINE n == Len(commands)
           rest == Tail(commands)
           c == Head(commands)
<1>1. /\ c \in Commands /\ rest \in Seq(Commands) /\ n \in Nat /\ n >= 1 /\ Len(rest) = n - 1
      /\ c = commands[1] /\ \A i \in 1..n - 1 : rest[i] = commands[i + 1]
  BY HeadTailProperties, LenProperties
<1>2. 1 \in 1..n /\ \A i \in 1..Len(rest) : i + 1 \in 1..n /\ i + 1 # 1 /\ rest[i] = commands[i + 1]
  BY <1>1
<1>3. \A i, j \in 1..Len(rest) : i + 1 = j + 1 => i = j
  BY <1>1
<1> HIDE DEF rest, c
<1>4. ASSUME NEW place, Awaits(commands, place) PROVE Awaits(rest, place)
  <2>1. place \notin {"start", "fail"} => NoneOf(rest)
    BY <1>2, <1>4 DEF Awaits, NoneOf
  <2>2. ASSUME NEW i \in 1..Len(rest), NEW j \in 1..Len(rest),
               rest[i].by = "prepare", rest[j].by = "prepare"
        PROVE  i = j
    <3>1. /\ i + 1 \in 1..n /\ commands[i + 1].by = "prepare"
          /\ j + 1 \in 1..n /\ commands[j + 1].by = "prepare"
      BY <1>2, <2>2
    <3>2. QED
      BY <1>3, <1>4, <3>1 DEF Awaits
  <2>3. QED
    BY <2>1, <2>2 DEF Awaits
<1>5. ASSUME NEW place, Awaits(commands, place), c.by = "prepare"
      PROVE  NoneOf(rest) /\ place \in {"start", "fail"}
  <2>1. 1 \in 1..n /\ commands[1].by = "prepare"
    BY <1>1, <1>2, <1>5
  <2>2. place \in {"start", "fail"}
    BY <1>5, <2>1 DEF Awaits, NoneOf
  <2>3. ASSUME NEW i \in 1..Len(rest) PROVE rest[i].by # "prepare"
    <3>1. i + 1 \in 1..n /\ i + 1 # 1 /\ rest[i] = commands[i + 1]
      BY <1>2
    <3>2. QED
      BY <1>5, <2>1, <3>1 DEF Awaits
  <2>4. QED
    BY <2>2, <2>3 DEF NoneOf
<1>6. QED
  BY <1>1, <1>4, <1>5 DEF rest, c

LEMMA NothingAwaited ==
  ASSUME NEW commands, NoneOf(commands), NEW place
  PROVE  Awaits(commands, place)
BY DEF Awaits, NoneOf

-----------------------------------------------------------------------------
(* The calls of _detach_member.                                            *)

LEMMA Withdrawn ==
  ASSUME Types, Linked, NEW hubs \in SUBSET Hubs, NEW by \in Callers,
         NEW told \in SUBSET Hubs, Withdraw(hubs, by, told)
  PROVE  /\ LinkTypes' /\ writer' \in [Hubs -> Writers] /\ prepare' \in [Hubs -> Places]
         /\ \A h \in hubs :
              /\ Off(h)' /\ receiver'[h] # "serving" /\ Awaits(pending'[h], prepare'[h])
              /\ receiver'[h] = "closing" => \E d \in detach'[h] : d.conn /\ d.at = "close"
         /\ \A h \in Hubs \ hubs :
              /\ writer'[h] = writer[h] /\ prepare'[h] = prepare[h]
              /\ receiver'[h] = receiver[h] /\ pending'[h] = pending[h]
              /\ detach'[h] = detach[h]
<1> DEFINE call(h) == [by |-> by, at |-> "close", conn |-> writer[h] = "ok",
                       stop |-> h \in told]
<1> USE DEF Types, MemberTypes, LinkTypes
<1>1. \A h \in Hubs : call(h) \in Calls
  BY DEF Calls
<1>2. \A h \in Hubs : detach'[h] = IF h \in hubs THEN detach[h] \cup {call(h)} ELSE detach[h]
  BY DEF Withdraw
<1>3. /\ detach' \in [Hubs -> SUBSET Calls]
  BY <1>1 DEF Withdraw
<1>4. pending' \in [Hubs -> Seq(Commands)]
  <2>1. \A h \in Hubs : Orphaned(pending[h], "prepare") \in Seq(Commands)
    BY OrphanedCommands
  <2>2. QED
    BY <2>1 DEF Withdraw
<1>5. /\ receiver' \in [Hubs -> Ends] /\ writer' \in [Hubs -> Writers]
      /\ prepare' \in [Hubs -> Places]
  BY DEF Withdraw, Cancelled, Ends, Writers, Places
<1>6. ASSUME NEW h \in hubs
      PROVE  /\ Off(h)' /\ receiver'[h] # "serving" /\ Awaits(pending'[h], prepare'[h])
             /\ receiver'[h] = "closing" => \E d \in detach'[h] : d.conn /\ d.at = "close"
  <2>1. Off(h)' /\ receiver'[h] # "serving"
    BY DEF Withdraw, Cancelled, Off, Ends
  <2>2. Awaits(pending'[h], prepare'[h])
    <3>1. pending'[h] = Orphaned(pending[h], "prepare")
      BY DEF Withdraw
    <3>2. NoneOf(Orphaned(pending[h], "prepare"))
      BY OrphanedCommands
    <3>3. QED
      BY <3>1, <3>2, NothingAwaited
  <2>3. CASE receiver[h] = "serving"
    <3>1. writer[h] = "ok"
      BY <2>3 DEF Linked, Member
    <3>2. call(h) \in detach'[h] /\ call(h).conn /\ call(h).at = "close"
      BY <1>2, <3>1
    <3>3. QED
      BY <2>1, <2>2, <3>2
  <2>4. CASE receiver[h] # "serving"
    <3>1. receiver'[h] = receiver[h] /\ detach[h] \subseteq detach'[h]
      BY <1>2, <2>4 DEF Withdraw
    <3>2. QED
      BY <2>1, <2>2, <3>1 DEF Linked, Member
  <2>5. QED
    BY <2>3, <2>4
<1>7. ASSUME NEW h \in Hubs \ hubs
      PROVE  /\ writer'[h] = writer[h] /\ prepare'[h] = prepare[h]
             /\ receiver'[h] = receiver[h] /\ pending'[h] = pending[h]
             /\ detach'[h] = detach[h]
  BY DEF Withdraw, Cancelled
<1>8. QED
  BY <1>3, <1>4, <1>5, <1>6, <1>7

\* What is withdrawn is in order; the rest is when it is not made ready, detached or
\* taken without a reason.
LEMMA WithdrawnMembers ==
  ASSUME Types, Linked, NEW hubs \in SUBSET Hubs, NEW by \in Callers,
         NEW told \in SUBSET Hubs, Withdraw(hubs, by, told),
         \A h \in hubs : ~admitted'[h],
         \A h \in Hubs \ hubs : /\ admitted'[h] => writer[h] # "none"
                                /\ detaching'[h] => detaching[h]
                                /\ claims'[h] = claims[h]
  PROVE  Linked'
<1>1. /\ \A h \in hubs :
           /\ Off(h)' /\ receiver'[h] # "serving" /\ Awaits(pending'[h], prepare'[h])
           /\ receiver'[h] = "closing" => \E d \in detach'[h] : d.conn /\ d.at = "close"
      /\ \A h \in Hubs \ hubs :
           /\ writer'[h] = writer[h] /\ prepare'[h] = prepare[h]
           /\ receiver'[h] = receiver[h] /\ pending'[h] = pending[h]
           /\ detach'[h] = detach[h]
  BY Withdrawn
<1>2. ASSUME NEW h \in hubs PROVE Member(h)' /\ Awaits(pending'[h], prepare'[h])
  BY <1>1, <1>2 DEF Member, Off
<1>3. ASSUME NEW h \in Hubs \ hubs PROVE Member(h)' /\ Awaits(pending'[h], prepare'[h])
  <2>1. Member(h) /\ Awaits(pending[h], prepare[h])
    BY DEF Linked
  <2>2. /\ admitted'[h] => writer[h] # "none"
        /\ detaching'[h] => detaching[h]
        /\ claims'[h] = claims[h]
    OBVIOUS
  <2>3. QED
    BY <1>1, <2>1, <2>2 DEF Member
<1>4. QED
  BY <1>2, <1>3 DEF Linked

LEMMA Returns ==
  ASSUME Types, NEW h \in Hubs, NEW d \in Calls, NEW rest \in SUBSET Calls,
         NEW commands \in Seq(Commands), Return(h, d, rest, commands)
  PROVE  /\ detaching' \in [Hubs -> BOOLEAN] /\ detach' \in [Hubs -> SUBSET Calls]
         /\ pending' \in [Hubs -> Seq(Commands)]
         /\ rest \subseteq detach'[h] /\ ~detaching'[h]
         /\ \A place : Awaits(commands, place) => Awaits(pending'[h], place)
         /\ \A g \in Hubs \ {h} : /\ detaching'[g] = detaching[g]
                                  /\ detach'[g] = detach[g] /\ pending'[g] = pending[g]
<1> USE DEF Types, MemberTypes, LinkTypes
<1> DEFINE more == Given(commands, "stop", "isolate")
<1>1. /\ more \in Seq(Commands)
      /\ \A place : Awaits(commands, place) => Awaits(more, place)
  BY GivenCommands DEF Callers
<1> HIDE DEF more
<1>2. [d EXCEPT !.at = "late"] \in Calls
  BY DEF Calls
<1>3. detaching' = [detaching EXCEPT ![h] = FALSE]
  BY DEF Return
<1>4. CASE d.by = "isolate" /\ d.at # "late" /\ h \in online
  <2>1. /\ detach' = [detach EXCEPT ![h] = rest \cup {[d EXCEPT !.at = "late"]}]
        /\ pending' = [pending EXCEPT ![h] = more]
    BY <1>4 DEF Return, more
  <2>2. QED
    BY <1>1, <1>2, <1>3, <2>1
<1>5. CASE ~(d.by = "isolate" /\ d.at # "late" /\ h \in online)
  <2>1. /\ detach' = [detach EXCEPT ![h] = rest]
        /\ pending' = [pending EXCEPT ![h] = commands]
    BY <1>5 DEF Return
  <2>2. QED
    BY <1>3, <2>1
<1>6. QED
  BY <1>4, <1>5

LEMMA Answers ==
  ASSUME Types, NEW h \in Hubs, NEW c \in Commands, NEW commands \in Seq(Commands),
         NEW ok \in BOOLEAN, Answer(h, c, commands, ok), Awaits(commands, prepare[h]),
         c.by = "prepare" => NoneOf(commands) /\ prepare[h] \in {"start", "fail"}
  PROVE  /\ prepare' \in [Hubs -> Places] /\ detaching' \in [Hubs -> BOOLEAN]
         /\ detach' \in [Hubs -> SUBSET Calls] /\ pending' \in [Hubs -> Seq(Commands)]
         /\ prepare[h] = "no" => prepare'[h] = "no"
         /\ detaching'[h] => detaching[h]
         /\ \A d \in detach[h] : d.at = "close" => d \in detach'[h]
         /\ Awaits(pending'[h], prepare'[h])
         /\ \A g \in Hubs \ {h} :
              /\ prepare'[g] = prepare[g] /\ detaching'[g] = detaching[g]
              /\ detach'[g] = detach[g] /\ pending'[g] = pending[g]
<1> USE DEF Types, MemberTypes, LinkTypes
<1>1. CASE c.by = "prepare"
  <2>1. /\ prepare' = [prepare EXCEPT
              ![h] = IF @ = "fail" THEN "no" ELSE IF ok THEN "connect" ELSE "fail"]
        /\ pending' = [pending EXCEPT
              ![h] = IF prepare'[h] = "fail"
                       THEN Given(commands, "stop", "prepare") ELSE commands]
        /\ UNCHANGED <<detach, detaching>>
    BY <1>1 DEF Answer
  <2>2. prepare' \in [Hubs -> Places]
    BY <2>1 DEF Places
  <2>3. Given(commands, "stop", "prepare") \in Seq(Commands)
    BY GivenCommands
  <2>4. pending' \in [Hubs -> Seq(Commands)]
    BY <2>1, <2>3
  <2>5. Awaits(pending'[h], prepare'[h])
    <3>1. CASE prepare'[h] = "fail"
      <4>1. pending'[h] = Given(commands, "stop", "prepare")
        BY <2>1, <3>1
      <4>2. QED
        BY <1>1, <3>1, <4>1, GivenCommands
    <3>2. CASE prepare'[h] # "fail"
      BY <1>1, <2>1, <3>2, NothingAwaited
    <3>3. QED
      BY <3>1, <3>2
  <2>6. QED
    BY <1>1, <2>1, <2>2, <2>4, <2>5
<1>2. CASE c.by # "prepare" /\ Waiting(h, c) = {}
  <2>1. pending' = [pending EXCEPT ![h] = commands] /\ UNCHANGED <<prepare, detach, detaching>>
    BY <1>2 DEF Answer
  <2>2. QED
    BY <2>1
<1>3. CASE c.by # "prepare" /\ Waiting(h, c) # {}
  <2>1. PICK d \in Waiting(h, c) : Return(h, d, detach[h] \ {d}, commands)
    BY <1>3 DEF Answer
  <2>2. d \in detach[h] /\ d \in Calls /\ d.at # "close" /\ detach[h] \ {d} \in SUBSET Calls
    BY DEF Waiting
  <2>3. UNCHANGED prepare
    BY <1>3 DEF Answer
  <2>4. /\ detaching' \in [Hubs -> BOOLEAN] /\ detach' \in [Hubs -> SUBSET Calls]
        /\ pending' \in [Hubs -> Seq(Commands)]
        /\ detach[h] \ {d} \subseteq detach'[h] /\ ~detaching'[h]
        /\ Awaits(pending'[h], prepare[h])
        /\ \A g \in Hubs \ {h} : /\ detaching'[g] = detaching[g]
                                 /\ detach'[g] = detach[g] /\ pending'[g] = pending[g]
    BY <2>1, <2>2, Returns
  <2>5. \A e \in detach[h] : e.at = "close" => e \in detach'[h]
    BY <2>2, <2>4
  <2>6. QED
    BY <2>3, <2>4, <2>5
<1>4. QED
  BY <1>1, <1>2, <1>3

-----------------------------------------------------------------------------
(* The steps.                                                              *)

\* A step that starts nothing and leaves the stream, the barrier and the prefill as
\* they are: who is ready was ready, and what is off stays off.
LEMMA NothingNew ==
  ASSUME Course, UNCHANGED <<desired, stopping, bc, away, aligned>>, cohort' \subseteq cohort,
         cohort \subseteq Hubs,
         \A h \in Hubs : admitted'[h] => admitted[h],
         (desired /\ ~Realigning) \/ \A h \in Hubs : Off(h) => Off(h)'
  PROVE  Course'
<1>1. Ended' /\ Emptied'
  <2>1. CASE desired /\ ~Realigning
    BY <2>1 DEF Ended, Emptied, Realigning
  <2>2. CASE \A h \in Hubs : Off(h) => Off(h)'
    BY <2>2 DEF Course, Ended, Emptied
  <2>3. QED
    BY <2>1, <2>2
<1>2. Unready' /\ Left' /\ Together'
  BY DEF Course, Unready, Left, Together, Realigning
<1>3. QED
  BY <1>1, <1>2 DEF Course

\* Whether a hub is in order is a matter of its member, its claims and its calls.
LEMMA SameMember ==
  ASSUME NEW h, Member(h), Awaits(pending[h], prepare[h]),
         UNCHANGED <<receiver[h], writer[h], detach[h], admitted[h], detaching[h], prepare[h],
                     claims[h], pending[h]>>
  PROVE  Member(h)' /\ Awaits(pending[h], prepare[h])'
BY DEF Member

\* A fault or a request is one less to come.
LEMMA Faults ==
  ASSUME troubles \in Nat, Trouble \/ Calm
  PROVE  troubles' \in Nat
BY DEF Trouble, Calm

\* A quarantine or a claim of one hub, and what it leaves of the others.
LEMMA DetachStep ==
  ASSUME Types, Linked, Course, NEW hubs \in SUBSET Hubs, NEW by \in Callers,
         NEW told \in SUBSET Hubs, Detach(hubs, by, told),
         UNCHANGED <<stream, bc, cohort, away, gate>>, online' = online, Trouble \/ Calm,
         detaching' \in [Hubs -> BOOLEAN], claims' \in [Hubs -> SUBSET Kinds],
         \A h \in Hubs \ hubs : (detaching'[h] => detaching[h]) /\ claims'[h] = claims[h]
  PROVE  ReceiverInv'
<1>1. Withdraw(hubs, by, told) /\ admitted' = [h \in Hubs |-> admitted[h] /\ h \notin hubs]
  BY DEF Detach
<1>2. /\ LinkTypes' /\ writer' \in [Hubs -> Writers] /\ prepare' \in [Hubs -> Places]
      /\ \A h \in hubs : Off(h)'
      /\ \A h \in Hubs \ hubs : writer'[h] = writer[h] /\ prepare'[h] = prepare[h]
  BY <1>1, Withdrawn
<1>3. admitted' \in [Hubs -> BOOLEAN] /\ \A h \in Hubs : admitted'[h] => admitted[h] /\ h \notin hubs
  BY <1>1 DEF Types, MemberTypes
<1>4. Types'
  <2>1. burst' \subseteq Hubs /\ aligned' = aligned
    BY DEF Detach, Types, StreamTypes
  <2>2. StreamTypes'
    BY <2>1, Faults DEF Types, StreamTypes, stream
  <2>3. QED
    BY <1>2, <1>3, <2>2 DEF Types, MemberTypes
<1>5. Linked'
  <2>1. \A h \in Hubs : admitted[h] => writer[h] # "none"
    BY DEF Linked, Member
  <2>2. QED
    BY <1>1, <1>3, <2>1, WithdrawnMembers
<1>6. Course'
  <2>1. \A h \in Hubs : Off(h) => Off(h)'
    BY <1>2 DEF Off
  <2>2. QED
    BY <1>3, <2>1, NothingNew DEF Detach, stream, Types, StreamTypes
<1>7. QED
  BY <1>4, <1>5, <1>6 DEF ReceiverInv

LEMMA IsolateStep ==
  ASSUME ReceiverInv, NEW hubs \in SUBSET Hubs, IsolateMembers(hubs), UNCHANGED isolateOnly,
         Trouble \/ Calm
  PROVE  ReceiverInv'
<1> DEFINE lost == {h \in hubs : ~detaching[h]}
<1>1. Detach(lost, "isolate", {}) /\ detaching' = [h \in Hubs |-> detaching[h] \/ h \in hubs]
  BY DEF IsolateMembers
<1>2. /\ detaching' \in [Hubs -> BOOLEAN] /\ claims' \in [Hubs -> SUBSET Kinds]
      /\ \A h \in Hubs \ lost : (detaching'[h] => detaching[h]) /\ claims'[h] = claims[h]
  BY <1>1 DEF ReceiverInv, Types, MemberTypes, isolateOnly, hub
<1>3. lost \in SUBSET Hubs /\ "isolate" \in Callers /\ {} \in SUBSET Hubs
  BY DEF Callers
<1> HIDE DEF lost
<1>4. QED
  BY <1>1, <1>2, <1>3, DetachStep DEF ReceiverInv, isolateOnly, hub

LEMMA ClaimStep ==
  ASSUME ReceiverInv, NEW h \in Hubs, NEW kind \in Kinds, Claim(h, kind)
  PROVE  ReceiverInv'
<1>1. Detach({h}, kind, {g \in {h} : StopsReceiver(g, kind)})
  BY DEF Claim
<1>2. /\ detaching' = detaching /\ claims' = [claims EXCEPT ![h] = @ \cup {kind}]
      /\ UNCHANGED <<stream, bc, cohort, away, gate, online>> /\ Trouble
  BY DEF Claim
<1>3. /\ detaching' \in [Hubs -> BOOLEAN] /\ claims' \in [Hubs -> SUBSET Kinds]
      /\ \A g \in Hubs \ {h} : (detaching'[g] => detaching[g]) /\ claims'[g] = claims[g]
  BY <1>2 DEF ReceiverInv, Types, MemberTypes
<1>4. /\ {h} \in SUBSET Hubs /\ kind \in Callers
      /\ {g \in {h} : StopsReceiver(g, kind)} \in SUBSET Hubs
  BY DEF Callers
<1>5. QED
  BY <1>1, <1>2, <1>3, <1>4, DetachStep DEF ReceiverInv

LEMMA UnclaimStep ==
  ASSUME ReceiverInv, NEW h \in Hubs, NEW kind \in Kinds, Unclaim(h, kind)
  PROVE  ReceiverInv'
<1> USE DEF Unclaim, stream, barrier, member, link, Calm
<1>1. Types'
  BY DEF ReceiverInv, Types, StreamTypes, MemberTypes, LinkTypes
<1>2. Linked'
  <2>1. \A g \in Hubs : claims'[g] \subseteq claims[g]
    BY DEF ReceiverInv, Types, MemberTypes
  <2>2. QED
    BY <2>1 DEF ReceiverInv, Linked, Member
<1>3. Course'
  BY NothingNew DEF ReceiverInv, Off, Types, StreamTypes
<1>4. QED
  BY <1>1, <1>2, <1>3 DEF ReceiverInv

\* A step at one hub leaves the other members as they were.
LEMMA OneHub ==
  ASSUME Linked, NEW h \in Hubs, Member(h)', Awaits(pending'[h], prepare'[h]),
         \A g \in Hubs \ {h} :
           UNCHANGED <<receiver[g], writer[g], detach[g], admitted[g], detaching[g], prepare[g],
                       claims[g], pending[g]>>
  PROVE  Linked'
<1>1. ASSUME NEW g \in Hubs \ {h} PROVE Member(g)' /\ Awaits(pending'[g], prepare'[g])
  <2>1. Member(g) /\ Awaits(pending[g], prepare[g])
    BY DEF Linked
  <2>2. UNCHANGED <<receiver[g], writer[g], detach[g], admitted[g], detaching[g], prepare[g],
                    claims[g], pending[g]>>
    OBVIOUS
  <2>3. QED
    BY <2>1, <2>2, SameMember
<1>2. QED
  BY <1>1 DEF Linked

LEMMA ClosedStep ==
  ASSUME ReceiverInv, NEW h \in Hubs, NEW d \in detach[h], Closed(h, d)
  PROVE  ReceiverInv'
<1> DEFINE rest == detach[h] \ {d}
           closed == [d EXCEPT !.conn = FALSE]
           called == [closed EXCEPT !.at = "command"]
<1> USE DEF ReceiverInv, Types, MemberTypes, LinkTypes
<1>1. /\ d \in Calls /\ d.at = "close" /\ rest \in SUBSET Calls
      /\ closed \in Calls /\ called \in Calls /\ pending[h] \in Seq(Commands)
      /\ d.by \in Callers
  <2>1. d \in Calls /\ d.at = "close" /\ rest \in SUBSET Calls /\ pending[h] \in Seq(Commands)
    BY DEF Closed
  <2>2. d.by \in Callers /\ closed \in Calls
    BY <2>1 DEF Calls
  <2>3. called \in Calls
    BY <2>2 DEF Calls
  <2>4. QED
    BY <2>1, <2>2, <2>3
<1>2. /\ receiver' = [receiver EXCEPT ![h] = HungUp(h, d.conn)]
      /\ UNCHANGED <<stream, barrier, hub, writer, admitted, aligned, prepare, troubles>>
  BY DEF Closed
<1>3. /\ detaching' \in [Hubs -> BOOLEAN] /\ detach' \in [Hubs -> SUBSET Calls]
      /\ pending' \in [Hubs -> Seq(Commands)]
      /\ rest \subseteq detach'[h] /\ (detaching'[h] => detaching[h])
      /\ Awaits(pending'[h], prepare[h])
      /\ \A g \in Hubs \ {h} : /\ detaching'[g] = detaching[g]
                               /\ detach'[g] = detach[g] /\ pending'[g] = pending[g]
  <2>1. Awaits(pending[h], prepare[h])
    BY DEF Linked
  <2>2. CASE Detached(h, d)
    <3>1. /\ detach' = [detach EXCEPT ![h] = rest \cup {called}]
          /\ pending' = [pending EXCEPT ![h] = Given(@, "stop", d.by)]
          /\ UNCHANGED detaching
      BY <2>2 DEF Closed
    <3>2. /\ Given(pending[h], "stop", d.by) \in Seq(Commands)
          /\ Awaits(Given(pending[h], "stop", d.by), prepare[h])
      <4>1. d.by # "prepare" /\ d.by \in Callers \cup {"prepare", "quiet", "nobody"}
        BY <1>1 DEF Callers, Kinds
      <4>2. QED
        BY <1>1, <2>1, <4>1, GivenCommands
    <3> HIDE DEF rest, called
    <3>3. QED
      BY <1>1, <3>1, <3>2
  <2>3. CASE ~Detached(h, d)
    <3>1. Return(h, closed, rest, pending[h])
      BY <2>3 DEF Closed
    <3> HIDE DEF rest, closed
    <3>2. QED
      BY <1>1, <2>1, <3>1, Returns
  <2>4. QED
    BY <2>2, <2>3
<1>4. Types'
  <2>1. receiver' \in [Hubs -> Ends]
    BY <1>2 DEF HungUp, Ends
  <2>2. StreamTypes'
    BY <1>2 DEF StreamTypes, stream, barrier, hub
  <2>3. QED
    BY <1>2, <1>3, <2>1, <2>2 DEF hub
<1>5. Linked'
  <2>1. Member(h)
    BY DEF Linked
  <2>2. Member(h)'
    <3>1. /\ receiver'[h] = HungUp(h, d.conn)
          /\ UNCHANGED <<writer, admitted, prepare, claims>>
      BY <1>2 DEF hub
    <3>2. receiver'[h] = "closing" => \E e \in detach'[h] : e.conn /\ e.at = "close"
      <4>1. ASSUME receiver'[h] = "closing" PROVE receiver[h] = "closing" /\ ~d.conn
        BY <3>1, <4>1 DEF HungUp
      <4>2. QED
        BY <1>3, <2>1, <4>1 DEF Member
    <3>3. receiver'[h] = "serving" <=> receiver[h] = "serving"
      BY <3>1 DEF HungUp
    <3>4. QED
      BY <1>3, <2>1, <3>1, <3>2, <3>3 DEF Member
  <2>3. \A g \in Hubs \ {h} :
           UNCHANGED <<receiver[g], writer[g], detach[g], admitted[g], detaching[g], prepare[g],
                       claims[g], pending[g]>>
    BY <1>2, <1>3 DEF hub
  <2>4. QED
    BY <1>2, <1>3, <2>2, <2>3, OneHub
<1>6. Course'
  BY <1>2, NothingNew DEF stream, barrier, Off, StreamTypes
<1>7. QED
  BY <1>4, <1>5, <1>6

\* A command that has run, or that nobody waits for any more: its caller goes on.
LEMMA AnswerStep ==
  ASSUME ReceiverInv, NEW h \in Hubs, NEW c \in Commands, NEW commands \in Seq(Commands),
         NEW ok \in BOOLEAN, Answer(h, c, commands, ok), Awaits(commands, prepare[h]),
         c.by = "prepare" => NoneOf(commands) /\ prepare[h] \in {"start", "fail"},
         UNCHANGED <<stream, barrier, hub, admitted, aligned>>, troubles' \in Nat,
         receiver' \in [Hubs -> Ends], writer' \in [Hubs -> Writers],
         \A g \in Hubs \ {h} : UNCHANGED <<receiver[g], writer[g]>>,
         writer'[h] = "none" <=> writer[h] = "none",
         \/ UNCHANGED <<receiver[h], writer[h]>>
         \/ receiver'[h] \in {"none", "listening"} /\ writer'[h] # "ok"
  PROVE  ReceiverInv'
<1> USE DEF ReceiverInv, Types, MemberTypes, LinkTypes
<1>1. /\ prepare' \in [Hubs -> Places] /\ detaching' \in [Hubs -> BOOLEAN]
      /\ detach' \in [Hubs -> SUBSET Calls] /\ pending' \in [Hubs -> Seq(Commands)]
      /\ prepare[h] = "no" => prepare'[h] = "no"
      /\ detaching'[h] => detaching[h]
      /\ \A d \in detach[h] : d.at = "close" => d \in detach'[h]
      /\ Awaits(pending'[h], prepare'[h])
      /\ \A g \in Hubs \ {h} :
           /\ prepare'[g] = prepare[g] /\ detaching'[g] = detaching[g]
           /\ detach'[g] = detach[g] /\ pending'[g] = pending[g]
  BY Answers
<1>2. Types'
  BY <1>1 DEF StreamTypes, stream, barrier, hub
<1>3. Linked'
  <2>1. Member(h)
    BY DEF Linked
  <2>2. Member(h)'
    <3>1. UNCHANGED <<admitted, claims>>
      BY DEF hub
    <3>2. QED
      BY <1>1, <2>1, <3>1 DEF Member
  <2>3. \A g \in Hubs \ {h} :
           UNCHANGED <<receiver[g], writer[g], detach[g], admitted[g], detaching[g], prepare[g],
                       claims[g], pending[g]>>
    BY <1>1 DEF hub
  <2>4. QED
    BY <1>1, <2>2, <2>3, OneHub
<1>4. Course'
  <2>1. \A g \in Hubs : Off(g) => Off(g)'
    BY <1>1 DEF Off
  <2>2. QED
    BY <2>1, NothingNew DEF stream, barrier, StreamTypes
<1>5. QED
  BY <1>2, <1>3, <1>4

LEMMA RunStep ==
  ASSUME ReceiverInv, NEW h \in Hubs, Run(h)
  PROVE  ReceiverInv'
<1> DEFINE c == Head(pending[h])
           commands == Tail(pending[h])
<1> USE DEF ReceiverInv, Types, MemberTypes, LinkTypes
<1>1. pending[h] \in Seq(Commands) /\ pending[h] # <<>> /\ Awaits(pending[h], prepare[h])
  BY DEF Run, Linked
<1>2. /\ c \in Commands /\ commands \in Seq(Commands) /\ Awaits(commands, prepare[h])
      /\ c.by = "prepare" => NoneOf(commands) /\ prepare[h] \in {"start", "fail"}
  BY <1>1, FirstCommand
<1>3. /\ Answer(h, c, commands, h \in online)
      /\ UNCHANGED <<stream, barrier, hub, admitted, aligned, troubles>>
  BY DEF Run
<1>4. /\ receiver' \in [Hubs -> Ends] /\ writer' \in [Hubs -> Writers]
      /\ \A g \in Hubs \ {h} : UNCHANGED <<receiver[g], writer[g]>>
      /\ writer'[h] = "none" <=> writer[h] = "none"
      /\ \/ UNCHANGED <<receiver[h], writer[h]>>
         \/ receiver'[h] \in {"none", "listening"} /\ writer'[h] # "ok"
  BY DEF Run, Broken, Writers, Ends
<1> HIDE DEF c, commands
<1>5. troubles' \in Nat
  BY <1>3 DEF StreamTypes
<1>6. CASE h \in online
  <2>1. Answer(h, c, commands, TRUE)
    BY <1>3, <1>6 DEF Answer
  <2>2. QED
    BY <1>2, <1>3, <1>4, <1>5, <2>1, AnswerStep
<1>7. CASE h \notin online
  <2>1. Answer(h, c, commands, FALSE)
    BY <1>3, <1>7 DEF Answer
  <2>2. QED
    BY <1>2, <1>3, <1>4, <1>5, <2>1, AnswerStep
<1>8. QED
  BY <1>6, <1>7

LEMMA TimesOutStep ==
  ASSUME ReceiverInv, NEW h \in Hubs, NEW i \in DOMAIN pending[h], TimesOut(h, pending[h][i])
  PROVE  ReceiverInv'
<1> DEFINE c == pending[h][i]
           commands == Orphaned(pending[h], c.by)
<1> USE DEF ReceiverInv, Types, MemberTypes, LinkTypes
<1>1. /\ pending[h] \in Seq(Commands) /\ Awaits(pending[h], prepare[h])
      /\ i \in 1..Len(pending[h]) /\ c \in Commands
  BY DEF Linked
<1>2. /\ commands \in Seq(Commands) /\ Awaits(commands, prepare[h])
      /\ c.by = "prepare" => NoneOf(commands)
  BY <1>1, OrphanedCommands
<1>3. c.by = "prepare" => prepare[h] \in {"start", "fail"}
  BY <1>1 DEF Awaits, NoneOf
<1>4. /\ Answer(h, c, commands, FALSE) /\ Trouble
      /\ UNCHANGED <<stream, barrier, hub, writer, admitted, aligned, receiver>>
  BY DEF TimesOut
<1> HIDE DEF c, commands
<1>5. troubles' \in Nat
  BY <1>4, Faults DEF StreamTypes
<1>6. QED
  BY <1>1, <1>2, <1>3, <1>4, <1>5, AnswerStep

LEMMA PrepareStep ==
  ASSUME ReceiverInv, NEW h \in Hubs, Prepare(h)
  PROVE  ReceiverInv'
<1> USE DEF ReceiverInv, Prepare, Place, barrier, prepareOnly, stream, hub, Calm
<1>1. Types'
  BY DEF Types, StreamTypes, MemberTypes, LinkTypes, Places
<1>2. Linked'
  <2>1. Member(h) /\ NoneOf(pending[h]) /\ prepare[h] = "no"
    BY DEF Linked, Awaits
  <2>2. Member(h)' /\ Awaits(pending'[h], prepare'[h])
    <3>1. Member(h)'
      BY <2>1 DEF Member, Types, MemberTypes, Eligible
    <3>2. Awaits(pending'[h], prepare'[h])
      BY <2>1, NothingAwaited
    <3>3. QED
      BY <3>1, <3>2
  <2>3. \A g \in Hubs \ {h} :
           UNCHANGED <<receiver[g], writer[g], detach[g], admitted[g], detaching[g], prepare[g],
                       claims[g], pending[g]>>
    BY DEF Types, MemberTypes
  <2>4. QED
    BY <2>2, <2>3, OneHub
<1>3. Course'
  BY NothingNew DEF Types, StreamTypes
<1>4. QED
  BY <1>1, <1>2, <1>3

\* A preparation goes on: it waits for a command only when it has given one.
LEMMA PlaceStep ==
  ASSUME ReceiverInv, NEW h \in Hubs, NEW place \in Places, Place(h, place),
         prepare[h] # "no", pending' \in [Hubs -> Seq(Commands)], Awaits(pending'[h], place),
         \A g \in Hubs \ {h} : pending'[g] = pending[g],
         UNCHANGED <<barrier, receiver, prepareOnly>>, Trouble \/ Calm
  PROVE  ReceiverInv'
<1> USE DEF ReceiverInv, Place, barrier, prepareOnly, stream, hub
<1>1. Types'
  BY Faults DEF Types, StreamTypes, MemberTypes, LinkTypes
<1>2. prepare'[h] = place
  BY DEF Types, MemberTypes
<1>3. Linked'
  <2>1. Member(h)
    BY DEF Linked
  <2>2. Member(h)' /\ Awaits(pending'[h], prepare'[h])
    BY <1>2, <2>1 DEF Member
  <2>3. \A g \in Hubs \ {h} :
           UNCHANGED <<receiver[g], writer[g], detach[g], admitted[g], detaching[g], prepare[g],
                       claims[g], pending[g]>>
    BY DEF Types, MemberTypes
  <2>4. QED
    BY <2>2, <2>3, OneHub
<1>4. Course'
  <2>1. \A g \in Hubs : Off(g) => Off(g)'
    BY DEF Off, Types, MemberTypes
  <2>2. QED
    BY <2>1, NothingNew DEF Types, StreamTypes
<1>5. QED
  BY <1>1, <1>3, <1>4

LEMMA SuspendedStep ==
  ASSUME ReceiverInv, NEW h \in Hubs, Suspended(h)
  PROVE  ReceiverInv'
<1> USE DEF ReceiverInv, Types, LinkTypes
<1>1. /\ prepare[h] = "suspend" /\ pending[h] \in Seq(Commands) /\ NoneOf(pending[h])
      /\ UNCHANGED <<barrier, receiver, prepareOnly>> /\ (Trouble \/ Calm)
  BY DEF Suspended, Linked, Awaits
<1>2. CASE StillWanted(h) /\ writer[h] = "none"
  <2>1. /\ Place(h, "start") /\ pending' = [pending EXCEPT ![h] = Given(@, "start", "prepare")]
    BY <1>2 DEF Suspended
  <2>2. /\ Given(pending[h], "start", "prepare") \in Seq(Commands)
        /\ Awaits(Given(pending[h], "start", "prepare"), "start")
    BY <1>1, GivenCommands
  <2>3. /\ pending' \in [Hubs -> Seq(Commands)] /\ Awaits(pending'[h], "start")
        /\ \A g \in Hubs \ {h} : pending'[g] = pending[g]
    BY <2>1, <2>2
  <2>4. QED
    BY <1>1, <2>1, <2>3, PlaceStep DEF Places
<1>3. CASE ~(StillWanted(h) /\ writer[h] = "none")
  <2>1. Place(h, "no") /\ UNCHANGED pending
    BY <1>3 DEF Suspended
  <2>2. Awaits(pending'[h], "no")
    BY <1>1, <2>1, NothingAwaited
  <2>3. QED
    BY <1>1, <2>1, <2>2, PlaceStep DEF Places
<1>4. QED
  BY <1>2, <1>3

LEMMA ConnectFailsStep ==
  ASSUME ReceiverInv, NEW h \in Hubs, ConnectFails(h)
  PROVE  ReceiverInv'
<1> USE DEF ReceiverInv, Types, LinkTypes
<1>1. /\ prepare[h] = "connect" /\ pending[h] \in Seq(Commands) /\ NoneOf(pending[h])
      /\ Place(h, "fail") /\ UNCHANGED <<barrier, receiver, prepareOnly>> /\ Calm
      /\ pending' = [pending EXCEPT ![h] = Given(@, "stop", "prepare")]
  BY DEF ConnectFails, Linked, Awaits
<1>2. /\ Given(pending[h], "stop", "prepare") \in Seq(Commands)
      /\ Awaits(Given(pending[h], "stop", "prepare"), "fail")
  BY <1>1, GivenCommands
<1>3. /\ pending' \in [Hubs -> Seq(Commands)] /\ Awaits(pending'[h], "fail")
      /\ \A g \in Hubs \ {h} : pending'[g] = pending[g]
  BY <1>1, <1>2
<1>4. QED
  BY <1>1, <1>3, PlaceStep DEF Places

LEMMA ConnectedStep ==
  ASSUME ReceiverInv, NEW h \in Hubs, Connected(h)
  PROVE  ReceiverInv'
<1> USE DEF ReceiverInv, stream, hub
<1>1. /\ prepare[h] = "connect" /\ receiver[h] = "listening"
      /\ prepare' = [prepare EXCEPT ![h] = "no"]
      /\ UNCHANGED <<stream, bc, cohort, away, burst, hub, admitted, aligned, detach, pending,
                     troubles>>
  BY DEF Connected, Place
<1>2. Types'
  <2>1. gate' \in {"no", "returning", "drift"}
    BY DEF Connected, Requested, Types, StreamTypes
  <2>2. /\ receiver' \in [Hubs -> Ends] /\ writer' \in [Hubs -> Writers]
        /\ detaching' \in [Hubs -> BOOLEAN]
    BY DEF Connected, Types, MemberTypes, LinkTypes, Ends, Writers
  <2>3. QED
    BY <1>1, <2>1, <2>2 DEF Types, StreamTypes, MemberTypes, LinkTypes, Places
<1>3. Linked'
  <2>1. Member(h) /\ NoneOf(pending[h]) /\ writer[h] = "none" /\ ~admitted[h] /\ claims[h] = {}
    BY <1>1 DEF Linked, Member, Awaits
  <2>2. Awaits(pending'[h], prepare'[h])
    BY <1>1, <2>1, NothingAwaited
  <2>3. Member(h)'
    <3>1. prepare'[h] = "no"
      BY <1>1 DEF Types, MemberTypes
    <3>2. CASE StillWanted(h)
      <4>1. writer'[h] = "ok" /\ receiver'[h] = "serving" /\ detaching'[h] = FALSE
        BY <3>2 DEF Connected, Types, MemberTypes, LinkTypes
      <4>2. QED
        BY <1>1, <2>1, <3>1, <4>1 DEF Member
    <3>3. CASE ~StillWanted(h)
      <4>1. receiver'[h] = "none" /\ UNCHANGED <<writer, detaching>>
        BY <3>3 DEF Connected, Types, LinkTypes
      <4>2. QED
        BY <1>1, <2>1, <3>1, <4>1 DEF Member
    <3>4. QED
      BY <3>2, <3>3
  <2>4. \A g \in Hubs \ {h} :
           UNCHANGED <<receiver[g], writer[g], detach[g], admitted[g], detaching[g], prepare[g],
                       claims[g], pending[g]>>
    BY <1>1 DEF Connected, Types, MemberTypes, LinkTypes
  <2>5. QED
    BY <2>2, <2>3, <2>4, OneHub
<1>4. Course'
  <2>1. \A g \in Hubs : Off(g) => Off(g)'
    BY <1>1 DEF Connected, Off, Types, MemberTypes
  <2>2. QED
    BY <1>1, <2>1, NothingNew DEF Types, StreamTypes
<1>5. QED
  BY <1>2, <1>3, <1>4

\* A receiver that ends breaks the connection, if there is one.
LEMMA BreaksStep ==
  ASSUME ReceiverInv, NEW h \in Hubs, Trouble \/ Calm, online' \subseteq Hubs,
         UNCHANGED <<stream, barrier, claims, admitted, prepare, detaching, aligned, detach, pending>>,
         \/ UNCHANGED <<receiver, writer>>
         \/ /\ receiver' = [receiver EXCEPT ![h] = "none"]
            /\ writer' = [writer EXCEPT ![h] = Broken(@)]
  PROVE  ReceiverInv'
<1> USE DEF ReceiverInv, stream, barrier
<1>1. Types'
  BY Faults DEF Types, StreamTypes, MemberTypes, LinkTypes, Broken, Ends, Writers
<1>2. Linked'
  <2>1. Member(h) /\ Awaits(pending[h], prepare[h])
    BY DEF Linked
  <2>2. \/ UNCHANGED <<receiver[h], writer[h]>>
        \/ receiver'[h] = "none" /\ writer'[h] = Broken(writer[h])
    BY DEF Types, MemberTypes, LinkTypes
  <2>3. Member(h)' /\ Awaits(pending'[h], prepare'[h])
    BY <2>1, <2>2 DEF Member, Broken
  <2>4. \A g \in Hubs \ {h} :
           UNCHANGED <<receiver[g], writer[g], detach[g], admitted[g], detaching[g], prepare[g],
                       claims[g], pending[g]>>
    BY DEF Types, MemberTypes, LinkTypes
  <2>5. QED
    BY <2>3, <2>4, OneHub
<1>3. Course'
  <2>1. \A g \in Hubs : Off(g) => Off(g)'
    BY DEF Off, Types, MemberTypes, Broken
  <2>2. QED
    BY <2>1, NothingNew DEF Types, StreamTypes
<1>4. QED
  BY <1>1, <1>2, <1>3

LEMMA HubStep ==
  ASSUME ReceiverInv, NEW h \in Hubs, Hub(h)
  PROVE  ReceiverInv'
<1>1. CASE Prepare(h) \/ Suspended(h) \/ Connected(h) \/ ConnectFails(h)
  BY <1>1, PrepareStep, SuspendedStep, ConnectedStep, ConnectFailsStep
<1>2. CASE Slow(h) \/ WriterFails(h) \/ NoLongerEligible(h)
  <2>1. IsolateMembers({h}) /\ UNCHANGED isolateOnly /\ (Trouble \/ Calm)
    BY <1>2 DEF Slow, WriterFails, NoLongerEligible
  <2>2. QED
    BY <2>1, IsolateStep
<1>3. CASE ReceiverDies(h) \/ Leaves(h) \/ Comes(h)
  <2>1. /\ online' \subseteq Hubs /\ (Trouble \/ Calm)
        /\ UNCHANGED <<stream, barrier, claims, admitted, prepare, detaching, aligned, detach,
                       pending>>
    BY <1>3 DEF ReceiverDies, Leaves, Comes, hub, member, link, ReceiverInv, Types, StreamTypes
  <2>2. \/ UNCHANGED <<receiver, writer>>
        \/ /\ receiver' = [receiver EXCEPT ![h] = "none"]
           /\ writer' = [writer EXCEPT ![h] = Broken(@)]
    BY <1>3 DEF ReceiverDies, Leaves, Comes, member, link
  <2>3. QED
    BY <2>1, <2>2, BreaksStep
<1>4. CASE \E kind \in Kinds : Claim(h, kind) \/ Unclaim(h, kind)
  BY <1>4, ClaimStep, UnclaimStep
<1>5. CASE \E d \in detach[h] : Closed(h, d)
  BY <1>5, ClosedStep
<1>6. CASE Run(h) \/ \E i \in DOMAIN pending[h] : TimesOut(h, pending[h][i])
  BY <1>6, RunStep, TimesOutStep
<1>7. QED
  BY <1>1, <1>2, <1>3, <1>4, <1>5, <1>6 DEF Hub

\* What the user asks for, and the steps between two barriers that only move bc.
LEMMA RequestStep ==
  ASSUME ReceiverInv, UserPlay \/ UserStop \/ PlayFails \/ Prime \/ Checkpoint \/ Drift
  PROVE  ReceiverInv'
<1> USE DEF ReceiverInv, streamOnly, hub, member, link, barrier, stream
<1>1. CASE UserPlay \/ UserStop \/ PlayFails
  <2>1. Types'
    BY <1>1, Faults DEF UserPlay, UserStop, PlayFails, Types, StreamTypes, MemberTypes, LinkTypes
  <2>2. Linked'
    BY <1>1 DEF UserPlay, UserStop, PlayFails, Linked, Member
  <2>3. Course'
    BY <1>1 DEF UserPlay, UserStop, PlayFails, Course, Ended, Emptied, Unready, Left, Together,
                Realigning, Off
  <2>4. QED
    BY <2>1, <2>2, <2>3
<1>2. CASE Prime
  <2>1. Types'
    BY <1>2 DEF Prime, Active, Calm, Types, StreamTypes, MemberTypes, LinkTypes
  <2>2. Linked'
    BY <1>2 DEF Prime, Linked, Member
  <2>3. Course'
    BY <1>2 DEF Prime, Course, Ended, Emptied, Unready, Left, Together, Realigning
  <2>4. QED
    BY <2>1, <2>2, <2>3
<1>3. CASE Checkpoint \/ Drift
  <2>1. gate' \in {"no", "returning", "drift"} /\ UNCHANGED gateOnly /\ (Trouble \/ Calm)
    BY <1>3 DEF Checkpoint, Drift, Requested, Types, StreamTypes
  <2>2. Types'
    BY <2>1, Faults DEF gateOnly, Types, StreamTypes, MemberTypes, LinkTypes
  <2>3. Linked'
    BY <2>1 DEF gateOnly, Linked, Member
  <2>4. Course'
    BY <2>1, NothingNew DEF gateOnly, Off, Types, StreamTypes
  <2>5. QED
    BY <2>2, <2>3, <2>4
<1>4. QED
  BY <1>1, <1>2, <1>3

LEMMA QuietStep ==
  ASSUME ReceiverInv, Quiet
  PROVE  ReceiverInv'
<1> USE DEF ReceiverInv, Quiet, hub, member, barrier, Calm
<1> DEFINE killed(h) == Given(pending[h], "stop", "quiet")
<1>1. \A h \in Hubs : /\ pending[h] \in Seq(Commands) /\ killed(h) \in Seq(Commands)
                      /\ Awaits(pending[h], prepare[h]) /\ Awaits(killed(h), prepare[h])
  <2>1. \A h \in Hubs : pending[h] \in Seq(Commands) /\ Awaits(pending[h], prepare[h])
    BY DEF Types, LinkTypes, Linked
  <2>2. QED
    BY <2>1, GivenCommands
<1>2. \A h \in Hubs : pending'[h] = killed(h) \/ pending'[h] = pending[h]
  OBVIOUS
<1>3. pending' \in [Hubs -> Seq(Commands)]
  <2>1. pending' = [h \in Hubs |-> IF writer[h] # "none" /\ h \in online
                                     THEN killed(h) ELSE pending[h]]
    OBVIOUS
  <2> HIDE DEF killed
  <2>2. QED
    BY <1>1, <2>1
<1>4. Types'
  <2>1. troubles' \in Nat
    BY Faults DEF Types, StreamTypes
  <2>2. QED
    BY <1>3, <2>1 DEF Types, StreamTypes, MemberTypes, LinkTypes
<1>5. Linked'
  BY <1>1, <1>2 DEF Linked, Member
<1>6. Course'
  BY DEF Course, Ended, Emptied, Unready, Left, Together, Realigning, Off
<1>7. QED
  BY <1>4, <1>5, <1>6

\* Whatever ends the stream detaches every hub.
LEMMA StoppedStep ==
  ASSUME ReceiverInv, NEW told \in SUBSET Hubs, Stopped(told), troubles' \in Nat
  PROVE  ReceiverInv'
<1> USE DEF ReceiverInv, hub
<1>1. /\ Withdraw(Hubs, "stop", told) /\ admitted' = [h \in Hubs |-> admitted[h] /\ h \notin Hubs]
      /\ burst' = burst \ Hubs
      /\ bc' = "off" /\ cohort' = {} /\ gate' = "no" /\ stopping' = "no"
      /\ UNCHANGED <<desired, fresh, away, hub, detaching, aligned>>
  BY DEF Stopped, Detach
<1>2. "stop" \in Callers
  BY DEF Callers
<1>3. /\ LinkTypes' /\ writer' \in [Hubs -> Writers] /\ prepare' \in [Hubs -> Places]
      /\ \A h \in Hubs : Off(h)'
  BY <1>1, <1>2, Withdrawn
<1>4. admitted' \in [Hubs -> BOOLEAN] /\ \A h \in Hubs : ~admitted'[h]
  BY <1>1
<1>5. Types'
  BY <1>1, <1>3, <1>4 DEF Types, StreamTypes, MemberTypes
<1>6. Linked'
  BY <1>1, <1>2, <1>4, WithdrawnMembers
<1>7. Course'
  BY <1>1, <1>3, <1>4 DEF Course, Ended, Emptied, Unready, Left, Together, Realigning
<1>8. QED
  BY <1>5, <1>6, <1>7

LEMMA StartStreamStep ==
  ASSUME ReceiverInv, StartStream
  PROVE  ReceiverInv'
<1> USE DEF ReceiverInv, StartStream, hub, link, Calm
<1>1. /\ admitted' \in [Hubs -> BOOLEAN] /\ \A h \in Hubs : admitted'[h] => admitted[h]
  BY DEF Types, MemberTypes
<1>2. Types'
  BY <1>1 DEF Types, StreamTypes, MemberTypes, LinkTypes
<1>3. Linked'
  BY <1>1 DEF Linked, Member
<1>4. Course'
  BY <1>1 DEF Course, Ended, Emptied, Unready, Left, Together, Realigning
<1>5. QED
  BY <1>2, <1>3, <1>4

\* The prefill.  Nobody was ready before the first, and before that of a barrier only
\* hubs that had left.
LEMMA PrimedStep ==
  ASSUME ReceiverInv, Primed
  PROVE  ReceiverInv'
<1> USE DEF ReceiverInv, hub
<1>1. /\ bc \in {"prime", "reprime"} /\ burst' = {} /\ UNCHANGED troubles
      /\ UNCHANGED <<stream, cohort, away, hub>>
  BY DEF Primed, Calm
<1>2. \A h \in Hubs : admitted[h] => h \in away
  BY <1>1 DEF Course, Unready, Left, Realigning
<1>3. CASE ~(desired /\ fresh) \/ burst = {}
  <2>1. bc' \in {"dead", "play"} /\ UNCHANGED <<gate, member, aligned, link>>
    BY <1>3 DEF Primed
  <2>2. Types'
    BY <1>1, <2>1 DEF Types, StreamTypes, MemberTypes, LinkTypes, stream, member, link
  <2>3. Linked'
    BY <1>1, <2>1 DEF Linked, Member, member, link
  <2>4. Course'
    BY <1>1, <1>2, <2>1 DEF Course, Ended, Emptied, Unready, Left, Together, Realigning, stream,
                            member
  <2>5. QED
    BY <2>2, <2>3, <2>4
<1>4. CASE desired /\ burst # {} /\ fresh
  <2> DEFINE failed == {h \in burst : Eligible(h) /\ writer[h] = "broken"}
             lost(behind) == {h \in failed \cup behind : ~detaching[h]}
  <2>1. PICK behind \in SUBSET (ReadyMembers \ Admitted) :
          /\ Withdraw(lost(behind), "isolate", {})
          /\ detaching' = [h \in Hubs |-> detaching[h] \/ h \in lost(behind)]
          /\ \/ Admitted # {} /\ bc' = "play" /\ aligned' = Admitted \ ReadyMembers /\ gate' = "no"
             \/ Admitted = {} /\ bc' = "dead" /\ UNCHANGED <<aligned, gate>>
          /\ admitted' = [h \in Hubs |-> (admitted[h] \/ h \in Admitted) /\ h \notin lost(behind)]
    BY <1>4 DEF Primed
  <2> DEFINE gone == lost(behind)
  <2>2. gone \in SUBSET Hubs /\ "isolate" \in Callers /\ {} \in SUBSET Hubs
    BY DEF Types, StreamTypes, ReadyMembers, Active, Callers
  <2> HIDE DEF lost, failed
  <2>3. /\ LinkTypes' /\ writer' \in [Hubs -> Writers] /\ prepare' \in [Hubs -> Places]
    BY <2>1, <2>2, Withdrawn
  <2>4. Admitted \subseteq Hubs /\ \A h \in Admitted : writer[h] = "ok"
    BY DEF Admitted, Types, StreamTypes
  <2>5. admitted' \in [Hubs -> BOOLEAN] /\ detaching' \in [Hubs -> BOOLEAN]
    BY <2>1 DEF Types, MemberTypes
  <2>6. Types'
    BY <1>1, <2>1, <2>3, <2>4, <2>5 DEF Types, StreamTypes, MemberTypes, stream
  <2>7. Linked'
    <3>1. \A h \in Hubs : admitted[h] => writer[h] # "none"
      BY DEF Linked, Member
    <3>2. /\ \A h \in gone : ~admitted'[h]
          /\ \A h \in Hubs \ gone : /\ admitted'[h] => writer[h] # "none"
                                    /\ detaching'[h] => detaching[h]
                                    /\ claims'[h] = claims[h]
      BY <1>1, <2>1, <2>2, <2>4, <3>1
    <3>3. QED
      BY <2>1, <2>2, <3>2, WithdrawnMembers
  <2>8. Together'
    <3>1. \A h \in Hubs : admitted'[h] => admitted[h] \/ h \in Admitted
      BY <2>1
    <3>2. \A h \in ReadyMembers : h \in away
      BY <1>2 DEF ReadyMembers, Active
    <3>3. QED
      BY <1>1, <1>2, <2>1, <3>1, <3>2 DEF Together
  <2>9. Course'
    BY <1>1, <1>4, <2>1, <2>8 DEF Course, Ended, Emptied, Unready, Left, Realigning, stream
  <2>10. QED
    BY <2>6, <2>7, <2>9
<1>5. QED
  BY <1>3, <1>4 DEF Types, StreamTypes

\* A barrier begins: who goes on playing, not rebuilt, has left.
LEMMA RealignStep ==
  ASSUME ReceiverInv, RealignCohort
  PROVE  ReceiverInv'
<1> USE DEF ReceiverInv, hub
<1>1. /\ bc = "play" /\ bc' = "detach" /\ cohort' = Rebuilt /\ away' = ReadyMembers \ online
      /\ gate' = "no" /\ Withdraw(Rebuilt, "realign", Rebuilt)
      /\ admitted' = [h \in Hubs |-> admitted[h] /\ h \notin Rebuilt] /\ burst' = burst \ Rebuilt
      /\ desired
      /\ UNCHANGED <<stream, hub, detaching, aligned, troubles>>
  BY DEF RealignCohort, Detach, Calm
<1>2. Rebuilt \in SUBSET Hubs /\ "realign" \in Callers
  BY DEF Rebuilt, Active, Callers
<1>3. /\ LinkTypes' /\ writer' \in [Hubs -> Writers] /\ prepare' \in [Hubs -> Places]
      /\ \A h \in Rebuilt : Off(h)'
  BY <1>1, <1>2, Withdrawn
<1>4. admitted' \in [Hubs -> BOOLEAN] /\ \A h \in Hubs : admitted'[h] => admitted[h] /\ h \notin Rebuilt
  BY <1>1 DEF Types, MemberTypes
<1>5. Types'
  <2>1. away' \subseteq Hubs
    BY <1>1 DEF ReadyMembers, Active
  <2>2. QED
    BY <1>1, <1>2, <1>3, <1>4, <2>1 DEF Types, StreamTypes, MemberTypes, stream
<1>6. Linked'
  <2>1. \A h \in Hubs : admitted[h] => writer[h] # "none"
    BY DEF Linked, Member
  <2>2. QED
    BY <1>1, <1>2, <1>4, <2>1, WithdrawnMembers
<1>7. \A h \in Hubs : admitted'[h] => h \in away'
  <2>1. ASSUME NEW h \in Hubs, admitted'[h] PROVE h \in ReadyMembers \ online
    <3>1. admitted[h] /\ h \notin Rebuilt
      BY <1>4, <2>1
    <3>2. writer[h] # "none" /\ ~detaching[h] /\ prepare[h] = "no" /\ claims[h] = {}
      BY <3>1 DEF Linked, Member
    <3>3. QED
      BY <3>1, <3>2 DEF ReadyMembers, Active, Rebuilt, Eligible
  <2>2. QED
    BY <1>1, <2>1
<1>8. Course'
  BY <1>1, <1>3, <1>7 DEF Course, Ended, Emptied, Unready, Left, Together, Realigning, stream
<1>9. QED
  BY <1>5, <1>6, <1>8

LEMMA BarrierDetachedStep ==
  ASSUME ReceiverInv, BarrierDetached
  PROVE  ReceiverInv'
<1> USE DEF ReceiverInv, hub, stream, link
<1>1. /\ bc = "detach"
      /\ UNCHANGED <<stream, away, burst, gate, hub, writer, admitted, detaching, aligned, link,
                     troubles>>
  BY DEF BarrierDetached, Calm
<1>2. desired \/ stopping # "no"
  BY <1>1 DEF Course, Ended
<1>3. CASE desired /\ fresh
  <2>1. /\ bc' = "prepare" /\ cohort' = {h \in cohort : Eligible(h)}
        /\ prepare' = [h \in Hubs |-> IF h \in cohort' /\ prepare[h] = "no"
                                       THEN "suspend" ELSE prepare[h]]
    BY <1>3 DEF BarrierDetached
  <2>2. Types'
    <3>1. cohort' \subseteq Hubs
      BY <2>1 DEF Types, StreamTypes
    <3>2. prepare' \in [Hubs -> Places]
      BY <2>1 DEF Types, MemberTypes, Places
    <3>3. QED
      BY <1>1, <2>1, <3>1, <3>2 DEF Types, StreamTypes, MemberTypes, LinkTypes
  <2>3. Linked'
    <3>1. ASSUME NEW h \in Hubs PROVE Member(h)' /\ Awaits(pending'[h], prepare'[h])
      <4>1. Member(h) /\ Awaits(pending[h], prepare[h]) /\ pending'[h] = pending[h]
        BY <1>1 DEF Linked
      <4>2. CASE h \in cohort'
        <5>1. Off(h) /\ claims[h] = {} /\ prepare'[h] = "suspend"
          BY <1>1, <2>1, <4>2 DEF Course, Emptied, Off, Eligible
        <5>2. Awaits(pending'[h], prepare'[h])
          BY <4>1, <5>1, NothingAwaited DEF Awaits, Off
        <5>3. QED
          BY <1>1, <4>1, <5>1, <5>2 DEF Member, Off
      <4>3. CASE h \notin cohort'
        BY <1>1, <2>1, <4>1, <4>3 DEF Member
      <4>4. QED
        BY <4>2, <4>3
    <3>2. QED
      BY <3>1 DEF Linked
  <2>4. Course'
    BY <1>1, <1>3, <2>1 DEF Course, Ended, Emptied, Unready, Left, Together, Realigning
  <2>5. QED
    BY <2>2, <2>3, <2>4
<1>4. CASE ~(desired /\ fresh)
  <2>1. bc' = "play" /\ UNCHANGED <<cohort, prepare>>
    BY <1>4 DEF BarrierDetached
  <2>2. Types'
    BY <1>1, <2>1 DEF Types, StreamTypes, MemberTypes, LinkTypes
  <2>3. Linked'
    BY <1>1, <2>1 DEF Linked, Member
  <2>4. Course'
    BY <1>1, <1>2, <2>1 DEF Course, Ended, Emptied, Unready, Left, Together, Realigning
  <2>5. QED
    BY <2>2, <2>3, <2>4
<1>5. QED
  BY <1>3, <1>4

LEMMA BarrierPreparedStep ==
  ASSUME ReceiverInv, BarrierPrepared
  PROVE  ReceiverInv'
<1> USE DEF ReceiverInv, hub, stream, link, member, streamOnly
<1>1. /\ bc = "prepare" /\ bc' \in {"reprime", "play"}
      /\ burst' = burst \/ burst' = Active
      /\ UNCHANGED <<stream, cohort, away, gate, streamOnly, troubles>>
  BY DEF BarrierPrepared, Calm
<1>2. Types'
  BY <1>1 DEF Types, StreamTypes, MemberTypes, LinkTypes, Active
<1>3. Linked'
  BY <1>1 DEF Linked, Member
<1>4. Course'
  BY <1>1 DEF Course, Ended, Emptied, Unready, Left, Together, Realigning
<1>5. QED
  BY <1>2, <1>3, <1>4

LEMMA ReceiverInit ==
  ReceiversInit => ReceiverInv
<1> SUFFICES ASSUME ReceiversInit PROVE ReceiverInv
  OBVIOUS
<1> USE DEF ReceiversInit, Everywhere
<1>1. Types
  <2>1. <<>> \in Seq(Commands)
    OBVIOUS
  <2>2. pending \in [Hubs -> Seq(Commands)] /\ detach \in [Hubs -> SUBSET Calls]
    BY <2>1
  <2>3. QED
    BY <2>2, ReceiverConstants
    DEF Types, StreamTypes, MemberTypes, LinkTypes, Writers, Places, Ends
<1>2. Linked
  <2>1. NoneOf(<<>>)
    BY DEF NoneOf
  <2>2. QED
    BY <2>1, NothingAwaited DEF Linked, Member
<1>3. Course
  BY DEF Course, Ended, Emptied, Unready, Left, Together, Realigning
<1>4. QED
  BY <1>1, <1>2, <1>3 DEF ReceiverInv

LEMMA ReceiverStep ==
  ReceiverInv /\ [ReceiversNext]_rvars => ReceiverInv'
<1> SUFFICES ASSUME ReceiverInv, [ReceiversNext]_rvars PROVE ReceiverInv'
  OBVIOUS
<1>1. CASE UNCHANGED rvars
  <2> USE <1>1 DEF rvars, stream, barrier, hub, member, link
  <2>1. Types'
    BY DEF ReceiverInv, Types, StreamTypes, MemberTypes, LinkTypes
  <2>2. Linked'
    BY DEF ReceiverInv, Linked, Member
  <2>3. Course'
    BY DEF ReceiverInv, Course, Ended, Emptied, Unready, Left, Together, Realigning, Off
  <2>4. QED
    BY <2>1, <2>2, <2>3 DEF ReceiverInv
<1>2. CASE Stream
  <2>1. CASE Quieted
    <3>1. Stopped({}) /\ troubles' \in Nat /\ {} \in SUBSET Hubs
      BY <2>1 DEF Quieted, ReceiverInv, Types, StreamTypes
    <3>2. QED
      BY <3>1, StoppedStep
  <2>2. CASE StopStream
    <3>1. Stopped({h \in Hubs : writer[h] # "none"})
      BY <2>2 DEF StopStream
    <3>2. troubles' \in Nat
      BY <2>2 DEF StopStream, ReceiverInv, Types, StreamTypes
    <3>3. {h \in Hubs : writer[h] # "none"} \in SUBSET Hubs
      OBVIOUS
    <3>4. QED
      BY <3>1, <3>2, <3>3, StoppedStep
  <2>3. QED
    BY <1>2, <2>1, <2>2, RequestStep, QuietStep, StartStreamStep, PrimedStep DEF Stream
<1>3. CASE Barrier
  BY <1>3, RequestStep, RealignStep, BarrierDetachedStep, BarrierPreparedStep DEF Barrier
<1>4. CASE \E h \in Hubs : Hub(h)
  BY <1>4, HubStep
<1>5. QED
  BY <1>1, <1>2, <1>3, <1>4 DEF ReceiversNext

\* Whatever happens, the invariant holds.
LEMMA Received == ReceiversSpec => []ReceiverInv
<1>1. QED
  BY ReceiverInit, ReceiverStep, PTL DEF ReceiversSpec

-----------------------------------------------------------------------------
(* Theorems.                                                               *)

\* State is of its type, a hub serves the member's connection or one that is being
\* closed, and what is ready is connected (MediaGroupMember and what its hub runs).
THEOREM ReceiverTypes == ReceiversSpec => []ReceiversOK
<1>1. ReceiverInv => ReceiversOK
  <2> SUFFICES ASSUME ReceiverInv, NEW h \in Hubs
               PROVE  /\ writer[h] \in {"none", "ok", "broken"}
                      /\ prepare[h] \in {"no", "suspend", "start", "connect", "fail"}
                      /\ claims[h] \subseteq Kinds
                      /\ \A d \in detach[h] : /\ d.by \in Callers
                                              /\ d.at \in {"close", "command", "late"}
                      /\ receiver[h] = "serving" <=> writer[h] = "ok"
                      /\ receiver[h] = "closing" => \E d \in detach[h] : d.conn /\ d.at = "close"
                      /\ admitted[h] => writer[h] # "none"
    BY DEF ReceiversOK, ReceiverInv, Types, StreamTypes
  <2>1. Member(h)
    BY DEF ReceiverInv, Linked
  <2>2. /\ writer[h] \in Writers /\ prepare[h] \in Places /\ claims[h] \subseteq Kinds
        /\ detach[h] \subseteq Calls
    BY DEF ReceiverInv, Types, MemberTypes, LinkTypes
  <2>3. \A d \in detach[h] : d.by \in Callers /\ d.at \in {"close", "command", "late"}
    BY <2>2 DEF Calls
  <2>4. QED
    BY <2>1, <2>2, <2>3 DEF Member, Writers, Places
<1>2. QED
  BY <1>1, Received, PTL

\* Once a sound's claim has returned its hub is connected no more and not prepared, and
\* after a Stop no hub is, whatever preparation, quarantine, barrier or restart was
\* under way (async_claim_sound, _normal_stop).
THEOREM TakenIsLetGo == ReceiversSpec => []LetGo
<1>1. ReceiverInv => LetGo
  <2> SUFFICES ASSUME ReceiverInv, NEW h \in Hubs
               PROVE  /\ "sound" \in claims[h]
                           => writer[h] = "none" /\ prepare[h] = "no" /\ receiver[h] # "serving"
                      /\ Over => writer[h] = "none" /\ prepare[h] = "no"
    BY DEF LetGo
  <2>1. Member(h)
    BY DEF ReceiverInv, Linked
  <2>2. Over => Off(h)
    BY DEF ReceiverInv, Course, Ended, Over
  <2>3. QED
    BY <2>1, <2>2 DEF Member, Off
<1>2. QED
  BY <1>1, Received, PTL

\* Every member that plays was connected anew for the newest common prefill and took it,
\* but for one that had left when the barrier began (_realign_receiver_cohort).
THEOREM AllInStep == ReceiversSpec => []InStep
<1>1. ReceiverInv => InStep
  BY DEF ReceiverInv, Course, Together, InStep, ReadyMembers, Active
<1>2. QED
  BY <1>1, Received, PTL

=============================================================================
