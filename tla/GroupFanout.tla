----------------------------- MODULE GroupFanout -----------------------------
(***************************************************************************)
(* The PCM of the media group of media_group.py: FFmpeg fills a bounded    *)
(* queue, the broadcaster gives each period a number of one common         *)
(* timeline, and one writer task per member sends the timeline from its    *)
(* own cursor into the shared history, whole TCP batches at a time.  How   *)
(* members come and go is GroupReceivers; here they take the prefill or    *)
(* not, and are isolated when they are slow.                               *)
(*                                                                         *)
(* PCM is the number of its chunk in the source, 0 is silence.  A step of  *)
(* the broadcaster or of a writer is what it does between two awaits.      *)
(*                                                                         *)
(* Bounds: a source of SourceLength chunks, MaxSilence periods of silence, *)
(* MaxFaults expired drains and barriers.                                  *)
(***************************************************************************)
EXTENDS Integers, Sequences, FiniteSets, SequencesExt

CONSTANTS
  Members, SourceLength, MaxSilence, MaxFaults,
  GROUP_JITTER_BUFFER_CHUNKS, GROUP_PREBUFFER_CHUNKS, GROUP_REBUFFER_RESUME_CHUNKS,
  GROUP_REMOTE_PREFILL_CHUNKS, SHARED_FANOUT_CHUNKS, HARD_SYNC_LOSS_CHUNKS,
  GROUP_TRANSPORT_PERIOD_MS, GROUP_TRANSPORT_TARGET_MS

ASSUME FanoutConstants ==
  /\ IsFiniteSet(Members)
  /\ {SourceLength, MaxSilence, MaxFaults} \subseteq Nat
  /\ {GROUP_JITTER_BUFFER_CHUNKS, GROUP_PREBUFFER_CHUNKS, GROUP_REBUFFER_RESUME_CHUNKS,
      GROUP_REMOTE_PREFILL_CHUNKS, SHARED_FANOUT_CHUNKS, HARD_SYNC_LOSS_CHUNKS,
      GROUP_TRANSPORT_PERIOD_MS, GROUP_TRANSPORT_TARGET_MS} \subseteq Nat \ {0}
  /\ GROUP_TRANSPORT_TARGET_MS >= GROUP_TRANSPORT_PERIOD_MS

VARIABLES
  produced, queue, eof,     \* the producer: chunks read, source_queue, producer_done
  phase,        \* the broadcaster: prebuffer, play, pace, flush, ended, failed
  chunk,        \* raw_chunk, taken for the frame that is paced
  rebuffering,
  timeline,     \* all PCM numbered so far; _sequence is its length
  history,      \* _pcm_history: the numbers of the PCM it holds
  origin, released,     \* _transport_batch_origin, _transport_released_sequence
  cursor,       \* member.shared_cursor
  draining,     \* the writer waits for its drain
  timeouts,     \* consecutive drain timeouts
  ready,        \* ready_for_fanout
  given,        \* numbers of the PCM written to a member since it was admitted
  silence, faults

source == <<produced, queue, eof>>
broadcaster == <<phase, chunk, rebuffering>>
shared == <<timeline, history, origin, released>>
writers == <<cursor, draining, timeouts, given>>
bounds == <<silence, faults>>
vars == <<source, broadcaster, shared, writers, ready, bounds>>

sequence == Len(timeline)
Ready == {m \in Members : ready[m]}
Fault == faults > 0 /\ faults' = faults - 1 /\ UNCHANGED silence

\* The batch that the period at c belongs to ends at the number returned.  Batches last
\* GROUP_TRANSPORT_TARGET_MS, rounded up to whole periods.
BatchEndsAt(batch) ==
  origin + (batch * GROUP_TRANSPORT_TARGET_MS + GROUP_TRANSPORT_PERIOD_MS - 1)
             \div GROUP_TRANSPORT_PERIOD_MS
BatchOf(c) ==
  ((IF c > origin THEN c - origin ELSE 0) * GROUP_TRANSPORT_PERIOD_MS)
    \div GROUP_TRANSPORT_TARGET_MS
GROUP_TRANSPORT_BATCH_CHUNKS == BatchEndsAt(1) - origin

\* Mutant of NextBatchBoundary: batches are counted from one.
BoundaryBefore(c) == BatchEndsAt(BatchOf(c))

NextBatchBoundary(c) == BatchEndsAt(BatchOf(c) + 1)

\* Mutant of Kept: a deque without maxlen.
NothingForgotten(numbers) == numbers

\* The deque forgets its oldest entry.
Kept(numbers) ==
  SubSeq(numbers, Len(numbers) - Min({Len(numbers), SHARED_FANOUT_CHUNKS}) + 1,
         Len(numbers))

Init ==
  /\ produced = 0 /\ queue = <<>> /\ eof = FALSE
  /\ phase = "prebuffer" /\ chunk = 0 /\ rebuffering = FALSE
  /\ timeline = <<>> /\ history = <<>> /\ origin = 0 /\ released = 0
  /\ cursor = [m \in Members |-> 0] /\ draining = [m \in Members |-> FALSE]
  /\ timeouts = [m \in Members |-> 0] /\ ready = [m \in Members |-> FALSE]
  /\ given = [m \in Members |-> <<>>]
  /\ silence = MaxSilence /\ faults = MaxFaults

-----------------------------------------------------------------------------
(* The producer.                                                           *)

Produce ==
  /\ ~eof /\ produced < SourceLength /\ Len(queue) < GROUP_JITTER_BUFFER_CHUNKS
  /\ produced' = produced + 1 /\ queue' = Append(queue, produced + 1)
  /\ UNCHANGED <<eof, broadcaster, shared, writers, ready, bounds>>
SourceEnds ==
  /\ ~eof /\ produced = SourceLength /\ eof' = TRUE
  /\ UNCHANGED <<produced, queue, broadcaster, shared, writers, ready, bounds>>

-----------------------------------------------------------------------------
(* The broadcaster.                                                        *)

\* _prime_initial_cohort: what is queued, up to the prefill, is numbered and goes to the
\* members that take it, and the timeline goes on behind it.  Without a member it is lost.
Taken == SubSeq(queue, 1, Min({Len(queue), GROUP_REMOTE_PREFILL_CHUNKS}))
Numbers == [i \in DOMAIN Taken |-> sequence + i - 1]
Prefill(members, kept) ==
  /\ queue' = SubSeq(queue, Len(Taken) + 1, Len(queue))
  /\ IF members = {} THEN UNCHANGED <<timeline, origin, released, writers>> /\ history' = kept
     ELSE /\ timeline' = timeline \o Taken
          /\ history' = Kept(kept \o Numbers)
          /\ origin' = sequence' /\ released' = sequence'
          /\ cursor' = [m \in Members |-> IF m \in members THEN sequence' ELSE cursor[m]]
          /\ given' = [m \in Members |-> IF m \in members THEN Numbers ELSE given[m]]
          /\ timeouts' = [m \in Members |-> IF m \in members THEN 0 ELSE timeouts[m]]
          /\ draining' = [m \in Members |-> draining[m] /\ m \notin members]
  /\ ready' = [m \in Members |-> m \in members]

\* The prebuffer is there; without PCM or a member the broadcaster gives up.
Start ==
  /\ phase = "prebuffer" /\ (Len(queue) >= GROUP_PREBUFFER_CHUNKS \/ eof)
  /\ \E members \in SUBSET Members :
       /\ (queue = <<>> => members = {})
       /\ Prefill(members, history)
       /\ phase' = IF members = {} THEN "failed" ELSE "play"
  /\ UNCHANGED <<produced, eof, chunk, rebuffering, bounds>>

\* _realign_receiver_cohort at the checkpoint, with PCM in the queue: every member is
\* detached, the history is cleared, and the members that come back begin together.  The
\* broadcaster fails when all that came back refuse the prefill.
Realign(members) ==
  /\ phase = "play" /\ queue # <<>> /\ Fault
  /\ Prefill(members, <<>>)
  /\ phase' \in {"play"} \cup (IF members = {} THEN {"failed"} ELSE {})
  /\ rebuffering' = FALSE
  /\ UNCHANGED <<produced, eof, chunk>>

\* One round of the loop up to the pace: PCM, or silence while the queue refills.
Refilling == (rebuffering \/ queue = <<>>)
             /\ ~eof /\ Len(queue) < GROUP_REBUFFER_RESUME_CHUNKS
TakePcm ==
  /\ phase = "play" /\ queue # <<>> /\ ~(rebuffering /\ Refilling)
  /\ chunk' = Head(queue) /\ queue' = Tail(queue)
  /\ rebuffering' = FALSE /\ phase' = "pace"
  /\ UNCHANGED <<produced, eof, shared, writers, ready, bounds>>
TakeSilence ==
  /\ phase = "play" /\ Refilling /\ silence > 0 /\ silence' = silence - 1
  /\ chunk' = 0 /\ rebuffering' = TRUE /\ phase' = "pace"
  /\ UNCHANGED <<source, shared, writers, ready, faults>>

\* The source was silent for 5 s.
Stalls ==
  /\ phase = "play" /\ Refilling /\ silence = 0
  /\ phase' = "failed"
  /\ UNCHANGED <<source, chunk, rebuffering, shared, writers, ready, bounds>>

\* Mutant of Releases.
ReleasesLate(number) == number >= NextBatchBoundary(number)

\* _fanout_frame publishes the frame, and the batch with its last period.
Releases(number) == number + 1 >= NextBatchBoundary(number)

Fanout ==
  /\ phase = "pace" /\ phase' = "play"
  /\ history' = Kept(Append(history, sequence))
  /\ timeline' = Append(timeline, chunk)
  /\ released' = (IF Releases(sequence) THEN sequence + 1 ELSE released)
  /\ UNCHANGED <<source, chunk, rebuffering, origin, writers, ready, bounds>>

\* The end: _flush_fanout_tail releases the part of a batch that is left ...
Flush ==
  /\ phase = "play" /\ eof /\ queue = <<>>
  /\ phase' = "flush" /\ released' = sequence
  /\ UNCHANGED <<source, chunk, rebuffering, timeline, history, origin, writers, ready,
                  bounds>>

\* Mutant of Flushed: the end does not wait.
EndsAtOnce ==
  /\ phase = "flush" /\ phase' = "ended"
  /\ UNCHANGED <<source, chunk, rebuffering, shared, writers, ready, bounds>>

\* ... and waits for the cursors, not for longer than a drain.
Flushed ==
  /\ phase = "flush"
  /\ IF \A m \in Ready : cursor[m] >= sequence THEN UNCHANGED bounds ELSE Fault
  /\ phase' = "ended"
  /\ UNCHANGED <<source, chunk, rebuffering, shared, writers, ready>>

-----------------------------------------------------------------------------
(* The writer of a member.                                                 *)

Isolate(m) == ready' = [ready EXCEPT ![m] = FALSE]

\* Mutant of Behind.
NeverBehind(m) == FALSE

\* The history no longer holds what the member is to get next.
Behind(m) == history # <<>> /\ cursor[m] < Head(history)

Overrun(m) ==
  /\ ready[m] /\ ~draining[m] /\ Behind(m) /\ Isolate(m)
  /\ UNCHANGED <<source, broadcaster, shared, writers, bounds>>

\* The reconcile loop isolates a member one second behind.
LagsBehind(m) ==
  /\ ready[m] /\ released - cursor[m] >= HARD_SYNC_LOSS_CHUNKS /\ Isolate(m)
  /\ UNCHANGED <<source, broadcaster, shared, writers, bounds>>

\* A deque counts from its end below zero.
Entry(i) == history[IF i >= 0 THEN i + 1 ELSE Len(history) + i + 1]
BatchEnd(m) ==
  Min({cursor[m] + GROUP_TRANSPORT_BATCH_CHUNKS, NextBatchBoundary(cursor[m]), released,
       Last(history) + 1})
Write(m) ==
  /\ ready[m] /\ ~draining[m] /\ history # <<>> /\ ~Behind(m)
  /\ cursor[m] < BatchEnd(m)
  /\ LET index == cursor[m] - Head(history)
         payload == [i \in 1..(BatchEnd(m) - cursor[m]) |-> Entry(index + i - 1)]
     IN given' = [given EXCEPT ![m] = @ \o payload]
  /\ cursor' = [cursor EXCEPT ![m] = BatchEnd(m)]
  /\ draining' = [draining EXCEPT ![m] = TRUE]
  /\ UNCHANGED <<source, broadcaster, shared, timeouts, ready, bounds>>
Drained(m) ==
  /\ draining[m] /\ draining' = [draining EXCEPT ![m] = FALSE]
  /\ timeouts' = [timeouts EXCEPT ![m] = 0]
  /\ UNCHANGED <<source, broadcaster, shared, cursor, given, ready, bounds>>

\* One expired drain is tolerated, the second isolates the member.
DrainTimesOut(m) ==
  /\ draining[m] /\ ready[m] /\ Fault /\ draining' = [draining EXCEPT ![m] = FALSE]
  /\ timeouts' = [timeouts EXCEPT ![m] = @ + 1]
  /\ IF timeouts'[m] >= 2 THEN Isolate(m) ELSE UNCHANGED ready
  /\ UNCHANGED <<source, broadcaster, shared, cursor, given>>

-----------------------------------------------------------------------------
Broadcast == Start \/ TakePcm \/ TakeSilence \/ Stalls \/ Fanout \/ Flush
Writer(m) == Overrun(m) \/ Write(m) \/ Drained(m)
Next ==
  \/ Produce \/ SourceEnds \/ Broadcast \/ Flushed
  \/ \E members \in SUBSET Members : Realign(members)
  \/ \E m \in Members : Writer(m) \/ LagsBehind(m) \/ DrainTimesOut(m)

Spec == Init /\ [][Next]_vars

\* The tasks of the event loop run, and drains end; the source may stop for good.
FairSpec ==
  /\ Spec /\ WF_vars(Broadcast) /\ WF_vars(Flushed)
  /\ \A m \in Members : WF_vars(Writer(m))

-----------------------------------------------------------------------------
(* Properties.                                                             *)

\* State is of its type, and the numbers of the history are those of the newest PCM,
\* without a hole: writers find PCM by its distance from the oldest.
TypeOK ==
  /\ produced \in 0..SourceLength /\ queue \in Seq(Nat) /\ eof \in BOOLEAN
  /\ Len(queue) <= GROUP_JITTER_BUFFER_CHUNKS
  /\ phase \in {"prebuffer", "play", "pace", "flush", "ended", "failed"}
  /\ chunk \in Nat /\ rebuffering \in BOOLEAN
  /\ timeline \in Seq(Nat) /\ history \in Seq(Nat) /\ Len(history) <= SHARED_FANOUT_CHUNKS
  /\ \A i \in DOMAIN history : history[i] = sequence - Len(history) + i - 1
  /\ released \in 0..sequence /\ origin \in 0..sequence
  /\ cursor \in [Members -> Nat] /\ given \in [Members -> Seq(Nat)]
  /\ draining \in [Members -> BOOLEAN] /\ timeouts \in [Members -> Nat]
  /\ ready \in [Members -> BOOLEAN]
  /\ silence \in 0..MaxSilence /\ faults \in 0..MaxFaults

\* What a member that plays was given since its prefill is the common timeline,
\* without gap, repetition or change of order, up to its cursor: over barriers, PCM
\* that left the history, odd batches and the flush at the end.
TimelineWhole ==
  \A m \in Ready : \A i \in DOMAIN given[m] :
    given[m][i] = cursor[m] - Len(given[m]) + i - 1

\* The chunk of the source in the i-th PCM a member was given.
Heard(m, i) == timeline[given[m][i] + 1]

\* The source PCM among it is whole as well: silence is put in between, and nothing of the
\* source is overtaken, repeated or left out since the prefill, over queue, rebuffering and
\* barriers.  Once the broadcaster has come to the end and nothing was waited for in vain,
\* every member was given all of it ("Release a short EOF burst", media_group.py:2526).
SourceWhole ==
  \A m \in Ready :
    /\ \A i, j \in DOMAIN given[m] :
         i < j /\ Heard(m, i) # 0 /\ Heard(m, j) # 0 =>
           /\ Heard(m, i) < Heard(m, j)
           /\ \A c \in Heard(m, i)..Heard(m, j) : \E k \in i..j : Heard(m, k) = c
    /\ phase = "ended" /\ faults = MaxFaults =>
         \A c \in 1..produced : \E i \in DOMAIN given[m] : Heard(m, i) = c

\* A member that plays is not kept from the timeline for good, whatever the others do: again
\* and again it lacks less than a batch.
Delivered ==
  \A m \in Members :
    []<>(ready[m] => sequence - cursor[m] < GROUP_TRANSPORT_BATCH_CHUNKS)
=============================================================================
