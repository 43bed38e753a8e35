--------------------------- MODULE GroupReceivers ---------------------------
(***************************************************************************)
(* The receivers of the media group of media_group.py: how a hub is        *)
(* prepared, staged, aligned with the others, quarantined, and given up to *)
(* a sound or to its own radio player, while commands sent to it are still *)
(* under way.  GroupControl says who starts and stops the group; here that *)
(* is UserPlay, UserStop, Quiet, Quieted, StopStream and StartStream.      *)
(*                                                                         *)
(* A command runs in an executor thread.  Its caller may time out or be    *)
(* cancelled: the command then is still pending, by nobody.  The commands  *)
(* of one hub run in the order they were given, when its client is free.   *)
(*                                                                         *)
(* Bounds: MaxTroubles faults, timeouts, claims and requests; a            *)
(* preparation waits while MaxPending commands are before it.  The names   *)
(* are none of GroupFanout's, so that the two can be extended together.    *)
(***************************************************************************)
EXTENDS Naturals, Sequences, FiniteSets

CONSTANTS Hubs, MaxTroubles, MaxPending

ASSUME ReceiverConstants ==
  IsFiniteSet(Hubs) /\ MaxTroubles \in Nat /\ MaxPending \in Nat \ {0}

VARIABLES
  desired,      \* desired_playing
  fresh,        \* the stream's intent is still the newest
  stopping,     \* a Stop waits for the lock (asked), or silences the hubs (quiet)
  bc,           \* the broadcaster: off, prebuffer, prime, play, dead, and the
                \* barrier of _realign_receiver_cohort: detach, prepare, reprime
  cohort,       \* hubs of the barrier
  away,         \* hubs that played and did not answer when the barrier began
  burst,        \* hubs the prefill is being written to
  gate,         \* CohortAlignmentGate: what asks for a barrier, if anything
  online, claims,       \* hubs that answer; who has taken a hub from the group
  writer,       \* member.writer: none, ok or broken
  admitted,     \* ready_for_fanout
  aligned,      \* hubs that took the last common prefill
  prepare,      \* where prepare_task is
  detaching,    \* member.detaching
  detach,       \* calls of _detach_member: [by, at, conn, stop]
  pending,      \* commands on their way, oldest first: [cmd, by]
  receiver,     \* on the hub: none, listening, or serving a connection, the
                \* member's or one that is being closed
  troubles

stream == <<desired, fresh, stopping>>
barrier == <<bc, cohort, away, burst, gate>>
member == <<writer, admitted, prepare, detaching>>
hub == <<online, claims>>
link == <<detach, pending, receiver>>
rvars == <<stream, barrier, hub, member, aligned, link, troubles>>

Kinds == {"sound", "individual", "excluded"}
Callers == Kinds \cup {"isolate", "realign", "stop"}
Eligible(h) == h \in online /\ claims[h] = {}
Active == {h \in Hubs : writer[h] # "none" /\ ~detaching[h]}     \* active_members
ReadyMembers == {h \in Active : admitted[h]}                     \* ready_members
Realigning == bc \in {"detach", "prepare", "reprime"}            \* _cohort_realigning
FfmpegRunning == bc # "off"
Locked == Realigning \/ stopping = "quiet" \/ \E h \in Hubs : \E d \in detach[h] : d.by = "stop"
Detaching(h, by) == \E d \in detach[h] : d.by = by
Closing(h) == \E d \in detach[h] : d.at = "close"
Trouble == troubles > 0 /\ troubles' = troubles - 1
Calm == UNCHANGED troubles
Everywhere(value) == [h \in Hubs |-> value]

\* Playing is wanted and the hubs are there, none prepared.
ReceiversInit ==
  /\ desired = TRUE /\ fresh = TRUE /\ stopping = "no"
  /\ bc = "off" /\ cohort = {} /\ away = {} /\ burst = {} /\ gate = "no"
  /\ online = Hubs /\ claims = Everywhere({})
  /\ writer = Everywhere("none") /\ admitted = Everywhere(FALSE) /\ aligned = {}
  /\ prepare = Everywhere("no") /\ detaching = Everywhere(FALSE)
  /\ detach = Everywhere({}) /\ pending = Everywhere(<<>>)
  /\ receiver = Everywhere("none")
  /\ troubles = MaxTroubles

-----------------------------------------------------------------------------
(* _detach_member, for the hubs of a set at once.                          *)

Orphaned(commands, by) ==
  [i \in DOMAIN commands |->
     [commands[i] EXCEPT !.by = IF @ = by THEN "nobody" ELSE @]]
Given(commands, cmd, by) == Append(commands, [cmd |-> cmd, by |-> by])

\* Mutant of Cancelled.
KeepPreparing(hubs) == prepare

Cancelled(hubs) == [h \in Hubs |-> IF h \in hubs THEN "no" ELSE prepare[h]]

\* What it does before its first await: nothing of the member is left, a
\* preparation is cancelled, its command goes on.  The hubs of told are to stop
\* their receiver.
Withdraw(hubs, by, told) ==
  /\ detach' = [h \in Hubs |->
       IF h \in hubs
         THEN detach[h] \cup {[by |-> by, at |-> "close", conn |-> writer[h] = "ok",
                               stop |-> h \in told]}
         ELSE detach[h]]
  /\ writer' = [h \in Hubs |-> IF h \in hubs THEN "none" ELSE writer[h]]
  /\ prepare' = Cancelled(hubs)
  /\ pending' = [h \in Hubs |-> IF h \in hubs THEN Orphaned(pending[h], "prepare")
                                ELSE pending[h]]
  /\ receiver' = [h \in Hubs |-> IF h \in hubs /\ receiver[h] = "serving"
                                  THEN "closing" ELSE receiver[h]]
Detach(hubs, by, told) ==
  /\ Withdraw(hubs, by, told)
  /\ admitted' = [h \in Hubs |-> admitted[h] /\ h \notin hubs]
  /\ burst' = burst \ hubs
  /\ UNCHANGED aligned

\* Whether a command still has to stop the receiver.
Detached(h, d) == d.stop /\ h \in online

\* The call returns.  Only the runner of a quarantine then stops the receiver, with
\* the member open to a new preparation.
Return(h, d, rest, commands) ==
  /\ detaching' = [detaching EXCEPT ![h] = FALSE]
  /\ IF d.by = "isolate" /\ d.at # "late" /\ h \in online
       THEN /\ detach' = [detach EXCEPT ![h] = rest \cup {[d EXCEPT !.at = "late"]}]
            /\ pending' = [pending EXCEPT
                 ![h] = Given(commands, "stop", "isolate")]
       ELSE /\ detach' = [detach EXCEPT ![h] = rest]
            /\ pending' = [pending EXCEPT ![h] = commands]

\* Mutant of HungUp: the writer is not closed.
LeftOpen(h, conn) == receiver[h]

HungUp(h, conn) == IF conn /\ receiver[h] = "closing" THEN "none" ELSE receiver[h]

\* The tasks have ended, the connection is closed; nc and aplay end with it.
Closed(h, d) ==
  /\ d \in detach[h] /\ d.at = "close"
  /\ receiver' = [receiver EXCEPT ![h] = HungUp(h, d.conn)]
  /\ LET rest == detach[h] \ {d}
         closed == [d EXCEPT !.conn = FALSE]
     IN IF Detached(h, d)
          THEN /\ detach' = [detach EXCEPT
                    ![h] = rest \cup {[closed EXCEPT !.at = "command"]}]
               /\ pending' = [pending EXCEPT ![h] = Given(@, "stop", d.by)]
               /\ UNCHANGED detaching
          ELSE Return(h, closed, rest, pending[h])
  /\ UNCHANGED <<stream, barrier, hub, writer, admitted, aligned, prepare, troubles>>

-----------------------------------------------------------------------------
(* Commands on the hub.                                                    *)

\* What the caller does once its command has ended, or has timed out.
Waiting(h, c) == {d \in detach[h] : d.by = c.by /\ d.at \in {"command", "late"}}
Answer(h, c, commands, ok) ==
  IF c.by = "prepare"
    THEN /\ prepare' = [prepare EXCEPT
              ![h] = IF @ = "fail" THEN "no" ELSE IF ok THEN "connect" ELSE "fail"]
         /\ pending' = [pending EXCEPT
              ![h] = IF prepare'[h] = "fail"
                       THEN Given(commands, "stop", "prepare") ELSE commands]
         /\ UNCHANGED <<detach, detaching>>
    ELSE /\ UNCHANGED prepare
         /\ IF Waiting(h, c) = {}
              THEN pending' = [pending EXCEPT ![h] = commands]
                   /\ UNCHANGED <<detach, detaching>>
              ELSE \E d \in Waiting(h, c) : Return(h, d, detach[h] \ {d}, commands)

Broken(conn) == IF conn = "ok" THEN "broken" ELSE conn

\* GROUP_START_COMMAND and GROUP_STOP_COMMAND, run when the client is free; both
\* kill the receiver that is there, and so its connection.
Run(h) ==
  /\ pending[h] # <<>>
  /\ IF h \in online
       THEN /\ receiver' = [receiver EXCEPT
                 ![h] = IF Head(pending[h]).cmd = "start" THEN "listening" ELSE "none"]
            /\ writer' = [writer EXCEPT ![h] = Broken(@)]
       ELSE UNCHANGED <<receiver, writer>>
  /\ Answer(h, Head(pending[h]), Tail(pending[h]), h \in online)
  /\ UNCHANGED <<stream, barrier, hub, admitted, aligned, troubles>>

\* The caller waits no longer, the command is still under way.
TimesOut(h, c) ==
  /\ c.by # "nobody" /\ Trouble
  /\ Answer(h, c, Orphaned(pending[h], c.by), FALSE)
  /\ UNCHANGED <<stream, barrier, hub, writer, admitted, aligned, receiver>>

-----------------------------------------------------------------------------
(* _prepare_member.                                                        *)

prepareOnly == <<stream, hub, writer, admitted, aligned, detaching, detach>>
Place(h, place) == prepare' = [prepare EXCEPT ![h] = place]

\* The check after each await of a preparation.
StillWanted(h) == Eligible(h)

\* _reconcile_loop, which pauses during a barrier, and _restart_stream_locked.
Prepare(h) ==
  /\ desired /\ ~Realigning
  /\ Eligible(h) /\ writer[h] = "none" /\ prepare[h] = "no"
  /\ ~detaching[h] \/ bc = "off"
  /\ Place(h, "suspend")
  /\ UNCHANGED <<barrier, pending, receiver, prepareOnly>> /\ Calm

\* Its radio player is suspended and the volume set, then the receiver is started:
\* seldom before a connection that was open to it is closed.
Suspended(h) ==
  /\ prepare[h] = "suspend" /\ Len(pending[h]) < MaxPending
  /\ IF StillWanted(h) /\ writer[h] = "none"
       THEN /\ Place(h, "start")
            /\ pending' = [pending EXCEPT ![h] = Given(@, "start", "prepare")]
            /\ IF Closing(h) THEN Trouble ELSE Calm
       ELSE Place(h, "no") /\ UNCHANGED pending /\ Calm
  /\ UNCHANGED <<barrier, receiver, prepareOnly>>

\* CohortAlignmentGate.request.
Requested(why) == IF gate = "no" THEN why ELSE gate

\* The connection is there: the member is staged, silent.  It is closed at once when
\* the hub was taken meanwhile.
Connected(h) ==
  /\ prepare[h] = "connect" /\ receiver[h] = "listening"
  /\ Place(h, "no")
  /\ IF StillWanted(h)
       THEN /\ writer' = [writer EXCEPT ![h] = "ok"]
            /\ receiver' = [receiver EXCEPT ![h] = "serving"]
            /\ detaching' = [detaching EXCEPT ![h] = FALSE]
            /\ gate' = (IF FfmpegRunning /\ ~Realigning THEN Requested("returning")
                                                   ELSE gate)
       ELSE /\ receiver' = [receiver EXCEPT ![h] = "none"]
            /\ UNCHANGED <<writer, detaching, gate>>
  /\ UNCHANGED <<stream, bc, cohort, away, burst, hub, admitted, aligned, detach,
                 pending, troubles>>

\* Six attempts found no receiver: the hub is cleaned up and tried again later.
ConnectFails(h) ==
  /\ prepare[h] = "connect" /\ receiver[h] # "listening"
  /\ Place(h, "fail")
  /\ pending' = [pending EXCEPT ![h] = Given(@, "stop", "prepare")]
  /\ UNCHANGED <<barrier, receiver, prepareOnly>> /\ Calm

-----------------------------------------------------------------------------
(* Quarantine and claims.                                                  *)

\* _schedule_isolate_member: a member that is detached already is left alone.
IsolateMembers(hubs) ==
  /\ Detach({h \in hubs : ~detaching[h]}, "isolate", {})
  /\ detaching' = [h \in Hubs |-> detaching[h] \/ h \in hubs]

isolateOnly == <<stream, bc, cohort, away, gate, hub>>

\* Two drain timeouts, a cursor that falls behind, three stale samples.
Slow(h) ==
  /\ h \in ReadyMembers /\ Trouble /\ IsolateMembers({h}) /\ UNCHANGED isolateOnly
WriterFails(h) ==
  /\ h \in ReadyMembers /\ writer[h] = "broken" /\ stopping # "quiet"
  /\ IsolateMembers({h}) /\ UNCHANGED isolateOnly
  /\ Calm
ReceiverDies(h) ==
  /\ receiver[h] = "serving" /\ Trouble
  /\ receiver' = [receiver EXCEPT ![h] = "none"]
  /\ writer' = [writer EXCEPT ![h] = Broken(@)]
  /\ UNCHANGED <<stream, barrier, hub, admitted, prepare, detaching, aligned, detach,
                  pending>>
NoLongerEligible(h) ==
  /\ desired /\ ~Realigning /\ writer[h] # "none" /\ ~Eligible(h) /\ ~detaching[h]
  /\ IsolateMembers({h}) /\ UNCHANGED isolateOnly /\ Calm

\* Whether a claim has the receiver stopped: always for a sound while the group
\* plays, for an excluded hub only when it is connected.
StopsReceiver(h, kind) ==
  \/ writer[h] # "none"
  \/ kind # "excluded" /\ desired
  \/ kind = "sound" /\ (prepare[h] # "no" \/ detaching[h])

\* async_claim_sound, async_claim_individual, async_member_disabled.
Claim(h, kind) ==
  /\ kind \notin claims[h] /\ Trouble /\ ~Detaching(h, kind)
  /\ claims' = [claims EXCEPT ![h] = @ \cup {kind}]
  /\ Detach({h}, kind, {g \in {h} : StopsReceiver(g, kind)})
  /\ UNCHANGED <<stream, bc, cohort, away, gate, online, detaching>>
\* A member is enabled again, a player gives its hub up, without waiting for the
\* detachment of the claim; a sound does.
Unclaim(h, kind) ==
  /\ kind \in claims[h] /\ (kind = "sound" => ~Detaching(h, kind))
  /\ claims' = [claims EXCEPT ![h] = @ \ {kind}]
  /\ UNCHANGED <<stream, barrier, online, member, aligned, link>> /\ Calm

\* A hub answers no longer, its connection may live on; then it answers again, or
\* has restarted.
Leaves(h) ==
  /\ h \in online /\ Trouble /\ online' = online \ {h}
  /\ UNCHANGED <<stream, barrier, claims, member, aligned, link>>
Comes(h) ==
  /\ h \notin online /\ online' = online \cup {h}
  /\ \E restarted \in BOOLEAN :
       IF restarted THEN /\ receiver' = [receiver EXCEPT ![h] = "none"]
                         /\ writer' = [writer EXCEPT ![h] = Broken(@)]
                    ELSE UNCHANGED <<receiver, writer>>
  /\ UNCHANGED <<stream, barrier, claims, admitted, aligned, prepare, detaching, detach,
                  pending>> /\ Calm

-----------------------------------------------------------------------------
(* The stream.                                                             *)

streamOnly == <<hub, member, aligned, link>>
UserPlay ==
  /\ ~desired /\ Trouble /\ desired' = TRUE /\ fresh' = TRUE
  /\ UNCHANGED <<stopping, barrier, streamOnly>>
UserStop ==
  /\ desired /\ Trouble /\ desired' = FALSE /\ stopping' = "asked"
  /\ UNCHANGED <<fresh, barrier, streamOnly>>

\* A Play takes the newest intent and then cannot resolve its source.
PlayFails ==
  /\ fresh /\ Trouble /\ fresh' = FALSE
  /\ UNCHANGED <<desired, stopping, barrier, streamOnly>>

\* A Stop, and a Play of another source, first kill the receivers that are connected
\* (_normal_stop, _restart_stream_locked) ...
Quiet ==
  /\ ~Locked /\ stopping' = "quiet"
  /\ IF stopping = "asked" THEN Calm ELSE desired /\ FfmpegRunning /\ Trouble
  /\ pending' = [h \in Hubs |-> IF writer[h] # "none" /\ h \in online
                                 THEN Given(pending[h], "stop", "quiet") ELSE pending[h]]
  /\ UNCHANGED <<desired, fresh, barrier, hub, member, aligned, detach, receiver>>

\* _stop_stream_locked detaches all members, ...
Stopped(told) ==
  /\ bc' = "off" /\ cohort' = {} /\ gate' = "no" /\ stopping' = "no"
  /\ Detach(Hubs, "stop", told)
  /\ UNCHANGED <<desired, fresh, away, hub, detaching>>

\* ... after the first kill without another, ...
Quieted ==
  /\ stopping = "quiet" /\ \A h \in Hubs : \A i \in DOMAIN pending[h] :
                              pending[h][i].by # "quiet"
  /\ Stopped({}) /\ UNCHANGED troubles

\* ... and in a restart for the source's sake with one for the connected.
StopStream ==
  /\ ~Locked /\ stopping = "no" /\ desired
  /\ IF bc = "dead" THEN UNCHANGED troubles
                    ELSE FfmpegRunning /\ troubles > 0 /\ troubles' = troubles - 1
  /\ Stopped({h \in Hubs : writer[h] # "none"})

\* _start_ffmpeg_locked.
StartStream ==
  /\ desired /\ stopping = "no" /\ ~Locked /\ bc = "off" /\ Active # {}
  /\ bc' = "prebuffer" /\ fresh' = TRUE /\ away' = {}
  /\ admitted' = [h \in Hubs |-> admitted[h] /\ h \notin Active]
  /\ UNCHANGED <<desired, stopping, cohort, burst, gate, hub, writer, prepare,
                  detaching, aligned, link>> /\ Calm

\* _prime_initial_cohort writes to whoever is there ...
Prime ==
  /\ bc = "prebuffer" /\ desired /\ bc' = "prime" /\ burst' = Active
  /\ UNCHANGED <<stream, cohort, away, gate, streamOnly>> /\ Calm

\* ... and admits those that took it.
Admitted == {h \in burst : writer[h] = "ok" /\ Eligible(h)}

\* The timeline begins anew.  A member admitted before that is not of this cohort is
\* behind its history, and isolated, or its writer had caught up: then it goes on.
Primed ==
  /\ bc \in {"prime", "reprime"} /\ burst' = {} /\ Calm
  /\ IF ~(desired /\ fresh) \/ burst = {}
       THEN /\ bc' = (IF bc = "prime" THEN "dead" ELSE "play")
            /\ UNCHANGED <<gate, member, aligned, link>>
       ELSE \E behind \in SUBSET (ReadyMembers \ Admitted) :
              LET failed == {h \in burst : Eligible(h) /\ writer[h] = "broken"}
                  lost == {h \in failed \cup behind : ~detaching[h]}
              IN /\ Withdraw(lost, "isolate", {})
                 /\ detaching' = [h \in Hubs |-> detaching[h] \/ h \in lost]
                 /\ IF Admitted # {}
                      THEN /\ bc' = "play" /\ aligned' = Admitted \ ReadyMembers
                           /\ gate' = "no"
                      ELSE bc' = "dead" /\ UNCHANGED <<aligned, gate>>
                 /\ admitted' = [h \in Hubs |->
                               (admitted[h] \/ h \in Admitted) /\ h \notin lost]
  /\ UNCHANGED <<stream, cohort, away, hub>>

-----------------------------------------------------------------------------
(* The common barrier of _realign_receiver_cohort.                         *)

gateOnly == <<stream, bc, cohort, away, burst, streamOnly>>
Staged == {h \in Active : ~admitted[h] /\ Eligible(h) /\ prepare[h] = "no"}

\* Between two frames: staged members ask for a barrier, and when they have gone the
\* request goes with them.  An audit asks for one when two hubs drift apart.
Checkpoint ==
  /\ bc = "play" /\ desired
  /\ gate' = (IF Staged # {} THEN Requested("returning")
              ELSE IF gate = "returning" THEN "no" ELSE gate)
  /\ UNCHANGED gateOnly /\ Calm
Drift ==
  /\ bc = "play" /\ Cardinality(ReadyMembers) >= 2 /\ Trouble
  /\ gate' = Requested("drift") /\ UNCHANGED gateOnly
\* Mutant of Due.
DueHealthy(receivers) == gate # "no" /\ receivers \cap ReadyMembers # {}

\* CohortAlignmentGate.due: at once in silence, else once the request has settled for
\* 3 s, 60 s after the last barrier, whenever that is.
Due(receivers) == gate # "no" /\ receivers # {}

\* Mutant of Rebuilt.
OnlyStaged == Staged

\* All connected members that may play, those that play among them, are rebuilt.
Rebuilt == {h \in Active : Eligible(h) /\ prepare[h] = "no"}

RealignCohort ==
  /\ bc = "play" /\ desired /\ fresh /\ Due(Active) /\ Due(Rebuilt)
  /\ bc' = "detach" /\ cohort' = Rebuilt /\ away' = ReadyMembers \ online /\ gate' = "no"
  /\ Detach(Rebuilt, "realign", Rebuilt)
  /\ UNCHANGED <<stream, hub, detaching>> /\ Calm
BarrierDetached ==
  /\ bc = "detach" /\ \A h \in Hubs : ~Detaching(h, "realign")
  /\ IF desired /\ fresh
       THEN /\ bc' = "prepare" /\ cohort' = {h \in cohort : Eligible(h)}
            /\ prepare' = [h \in Hubs |-> IF h \in cohort' /\ prepare[h] = "no"
                                           THEN "suspend" ELSE prepare[h]]
       ELSE bc' = "play" /\ UNCHANGED <<cohort, prepare>>
  /\ UNCHANGED <<stream, away, burst, gate, hub, writer, admitted, detaching, aligned, link>>
  /\ Calm
BarrierPrepared ==
  /\ bc = "prepare" /\ \A h \in cohort : prepare[h] = "no"
  /\ IF desired /\ fresh THEN bc' = "reprime" /\ burst' = Active
                         ELSE bc' = "play" /\ UNCHANGED burst
  /\ UNCHANGED <<stream, cohort, away, gate, streamOnly>> /\ Calm

-----------------------------------------------------------------------------
Stream ==
  \/ UserPlay \/ UserStop \/ PlayFails \/ Quiet \/ Quieted \/ StopStream \/ StartStream \/ Prime \/ Primed
Barrier ==
  \/ Checkpoint \/ Drift \/ RealignCohort \/ BarrierDetached
  \/ BarrierPrepared
Hub(h) ==
  \/ Prepare(h) \/ Suspended(h) \/ Connected(h) \/ ConnectFails(h)
  \/ Slow(h) \/ WriterFails(h) \/ ReceiverDies(h) \/ NoLongerEligible(h)
  \/ Leaves(h) \/ Comes(h)
  \/ \E kind \in Kinds : Claim(h, kind) \/ Unclaim(h, kind)
  \/ \E d \in detach[h] : Closed(h, d)
  \/ Run(h) \/ \E i \in DOMAIN pending[h] : TimesOut(h, pending[h][i])

ReceiversNext == Stream \/ Barrier \/ \E h \in Hubs : Hub(h)

ReceiversSpec == ReceiversInit /\ [][ReceiversNext]_rvars

\* Awaits end and commands run; hubs need not come back, nor claims end.
FairReceivers ==
  /\ ReceiversSpec /\ WF_rvars(stopping = "asked" /\ Quiet) /\ WF_rvars(Quieted)
  /\ WF_rvars(bc = "dead" /\ StopStream)
  /\ WF_rvars(StartStream) /\ WF_rvars(Prime) /\ WF_rvars(Primed)
  /\ WF_rvars(Checkpoint) /\ SF_rvars(RealignCohort)
  /\ WF_rvars(BarrierDetached) /\ WF_rvars(BarrierPrepared)
  /\ \A h \in Hubs :
       /\ WF_rvars(Prepare(h)) /\ WF_rvars(Suspended(h))
       /\ WF_rvars(Connected(h)) /\ WF_rvars(ConnectFails(h))
       /\ WF_rvars(WriterFails(h)) /\ WF_rvars(NoLongerEligible(h))
       /\ WF_rvars(\E d \in detach[h] : Closed(h, d))
       /\ WF_rvars(Run(h))

-----------------------------------------------------------------------------
(* Properties.                                                             *)

\* State is of its type; a hub serves the member's connection, or one that a call of
\* _detach_member is closing.
ReceiversOK ==
  /\ \A h \in Hubs :
       /\ writer[h] \in {"none", "ok", "broken"}
       /\ prepare[h] \in {"no", "suspend", "start", "connect", "fail"}
       /\ claims[h] \subseteq Kinds
       /\ \A d \in detach[h] : d.by \in Callers /\ d.at \in {"close", "command", "late"}
       /\ receiver[h] = "serving" <=> writer[h] = "ok"
       /\ receiver[h] = "closing" => \E d \in detach[h] : d.conn /\ d.at = "close"
       /\ admitted[h] => writer[h] # "none"
  /\ cohort \subseteq Hubs /\ burst \subseteq Hubs /\ aligned \subseteq Hubs

Over == ~desired /\ stopping = "no" /\ ~Locked

\* Once the claim of a sound has returned, its hub is connected to the group no more
\* and is not prepared for it, whatever preparation, quarantine, barrier or restart
\* was under way (async_claim_sound, "Give an integration sound absolute priority on
\* exactly one hub"); nor is any hub after a Stop.
LetGo ==
  \A h \in Hubs :
    /\ "sound" \in claims[h] /\ ~Detaching(h, "sound")
         => writer[h] = "none" /\ prepare[h] = "no" /\ receiver[h] # "serving"
    /\ Over => writer[h] = "none" /\ prepare[h] = "no"

\* All that plays plays in step: a ready member was connected anew for the newest
\* common prefill and took it (media_group.py:2154, "No independently primed receiver
\* is admitted mid-timeline"), but for a hub that did not answer when the barrier began.
InStep == ReadyMembers \subseteq aligned \cup away

\* Violated (GroupReceiversStop.cfg).  After a Stop, when all is done on the hubs that
\* answer, no group receiver runs there (CHANGELOG.md:124, "An in-flight group
\* preparation still requires remote cleanup"): it would hold the hub's audio device.
StopLeavesNothing ==
  \A h \in online : Over /\ detach[h] = {} /\ pending[h] = <<>> => receiver[h] = "none"

\* While the group plays, a hub that is there and not taken is admitted again and
\* again, after faults of its own or of others, unless a Play failed.
Rejoins ==
  \A h \in Hubs : []<>(desired /\ fresh /\ Eligible(h) => h \in ReadyMembers)
=============================================================================
