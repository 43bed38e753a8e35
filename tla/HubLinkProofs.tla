---------------------------- MODULE HubLinkProofs ----------------------------
(***************************************************************************)
(* For any number of outages, saved settings, faults and messages on their *)
(* way: the link to a hub keeps its types, forgets no refresh a message    *)
(* asked for, and stores no reading of an earlier link.                    *)
(*                                                                         *)
(* The reading is stored two awaits after it was started.  What makes it   *)
(* one of this link is that a link is opened by a boot that was seen       *)
(* (proved), that boots only grow, and that a reader started for an        *)
(* earlier link carries a smaller generation (ReaderInv).                  *)
(***************************************************************************)
EXTENDS HubLink, SequenceTheorems, TLAPS

HubTypes ==
  /\ up \in BOOLEAN /\ boot \in Boots /\ conf \in 0..MaxSaves
  /\ agent \in {"none", "down", "up"} /\ (agent = "up" => up)

Messages == [kind : {"state", "online", "offline"}, retain : BOOLEAN]

BrokerTypes ==
  /\ session \in BOOLEAN /\ link \in BOOLEAN /\ retained \in {"none", "online", "offline"}
  /\ inbox \in Seq(Messages)

IOTypes ==
  /\ zigbee_role \in {"router", "coordinator"}
  /\ available \in BOOLEAN /\ confirmed \in BOOLEAN /\ refresh_pending \in BOOLEAN

\* A refresh that was asked for is under way or comes, and what it found or has proved is a
\* boot the hub has had.
RefreshInv ==
  /\ refresh \in [Refreshes -> Steps] /\ refresh["watchdog"] # "again"
  /\ refresh_pending => refresh["push"] # "idle"
  /\ \A r \in Refreshes : refresh[r] = "load" => zigbee_role = "router"
  /\ found \in [Refreshes -> 0..boot] /\ proved \in 0..boot
  /\ generation \in Nat /\ was_online \in BOOLEAN /\ last_update_success \in BOOLEAN

\* A reader of this link that has read anything has read a boot that is not older than it.
ReaderInv ==
  /\ reading \in Boots \cup {FromAgent}
  /\ reader \in [generation : Nat, boot : Boots, at : {"none", "read", "done"}]
  /\ reader.generation <= generation
  /\ reader.boot > 0 /\ reader.generation = generation => reader.boot >= proved

\* One save at a time: the revision it stores is the next one.
SharedTypes ==
  /\ revision \in 0..MaxSaves /\ saving \in BOOLEAN
  /\ saving => revision < MaxSaves

Targets == [revision : Nat, generation : Nat]
Reached(target) == target \in Targets /\ target.revision <= revision /\ target.generation <= generation

SyncInv ==
  /\ sync \in [target : Targets, at : {"none", "apply", "topic"}]
  /\ Reached(sync.target) /\ Reached(applied)
  /\ sync # NoSync => zigbee_role = "router"
  /\ retry \in BOOLEAN
  /\ mqtt_sync_state \in
       {"not_configured", "not_used", "offline", "pending", "applied", "failed"}

HubInv == /\ HubTypes /\ BrokerTypes /\ IOTypes /\ RefreshInv /\ ReaderInv
          /\ SharedTypes /\ SyncInv

Groups == <<hub, broker, zigbee_role, io, refreshing, readings, shared, syncing>>

LEMMA Constants == MaxOutages \in Nat /\ MaxSaves \in Nat
BY HubLinkConstants

-----------------------------------------------------------------------------
(* The hub, its agent and the broker.                                      *)

LEMMA InitHubInv == Init => HubInv
<1> SUFFICES ASSUME Init PROVE HubInv
  OBVIOUS
<1> USE Constants
<1>1. HubTypes
  <2>1. boot \in Boots /\ conf \in 0..MaxSaves /\ agent \in {"none", "down"}
    BY HubLinkConstants DEF Init, Boots
  <2>2. up \in BOOLEAN
    BY DEF Init
  <2>3. QED
    BY <2>1, <2>2 DEF HubTypes
<1>2. BrokerTypes
  <2>1. session \in BOOLEAN /\ link \in BOOLEAN
    BY DEF Init
  <2>2. retained = "none" /\ inbox = <<>>
    BY DEF Init
  <2>3. QED
    BY <2>1, <2>2 DEF BrokerTypes
<1>3. IOTypes
  <2>1. available \in BOOLEAN /\ refresh_pending \in BOOLEAN
    BY DEF Init
  <2>2. confirmed \in BOOLEAN
    BY DEF Init
  <2>3. zigbee_role \in {"router", "coordinator"}
    BY DEF Init
  <2>4. QED
    BY <2>1, <2>2, <2>3 DEF IOTypes
<1>4. RefreshInv
  <2>1. was_online \in BOOLEAN /\ last_update_success \in BOOLEAN /\ ~refresh_pending
    BY DEF Init
  <2>2. /\ refresh = [r \in Refreshes |-> "idle"] /\ found = [r \in Refreshes |-> 0]
        /\ boot = 1 /\ proved = 0 /\ generation = 0
    BY DEF Init
  <2>3. refresh \in [Refreshes -> Steps] /\ \A r \in Refreshes : refresh[r] = "idle"
    BY <2>2 DEF Steps
  <2>4. found \in [Refreshes -> 0..boot] /\ proved \in 0..boot
    BY <2>2
  <2>5. QED
    BY <2>1, <2>2, <2>3, <2>4 DEF RefreshInv, Refreshes
<1>5. ReaderInv
  BY DEF Init, ReaderInv, NoReading, NoReader, Boots
<1>6. SharedTypes
  <2>1. saving \in BOOLEAN
    BY DEF Init
  <2>2. QED
    BY <2>1 DEF Init, SharedTypes
<1>7. SyncInv
  <2>1. retry \in BOOLEAN
    BY DEF Init
  <2>2. sync = NoSync /\ applied = NoTarget /\ mqtt_sync_state = "not_configured"
        /\ revision = 0 /\ generation = 0
    BY DEF Init
  <2>3. QED
    BY <2>1, <2>2 DEF SyncInv, Reached, Targets, NoSync, NoTarget
<1>8. QED
  BY <1>1, <1>2, <1>3, <1>4, <1>5, <1>6, <1>7 DEF HubInv

\* What a group of variables that a step leaves alone is worth.
LEMMA Frames ==
  /\ HubTypes /\ UNCHANGED hub => HubTypes'
  /\ BrokerTypes /\ UNCHANGED broker => BrokerTypes'
  /\ IOTypes /\ UNCHANGED <<zigbee_role, io>> => IOTypes'
  /\ RefreshInv /\ UNCHANGED <<zigbee_role, boot, refresh_pending, refreshing>> => RefreshInv'
  /\ ReaderInv /\ UNCHANGED <<readings, generation, proved>> => ReaderInv'
  /\ SharedTypes /\ UNCHANGED shared => SharedTypes'
  /\ SyncInv /\ UNCHANGED <<zigbee_role, revision, generation, syncing>> => SyncInv'
<1>1. HubTypes /\ UNCHANGED hub => HubTypes'
  BY DEF HubTypes, hub
<1>2. BrokerTypes /\ UNCHANGED broker => BrokerTypes'
  BY DEF BrokerTypes, broker
<1>3. IOTypes /\ UNCHANGED <<zigbee_role, io>> => IOTypes'
  BY DEF IOTypes, io
<1>4. RefreshInv /\ UNCHANGED <<zigbee_role, boot, refresh_pending, refreshing>> => RefreshInv'
  BY DEF RefreshInv, refreshing
<1>5. ReaderInv /\ UNCHANGED <<readings, generation, proved>> => ReaderInv'
  BY DEF ReaderInv, readings
<1>6. SharedTypes /\ UNCHANGED shared => SharedTypes'
  BY DEF SharedTypes, shared
<1>7. SyncInv /\ UNCHANGED <<zigbee_role, revision, generation, syncing>> => SyncInv'
  BY DEF SyncInv, Reached, syncing
<1>8. QED
  BY <1>1, <1>2, <1>3, <1>4, <1>5, <1>6, <1>7

\* Messages are delivered in order, or lost with the link.
LEMMA Delivering ==
  ASSUME BrokerTypes,
         NEW messages \in Seq(Messages),
         Deliver(messages), UNCHANGED link,
         session' \in BOOLEAN, retained' \in {"none", "online", "offline"}
  PROVE  BrokerTypes'
BY DEF BrokerTypes, Deliver

LEMMA MessageType ==
  ASSUME NEW k \in {"state", "online", "offline"}, NEW b \in BOOLEAN
  PROVE  Message(k, b) \in Messages
BY DEF Message, Messages

LEMMA ShortSequences ==
  ASSUME NEW S, NEW a \in S, NEW b \in S
  PROVE  <<a>> \in Seq(S) /\ <<a, b>> \in Seq(S)
OBVIOUS

LEMMA AgentConnectsKeeps == HubInv /\ AgentConnects => HubInv'
<1> SUFFICES ASSUME HubInv, AgentConnects PROVE HubInv'
  OBVIOUS
<1>1. HubTypes'
  BY DEF AgentConnects, HubInv, HubTypes
<1>2. BrokerTypes'
  <2> DEFINE before == IF session THEN <<Message("offline", FALSE)>> ELSE <<>>
  <2>1. before \in Seq(Messages) /\ <<Message("online", FALSE), Message("state", FALSE)>> \in Seq(Messages)
    <3>1. /\ Message("offline", FALSE) \in Messages /\ Message("online", FALSE) \in Messages
          /\ Message("state", FALSE) \in Messages
      BY MessageType
    <3>2. CASE session
      BY <3>1, <3>2, ShortSequences
    <3>3. CASE ~session
      <4>1. before = <<>> /\ <<>> \in Seq(Messages)
        BY <3>3
      <4>2. QED
        BY <3>1, <4>1, ShortSequences
    <3>4. QED
      BY <3>2, <3>3
  <2>2. before \o <<Message("online", FALSE), Message("state", FALSE)>> \in Seq(Messages)
    <3> HIDE DEF before
    <3>1. QED
      BY <2>1, ConcatProperties
  <2>3. /\ Deliver(before \o <<Message("online", FALSE), Message("state", FALSE)>>)
        /\ session' = TRUE /\ retained' = "online" /\ link' = link
    BY DEF AgentConnects, Announce
  <2>4. session' \in BOOLEAN
    BY <2>3
  <2>5. QED
    BY <2>2, <2>3, <2>4, Delivering DEF HubInv
<1>3. QED
  BY <1>1, <1>2, Frames DEF AgentConnects, HubInv, hub, broker, io, refreshing, readings, shared, syncing

LEMMA AgentDiesKeeps == HubInv /\ AgentDies => HubInv'
<1> SUFFICES ASSUME HubInv, AgentDies PROVE HubInv'
  OBVIOUS
<1>1. HubTypes'
  BY DEF AgentDies, HubInv, HubTypes
<1>2. QED
  BY <1>1, Frames DEF AgentDies, HubInv, hub, broker, io, refreshing, readings, shared, syncing

LEMMA BrokerNoticesKeeps == HubInv /\ BrokerNotices => HubInv'
<1> SUFFICES ASSUME HubInv, BrokerNotices PROVE HubInv'
  OBVIOUS
<1>1. BrokerTypes'
  <2>1. session' \in BOOLEAN
    BY DEF BrokerNotices
  <2>2. Deliver(<<Message("offline", FALSE)>>) /\ retained' = "offline" /\ link' = link
    BY DEF BrokerNotices
  <2>3. <<Message("offline", FALSE)>> \in Seq(Messages)
    BY MessageType, ShortSequences
  <2>4. QED
    BY <2>1, <2>2, <2>3, Delivering DEF HubInv
<1>2. QED
  BY <1>1, Frames DEF BrokerNotices, HubInv, hub, broker, io, refreshing, readings, shared, syncing

LEMMA HubDownKeeps == HubInv /\ HubDown => HubInv'
<1> SUFFICES ASSUME HubInv, HubDown PROVE HubInv'
  OBVIOUS
<1>1. HubTypes'
  <2>1. up' \in BOOLEAN
    BY DEF HubDown
  <2>2. agent' \in {"none", "down"}
    BY DEF HubDown
  <2>3. boot' = boot /\ conf' = conf
    BY DEF HubDown
  <2>4. QED
    BY <2>1, <2>2, <2>3 DEF HubInv, HubTypes
<1>2. QED
  BY <1>1, Frames DEF HubDown, HubInv, hub, broker, io, refreshing, readings, shared, syncing

LEMMA HubUpKeeps == HubInv /\ HubUp => HubInv'
<1> SUFFICES ASSUME HubInv, HubUp PROVE HubInv'
  OBVIOUS
<1>1. HubTypes'
  <2>1. up' = TRUE /\ up' \in BOOLEAN
    BY DEF HubUp
  <2>2. boot' \in Boots
    BY HubLinkConstants DEF HubUp, HubInv, HubTypes, Boots
  <2>3. conf' \in 0..MaxSaves
    BY HubLinkConstants DEF HubUp, HubInv, HubTypes
  <2>4. agent' = agent
    BY DEF HubUp
  <2>5. QED
    BY <2>1, <2>2, <2>3, <2>4 DEF HubInv, HubTypes
<1>2. RefreshInv'
  <2>1. 0..boot \subseteq 0..boot'
    BY DEF HubUp, HubInv, HubTypes, Boots
  <2>2. UNCHANGED <<refresh, refresh_pending, zigbee_role, found, proved, generation,
                     was_online, last_update_success>>
    BY DEF HubUp, io, refreshing
  <2>3. QED
    BY <2>1, <2>2 DEF HubInv, RefreshInv
<1>3. QED
  BY <1>1, <1>2, Frames DEF HubUp, HubInv, hub, broker, io, refreshing, readings, shared, syncing

LEMMA LinkDownKeeps == HubInv /\ LinkDown => HubInv'
<1> SUFFICES ASSUME HubInv, LinkDown PROVE HubInv'
  OBVIOUS
<1>1. BrokerTypes'
  <2>1. link' \in BOOLEAN
    BY DEF LinkDown
  <2>2. inbox' = <<>> /\ UNCHANGED <<session, retained>>
    BY DEF LinkDown
  <2>3. QED
    BY <2>1, <2>2 DEF HubInv, BrokerTypes
<1>2. QED
  BY <1>1, Frames DEF LinkDown, HubInv, hub, broker, io, refreshing, readings, shared, syncing

LEMMA LinkUpKeeps == HubInv /\ LinkUp => HubInv'
<1> SUFFICES ASSUME HubInv, LinkUp PROVE HubInv'
  OBVIOUS
<1>1. BrokerTypes'
  <2>1. link' \in BOOLEAN
    BY DEF LinkUp
  <2>2. UNCHANGED <<session, retained>>
    BY DEF LinkUp
  <2>3. inbox' \in Seq(Messages)
    <3>1. CASE retained = "none"
      BY <3>1 DEF LinkUp
    <3>2. CASE retained # "none"
      <4>1. retained \in {"state", "online", "offline"}
        BY <3>2 DEF HubInv, BrokerTypes
      <4>2. Message("state", TRUE) \in Messages /\ Message(retained, TRUE) \in Messages
        BY <4>1, MessageType
      <4>3. inbox' = <<Message("state", TRUE), Message(retained, TRUE)>>
        BY <3>2 DEF LinkUp
      <4>4. QED
        BY <4>2, <4>3, ShortSequences
    <3>3. QED
      BY <3>1, <3>2
  <2>4. QED
    BY <2>1, <2>2, <2>3 DEF HubInv, BrokerTypes
<1>2. QED
  BY <1>1, Frames DEF LinkUp, HubInv, hub, broker, io, refreshing, readings, shared, syncing

-----------------------------------------------------------------------------
(* The refreshes.                                                          *)

\* What a refresh does to the link: a link is opened with a generation of its own by a boot the
\* hub has had, and readers of the links before it stay behind.
LinkStep ==
  /\ generation' \in Nat /\ generation <= generation'
  /\ proved' \in 0..boot /\ was_online' \in BOOLEAN /\ last_update_success' \in BOOLEAN
  /\ ReaderInv'

\* Where a refresh goes on.
Continues(r) ==
  \E step \in Steps :
    /\ At(r, step) /\ (r = "watchdog" => step # "again")
    /\ (r = "push" /\ refresh_pending' => step # "idle")
    /\ (step = "load" => zigbee_role = "router")

\* A refresh ends at its await, or starts again if a message came during it.
LEMMA ReturnContinues ==
  ASSUME NEW r \in Refreshes, Return(r),
         refresh_pending' \in BOOLEAN, refresh_pending' => refresh_pending
  PROVE  Continues(r)
<1>1. CASE r = "push" /\ refresh_pending
  BY <1>1 DEF Return, Continues, Steps
<1>2. CASE ~(r = "push" /\ refresh_pending)
  BY <1>2 DEF Return, Continues, Steps
<1>3. QED
  BY <1>1, <1>2

\* The steps of a refresh keep the invariant, given what they do to the link, to the place of the
\* refresh and to the synchronisation.
LEMMA RefreshKeeps ==
  ASSUME HubInv, NEW r \in Refreshes, LinkStep, Continues(r), SyncInv',
         UNCHANGED <<outside, available, confirmed>>,
         refresh_pending' \in BOOLEAN, refresh_pending' => refresh_pending,
         found' \in [Refreshes -> 0..boot]
  PROVE  HubInv'
<1>1. HubTypes' /\ BrokerTypes' /\ SharedTypes'
  BY Frames DEF HubInv, outside, hub, broker, shared
<1>2. IOTypes'
  BY DEF HubInv, IOTypes, outside
<1>3. RefreshInv'
  <2>1. PICK step \in Steps :
            /\ At(r, step) /\ (r = "watchdog" => step # "again")
            /\ (r = "push" /\ refresh_pending' => step # "idle")
            /\ (step = "load" => zigbee_role = "router")
    BY DEF Continues
  <2>2. /\ refresh \in [Refreshes -> Steps] /\ refresh["watchdog"] # "again"
        /\ refresh_pending => refresh["push"] # "idle"
        /\ \A q \in Refreshes : refresh[q] = "load" => zigbee_role = "router"
    BY DEF HubInv, RefreshInv
  <2>3. refresh' = [refresh EXCEPT ![r] = step]
    BY <2>1 DEF At
  <2>4. refresh' \in [Refreshes -> Steps]
    BY <2>2, <2>3
  <2>5. refresh'["watchdog"] # "again"
    BY <2>1, <2>2, <2>3 DEF Refreshes
  <2>6. refresh_pending' => refresh'["push"] # "idle"
    BY <2>1, <2>2, <2>3 DEF Refreshes
  <2>7. \A q \in Refreshes : refresh'[q] = "load" => zigbee_role' = "router"
    BY <2>1, <2>2, <2>3 DEF outside
  <2>8. found' \in [Refreshes -> 0..boot'] /\ proved' \in 0..boot'
    BY DEF LinkStep, outside, hub
  <2>9. QED
    BY <2>4, <2>5, <2>6, <2>7, <2>8 DEF RefreshInv, LinkStep
<1>4. QED
  BY <1>1, <1>2, <1>3 DEF HubInv, LinkStep

\* The synchronisation that a refresh starts is for the settings and the link of this moment.
LEMMA ScheduleKeeps ==
  ASSUME HubInv, Schedule, UNCHANGED <<applied, retry, revision, zigbee_role>>,
         zigbee_role = "router", generation' \in Nat, generation <= generation'
  PROVE  SyncInv'
<1>1. /\ revision \in Nat /\ generation \in Nat
      /\ SyncInv
  BY Constants DEF HubInv, SharedTypes, RefreshInv
<1>2. Reached(applied)' /\ retry' \in BOOLEAN
  BY <1>1 DEF SyncInv, Reached, Targets
<1>3. CASE mqtt_sync_state' = mqtt_sync_state /\ sync' = sync
  BY <1>1, <1>2, <1>3 DEF SyncInv, Reached, Targets
<1>4. CASE /\ mqtt_sync_state' = "pending"
           /\ sync' = [target |-> Target, at |-> IF revision > 0 THEN "apply" ELSE "topic"]
  <2>1. Target \in Targets /\ Target.revision <= revision' /\ Target.generation <= generation'
    BY <1>1 DEF Target, Targets
  <2>2. sync' \in [target : Targets, at : {"none", "apply", "topic"}] /\ sync'.target = Target
    BY <1>4, <2>1
  <2>3. QED
    BY <1>2, <1>4, <2>1, <2>2 DEF SyncInv, Reached
<1>5. QED
  BY <1>3, <1>4 DEF Schedule

\* A synchronisation that goes on is not newer than the link.
LEMMA SyncStays ==
  ASSUME HubInv, UNCHANGED <<sync, applied, retry, revision, zigbee_role>>,
         mqtt_sync_state' \in {"not_used", "offline", mqtt_sync_state},
         generation' \in Nat, generation <= generation'
  PROVE  SyncInv'
<1>1. generation \in Nat /\ revision \in Nat
  BY Constants DEF HubInv, RefreshInv, SharedTypes
<1>2. Reached(sync.target)' /\ Reached(applied)'
  BY <1>1 DEF HubInv, SyncInv, Reached, Targets
<1>3. QED
  BY <1>1, <1>2 DEF HubInv, SyncInv

\* Whatever a refresh finds that is online, its link was opened by a boot that was seen.
LEMMA OnlineOpens ==
  ASSUME HubInv, NEW r \in Refreshes, NEW seen \in 0..boot, Online(r, seen),
         last_update_success' \in BOOLEAN, UNCHANGED boot
  PROVE  LinkStep
<1>1. /\ generation \in Nat /\ proved \in 0..boot /\ boot \in Nat /\ ReaderInv
  BY HubLinkConstants DEF HubInv, RefreshInv, HubTypes, Boots
<1>2. was_online' \in BOOLEAN
  BY DEF Online
<1>3. /\ generation' = (IF was_online THEN generation ELSE generation + 1)
      /\ proved' = (IF was_online THEN proved ELSE seen)
      /\ StartReader(~was_online) /\ reading' = reading
  BY DEF Online
<1>4. /\ generation' \in Nat /\ generation <= generation' /\ proved' \in 0..boot
      /\ (was_online => generation' = generation /\ proved' = proved)
      /\ (~was_online => generation < generation')
  BY <1>1, <1>3
<1>5. reader' \in {reader, [generation |-> generation', boot |-> 0, at |-> "read"], NoReader}
  BY <1>3 DEF StartReader
<1>6. ReaderInv'
  <2>1. CASE reader' = reader
    BY <1>1, <1>3, <1>4, <2>1 DEF ReaderInv, Boots
  <2>2. CASE reader' = [generation |-> generation', boot |-> 0, at |-> "read"]
    <3>1. 0 \in Boots
      BY HubLinkConstants DEF Boots
    <3>2. QED
      BY <1>1, <1>3, <1>4, <2>2, <3>1 DEF ReaderInv
  <2>3. CASE reader' = NoReader
    <3>1. 0 \in Boots
      BY HubLinkConstants DEF Boots
    <3>2. QED
      BY <1>1, <1>3, <1>4, <2>3, <3>1 DEF ReaderInv, NoReader
  <2>4. QED
    BY <1>5, <2>1, <2>2, <2>3
<1>7. QED
  BY <1>2, <1>4, <1>6 DEF LinkStep

LEMMA OnlineKeeps ==
  ASSUME HubInv, NEW r \in Refreshes, NEW seen \in 0..boot, Online(r, seen),
         UNCHANGED <<outside, available, confirmed>>,
         refresh_pending' \in BOOLEAN, refresh_pending' => refresh_pending,
         found' \in [Refreshes -> 0..boot]
  PROVE  HubInv'
<1>1. UNCHANGED <<boot, revision, zigbee_role>>
  BY DEF outside, hub, shared
<1>2. last_update_success' \in BOOLEAN
  <2>1. last_update_success' = TRUE \/ last_update_success' = last_update_success
    BY DEF Online, Finish
  <2>2. QED
    BY <2>1 DEF HubInv, RefreshInv
<1>3. LinkStep
  BY <1>1, <1>2, OnlineOpens
<1>4. generation' \in Nat /\ generation <= generation'
  BY <1>3 DEF LinkStep
<1>5. Continues(r) /\ SyncInv'
  <2>1. CASE /\ zigbee_role = "coordinator" /\ Return(r)
             /\ mqtt_sync_state' = "not_used" /\ UNCHANGED <<sync, applied, retry>>
    BY <1>1, <1>4, <2>1, ReturnContinues, SyncStays
  <2>2. CASE zigbee_role = "router" /\ ~saving /\ Finish(r)
    BY <1>1, <1>4, <2>2, ReturnContinues, ScheduleKeeps DEF Finish
  <2>3. CASE zigbee_role = "router" /\ saving /\ At(r, "load") /\ UNCHANGED syncing
    <3>1. Continues(r)
      BY <2>3 DEF Continues, Steps
    <3>2. SyncInv'
      BY <1>1, <1>4, <2>3, SyncStays DEF syncing
    <3>3. QED
      BY <3>1, <3>2
  <2>4. QED
    BY <2>1, <2>2, <2>3 DEF Online
<1>6. QED
  BY <1>3, <1>5, RefreshKeeps

LEMMA OfflineKeeps ==
  ASSUME HubInv, NEW r \in Refreshes, Offline(r),
         UNCHANGED <<outside, available, confirmed>>,
         refresh_pending' \in BOOLEAN, refresh_pending' => refresh_pending,
         found' \in [Refreshes -> 0..boot]
  PROVE  HubInv'
<1>1. /\ UNCHANGED <<revision, zigbee_role, generation, proved, readings, sync, applied, retry>>
      /\ mqtt_sync_state' = "offline" /\ Return(r)
  BY DEF outside, shared, Offline
<1>2. generation \in Nat /\ proved \in 0..boot
  BY DEF HubInv, RefreshInv
<1>3. LinkStep
  <2>1. ReaderInv'
    BY <1>1, Frames DEF HubInv
  <2>2. was_online' \in BOOLEAN
    BY DEF Offline
  <2>3. last_update_success' \in BOOLEAN
    BY DEF Offline
  <2>4. QED
    BY <1>1, <1>2, <2>1, <2>2, <2>3 DEF LinkStep
<1>4. SyncInv'
  BY <1>1, <1>2, SyncStays
<1>5. Continues(r)
  BY <1>1, ReturnContinues
<1>6. QED
  BY <1>3, <1>4, <1>5, RefreshKeeps

\* A refresh that only moves on, to its check, from it or to its end.
LEMMA MovesOnKeeps ==
  ASSUME HubInv, NEW r \in Refreshes, Continues(r),
         UNCHANGED <<outside, available, confirmed, was_online, generation, last_update_success,
                     proved, readings, syncing>>,
         refresh_pending' \in BOOLEAN, refresh_pending' => refresh_pending,
         found' \in [Refreshes -> 0..boot]
  PROVE  HubInv'
<1>1. LinkStep
  <2>1. ReaderInv'
    BY Frames DEF HubInv
  <2>2. QED
    BY <2>1 DEF LinkStep, HubInv, RefreshInv
<1>2. SyncInv'
  BY Frames DEF HubInv, outside, shared
<1>3. QED
  BY <1>1, <1>2, RefreshKeeps

LEMMA BeginKeeps ==
  ASSUME HubInv, NEW r \in Refreshes, Begin(r), UNCHANGED <<outside, available, confirmed, found>>,
         refresh_pending' \in BOOLEAN, refresh_pending' => refresh_pending
  PROVE  HubInv'
<1>1. found' \in [Refreshes -> 0..boot] /\ 0 \in 0..boot
  BY HubLinkConstants DEF HubInv, RefreshInv, HubTypes, Boots
<1>2. CASE available
  BY <1>1, <1>2, OnlineKeeps DEF Begin
<1>3. CASE ~available
  <2>1. Continues(r)
    BY <1>3 DEF Begin, Continues, Steps
  <2>2. QED
    BY <1>1, <1>3, <2>1, MovesOnKeeps DEF Begin
<1>4. QED
  BY <1>2, <1>3

\* The variables of a refresh that is not the one of a message are as they were.
LEMMA PendingType == HubInv /\ UNCHANGED io
                     => /\ refresh_pending' \in BOOLEAN /\ (refresh_pending' => refresh_pending)
                        /\ UNCHANGED <<available, confirmed>>
BY DEF HubInv, IOTypes, io

LEMMA WatchdogWakesKeeps == HubInv /\ WatchdogWakes => HubInv'
<1> SUFFICES ASSUME HubInv, WatchdogWakes PROVE HubInv'
  OBVIOUS
<1>1. "watchdog" \in Refreshes
  BY DEF Refreshes
<1>2. QED
  BY <1>1, PendingType, BeginKeeps DEF WatchdogWakes

LEMMA CheckedKeeps == ASSUME HubInv, NEW r \in Refreshes, Checked(r) PROVE HubInv'
<1>1. Continues(r)
  BY DEF Checked, Continues, Steps
<1>2. found' \in [Refreshes -> 0..boot]
  <2>1. found \in [Refreshes -> 0..boot] /\ boot \in Nat
    BY HubLinkConstants DEF HubInv, RefreshInv, HubTypes, Boots
  <2>2. found' = [found EXCEPT ![r] = IF up THEN boot ELSE 0]
    BY DEF Checked
  <2>3. (IF up THEN boot ELSE 0) \in 0..boot
    BY <2>1
  <2>4. QED
    BY <2>1, <2>2, <2>3
<1>3. QED
  BY <1>1, <1>2, PendingType, MovesOnKeeps DEF Checked

LEMMA AnsweredKeeps == ASSUME HubInv, NEW r \in Refreshes, Answered(r) PROVE HubInv'
<1>1. found[r] \in 0..boot /\ found' \in [Refreshes -> 0..boot]
  <2>1. found \in [Refreshes -> 0..boot] /\ boot \in Nat
    BY HubLinkConstants DEF HubInv, RefreshInv, HubTypes, Boots
  <2>2. QED
    BY <2>1 DEF Answered
<1>2. CASE found[r] > 0
  BY <1>1, <1>2, PendingType, OnlineKeeps DEF Answered
<1>3. CASE ~(found[r] > 0)
  BY <1>1, <1>3, PendingType, OfflineKeeps DEF Answered
<1>4. QED
  BY <1>2, <1>3

LEMMA LoadedKeeps == ASSUME HubInv, NEW r \in Refreshes, Loaded(r) PROVE HubInv'
<1>1. zigbee_role = "router"
  BY DEF HubInv, RefreshInv, Loaded
<1>2. /\ generation' = generation /\ generation \in Nat /\ proved' = proved /\ proved \in 0..boot
      /\ UNCHANGED <<revision, zigbee_role>>
  BY DEF Loaded, HubInv, RefreshInv, outside, shared
<1>3. Return(r) /\ Schedule /\ UNCHANGED <<applied, retry, readings, found>>
  BY DEF Loaded, Finish
<1>4. LinkStep
  <2>1. ReaderInv'
    BY <1>2, <1>3, Frames DEF HubInv
  <2>2. was_online' \in BOOLEAN
    BY DEF Loaded, HubInv, RefreshInv
  <2>3. last_update_success' \in BOOLEAN
    BY DEF Loaded, Finish
  <2>4. QED
    BY <1>2, <2>1, <2>2, <2>3 DEF LinkStep
<1>5. SyncInv'
  BY <1>1, <1>2, <1>3, ScheduleKeeps
<1>6. UNCHANGED io
  BY DEF Loaded
<1>7. Continues(r)
  BY <1>3, <1>6, PendingType, ReturnContinues
<1>8. found' \in [Refreshes -> 0..boot]
  BY <1>3 DEF HubInv, RefreshInv
<1>9. UNCHANGED outside
  BY DEF Loaded
<1>10. QED
  BY <1>4, <1>5, <1>6, <1>7, <1>8, <1>9, PendingType, RefreshKeeps

LEMMA PushRunsKeeps == HubInv /\ PushRuns => HubInv'
<1> SUFFICES ASSUME HubInv, PushRuns PROVE HubInv'
  OBVIOUS
<1>1. "push" \in Refreshes
  BY DEF Refreshes
<1>2. refresh_pending' \in BOOLEAN /\ ~refresh_pending'
  BY DEF PushRuns
<1>3. UNCHANGED <<outside, available, confirmed, found>> /\ found' \in [Refreshes -> 0..boot]
  BY DEF PushRuns, HubInv, RefreshInv
<1>4. CASE Begin("push")
  BY <1>1, <1>2, <1>3, <1>4, BeginKeeps
<1>5. CASE /\ At("push", "idle")
           /\ UNCHANGED <<was_online, generation, last_update_success, proved, readings, syncing>>
  <2>1. Continues("push")
    BY <1>2, <1>5 DEF Continues, Steps
  <2>2. QED
    BY <1>1, <1>2, <1>3, <1>5, <2>1, MovesOnKeeps
<1>6. QED
  BY <1>4, <1>5 DEF PushRuns

LEMMA ReceiveKeeps == HubInv /\ Receive => HubInv'
<1> SUFFICES ASSUME HubInv, Receive PROVE HubInv'
  OBVIOUS
<1>1. inbox \in Seq(Messages) /\ inbox # <<>> /\ Head(inbox) \in Messages
  BY DEF HubInv, BrokerTypes, Receive
<1>2. BrokerTypes'
  <2>1. Tail(inbox) \in Seq(Messages)
    BY <1>1
  <2>2. QED
    BY <2>1 DEF Receive, HubInv, BrokerTypes
<1>3. /\ available' \in BOOLEAN /\ confirmed' \in BOOLEAN
      /\ reading' \in {reading, NoReading, FromAgent}
  <2>1. CASE StateMessage(Head(inbox))
    BY <1>1, <2>1 DEF StateMessage, MarkSeen, HubInv, IOTypes
  <2>2. CASE AvailabilityMessage(Head(inbox))
    BY <1>1, <2>2 DEF AvailabilityMessage, HubInv, IOTypes
  <2>3. QED
    BY <2>1, <2>2 DEF Receive
<1>4. IOTypes'
  <2>1. refresh_pending' \in BOOLEAN
    BY DEF Receive
  <2>2. zigbee_role' = zigbee_role
    BY DEF Receive
  <2>3. QED
    BY <1>3, <2>1, <2>2 DEF HubInv, IOTypes
<1>5. RefreshInv'
  <2>1. /\ refresh \in [Refreshes -> Steps] /\ "push" \in Refreshes
        /\ refresh' = [refresh EXCEPT !["push"] = IF @ = "idle" THEN "again" ELSE @]
    BY DEF Receive, HubInv, RefreshInv, Refreshes
  <2>2. /\ refresh' \in [Refreshes -> Steps] /\ refresh'["push"] # "idle"
        /\ refresh'["watchdog"] = refresh["watchdog"]
        /\ \A r \in Refreshes : refresh'[r] = "load" => refresh[r] = "load"
    BY <2>1 DEF Refreshes, Steps
  <2>3. UNCHANGED <<zigbee_role, found, boot, proved, generation, was_online,
                     last_update_success>>
    BY DEF Receive, hub
  <2>4. QED
    BY <2>2, <2>3 DEF HubInv, RefreshInv
<1>6. ReaderInv'
  <2>1. reading' \in Boots \cup {FromAgent}
    BY <1>3, HubLinkConstants DEF HubInv, ReaderInv, NoReading, Boots
  <2>2. UNCHANGED <<reader, generation, proved>>
    BY DEF Receive
  <2>3. QED
    BY <2>1, <2>2 DEF HubInv, ReaderInv
<1>7. HubTypes' /\ SharedTypes' /\ SyncInv'
  BY Frames DEF Receive, HubInv, shared
<1>8. QED
  BY <1>2, <1>4, <1>5, <1>6, <1>7 DEF HubInv

-----------------------------------------------------------------------------
(* The readings, the settings and the synchronisation.                     *)

LEMMA ReaderReadsKeeps == HubInv /\ ReaderReads => HubInv'
<1> SUFFICES ASSUME HubInv, ReaderReads PROVE HubInv'
  OBVIOUS
<1>1. PICK read \in {0} \cup {boot} : reader' = [reader EXCEPT !.boot = read, !.at = "done"]
  BY DEF ReaderReads
<1>2. ReaderInv'
  <2>1. /\ boot \in Boots /\ proved \in 0..boot /\ 0 \in Boots /\ ReaderInv
    BY HubLinkConstants DEF HubInv, HubTypes, RefreshInv, Boots
  <2>2. UNCHANGED <<reading, generation, proved>>
    BY DEF ReaderReads, refreshing
  <2>3. /\ reader' \in [generation : Nat, boot : Boots, at : {"none", "read", "done"}]
        /\ reader'.generation = reader.generation /\ reader'.boot = read
    BY <1>1, <2>1 DEF ReaderInv
  <2>4. read > 0 => read >= proved
    BY <2>1 DEF Boots
  <2>5. QED
    BY <2>1, <2>2, <2>3, <2>4 DEF ReaderInv
<1>3. QED
  BY <1>2, Frames DEF ReaderReads, HubInv, outside, hub, broker, io, refreshing, shared, syncing

LEMMA ReaderEndsKeeps == HubInv /\ ReaderEnds => HubInv'
<1> SUFFICES ASSUME HubInv, ReaderEnds PROVE HubInv'
  OBVIOUS
<1>1. /\ UNCHANGED <<outside, io, refresh, found, was_online, generation, proved, syncing>>
      /\ reader' = NoReader
      /\ (reading' = reader.boot /\ last_update_success' = TRUE)
         \/ UNCHANGED <<reading, last_update_success>>
  BY DEF ReaderEnds
<1>2. ReaderInv'
  <2>1. /\ generation \in Nat /\ 0 \in Boots /\ ReaderInv
    BY HubLinkConstants DEF HubInv, RefreshInv, Boots
  <2>2. reading' \in Boots \cup {FromAgent}
    BY <1>1, <2>1 DEF ReaderInv
  <2>3. QED
    BY <1>1, <2>1, <2>2 DEF ReaderInv, NoReader
<1>3. RefreshInv'
  <2>1. last_update_success' \in BOOLEAN
    <3>1. last_update_success' = TRUE \/ last_update_success' = last_update_success
      BY <1>1
    <3>2. QED
      BY <3>1 DEF HubInv, RefreshInv
  <2>2. UNCHANGED <<refresh, refresh_pending, zigbee_role, found, boot, proved, generation,
                     was_online>>
    BY <1>1 DEF outside, hub, io
  <2>3. QED
    BY <2>1, <2>2 DEF HubInv, RefreshInv
<1>4. QED
  BY <1>1, <1>2, <1>3, Frames DEF HubInv, outside, hub, broker, io, shared, syncing

LEMMA SaveBeginsKeeps == HubInv /\ SaveBegins => HubInv'
<1> SUFFICES ASSUME HubInv, SaveBegins PROVE HubInv'
  OBVIOUS
<1>1. SharedTypes'
  <2>1. saving' \in BOOLEAN
    BY DEF SaveBegins
  <2>2. QED
    BY <2>1 DEF SaveBegins, HubInv, SharedTypes
<1>2. QED
  BY <1>1, Frames DEF SaveBegins, HubInv, hub, broker, io, refreshing, readings, syncing

LEMMA SaveEndsKeeps == HubInv /\ SaveEnds => HubInv'
<1> SUFFICES ASSUME HubInv, SaveEnds PROVE HubInv'
  OBVIOUS
<1>1. SharedTypes'
  <2>1. saving' \in BOOLEAN /\ ~saving'
    BY DEF SaveEnds
  <2>2. revision' \in 0..MaxSaves
    BY Constants DEF SaveEnds, HubInv, SharedTypes
  <2>3. QED
    BY <2>1, <2>2 DEF SharedTypes
<1>2. SyncInv'
  <2>1. revision \in Nat /\ revision' \in Nat /\ revision <= revision'
    BY Constants DEF HubInv, SharedTypes, SaveEnds
  <2>2. UNCHANGED <<zigbee_role, generation, sync, applied, retry, mqtt_sync_state>>
    BY DEF SaveEnds, refreshing, syncing
  <2>3. Reached(sync.target)' /\ Reached(applied)'
    BY <2>1, <2>2 DEF HubInv, SyncInv, Reached, Targets
  <2>4. QED
    BY <2>2, <2>3 DEF HubInv, SyncInv
<1>3. QED
  BY <1>1, <1>2, Frames DEF SaveEnds, HubInv, hub, broker, io, refreshing, readings

LEMMA NoSyncType ==
  ASSUME HubInv, UNCHANGED <<revision, generation>>
  PROVE  Reached(NoTarget)' /\ NoSync \in [target : Targets, at : {"none", "apply", "topic"}]
BY Constants DEF HubInv, SharedTypes, RefreshInv, Reached, Targets, NoTarget, NoSync

\* A synchronisation that failed leaves what was applied before.
LEMMA SyncIsOver ==
  ASSUME HubInv, SyncFailed, UNCHANGED <<zigbee_role, revision, generation, applied>>
  PROVE  SyncInv'
<1>1. retry' \in BOOLEAN /\ sync' = NoSync /\ mqtt_sync_state' = "failed"
  BY DEF SyncFailed
<1>2. Reached(NoTarget)' /\ sync' \in [target : Targets, at : {"none", "apply", "topic"}]
  BY <1>1, NoSyncType
<1>3. sync'.target = NoTarget
  BY <1>1 DEF NoSync
<1>4. Reached(applied)'
  BY DEF HubInv, SyncInv, Reached
<1>5. QED
  BY <1>1, <1>2, <1>3, <1>4 DEF SyncInv, NoSync, Reached

LEMMA SyncAppliesKeeps == HubInv /\ SyncApplies => HubInv'
<1> SUFFICES ASSUME HubInv, SyncApplies PROVE HubInv'
  OBVIOUS
<1>1. sync.target.revision \in 0..MaxSaves
  BY Constants DEF HubInv, SyncInv, Reached, Targets, SharedTypes
<1>2. HubTypes'
  <2>1. conf' \in {conf, sync.target.revision}
    BY DEF SyncApplies
  <2>2. UNCHANGED <<up, boot, agent>>
    BY DEF SyncApplies
  <2>3. QED
    BY <1>1, <2>1, <2>2 DEF HubInv, HubTypes
<1>3. SyncInv'
  <2>1. UNCHANGED <<zigbee_role, revision, generation, applied>>
    BY DEF SyncApplies, refreshing, shared
  <2>2. CASE sync' = [sync EXCEPT !.at = "topic"] /\ UNCHANGED <<retry, mqtt_sync_state>>
    <3>1. /\ sync' \in [target : Targets, at : {"none", "apply", "topic"}]
          /\ sync'.target = sync.target
      BY <2>2 DEF HubInv, SyncInv
    <3>2. zigbee_role = "router"
      BY DEF SyncApplies, HubInv, SyncInv, NoSync
    <3>3. QED
      BY <2>1, <2>2, <3>1, <3>2 DEF HubInv, SyncInv, Reached
  <2>3. CASE SyncFailed
    BY <2>1, <2>3, SyncIsOver
  <2>4. QED
    BY <2>2, <2>3 DEF SyncApplies
<1>4. QED
  BY <1>2, <1>3, Frames DEF SyncApplies, HubInv, io, refreshing

LEMMA SyncEndsKeeps == HubInv /\ SyncEnds => HubInv'
<1> SUFFICES ASSUME HubInv, SyncEnds PROVE HubInv'
  OBVIOUS
<1>1. UNCHANGED <<hub, broker, zigbee_role, io, refreshing, readings, shared>>
  BY DEF SyncEnds
<1>2. UNCHANGED <<zigbee_role, revision, generation>>
  BY <1>1 DEF refreshing, shared
<1>3. SyncInv'
  <2>1. CASE SyncFailed /\ UNCHANGED applied
    BY <1>2, <2>1, SyncIsOver
  <2>2. CASE /\ sync' = NoSync /\ applied' = sync.target /\ retry' = FALSE
             /\ mqtt_sync_state' = "applied"
    <3>1. retry' \in BOOLEAN
      BY <2>2
    <3>2. Reached(NoTarget)' /\ sync' \in [target : Targets, at : {"none", "apply", "topic"}]
      BY <1>2, <2>2, NoSyncType
    <3>3. sync'.target = NoTarget
      BY <2>2 DEF NoSync
    <3>4. Reached(applied)'
      BY <1>2, <2>2 DEF HubInv, SyncInv, Reached
    <3>5. QED
      BY <1>2, <2>2, <3>1, <3>2, <3>3, <3>4 DEF SyncInv, NoSync, Reached
  <2>3. QED
    BY <2>1, <2>2 DEF SyncEnds
<1>4. QED
  BY <1>1, <1>3, Frames DEF HubInv, io, refreshing, hub, broker, readings, shared

LEMMA RetryTimeKeeps == HubInv /\ RetryTime => HubInv'
<1> SUFFICES ASSUME HubInv, RetryTime PROVE HubInv'
  OBVIOUS
<1>1. UNCHANGED <<hub, broker, zigbee_role, io, refreshing, readings, shared>>
  BY DEF RetryTime
<1>2. SyncInv'
  <2>1. retry' \in BOOLEAN
    BY DEF RetryTime
  <2>2. UNCHANGED <<zigbee_role, revision, generation, sync, applied, mqtt_sync_state>>
    BY DEF RetryTime, refreshing, shared
  <2>3. QED
    BY <2>1, <2>2 DEF HubInv, SyncInv, Reached
<1>3. QED
  BY <1>1, <1>2, Frames DEF HubInv, io, refreshing, hub, broker, readings, shared

-----------------------------------------------------------------------------
(* The theorems.                                                           *)

LEMMA NextKeeps == HubInv /\ [Next]_vars => HubInv'
<1> SUFFICES ASSUME HubInv, [Next]_vars PROVE HubInv'
  OBVIOUS
<1>1. CASE Refreshing
  <2>1. ASSUME NEW r \in Refreshes, Checked(r) \/ Answered(r) \/ Loaded(r) PROVE HubInv'
    BY <2>1, CheckedKeeps, AnsweredKeeps, LoadedKeeps
  <2>2. QED
    BY <1>1, <2>1, WatchdogWakesKeeps, ReceiveKeeps, PushRunsKeeps DEF Refreshing
<1>2. CASE Background
  BY <1>2, ReaderReadsKeeps, ReaderEndsKeeps, SaveBeginsKeeps, SaveEndsKeeps, SyncAppliesKeeps,
     SyncEndsKeeps, RetryTimeKeeps DEF Background
<1>3. CASE Outside
  BY <1>3, AgentConnectsKeeps, AgentDiesKeeps, BrokerNoticesKeeps, HubDownKeeps, HubUpKeeps,
     LinkDownKeeps, LinkUpKeeps DEF Outside
<1>4. CASE UNCHANGED vars
  BY <1>4, Frames DEF HubInv, vars, hub, refreshing, io, shared
<1>5. QED
  BY <1>1, <1>2, <1>3, <1>4 DEF Next

\* The invariant the two properties follow from, for every number of outages, saves and faults.
THEOREM LinkInvariant == Spec => []HubInv
BY InitHubInv, NextKeeps, PTL DEF Spec

LEMMA InvariantTypes == HubInv => TypeOK
<1> SUFFICES ASSUME HubInv PROVE TypeOK
  OBVIOUS
<1>1. /\ up \in BOOLEAN /\ boot \in Boots /\ conf \in 0 .. MaxSaves
      /\ agent \in {"none", "down", "up"} /\ (agent = "up" => up)
  BY DEF HubInv, HubTypes
<1>2. /\ session \in BOOLEAN /\ link \in BOOLEAN
      /\ retained \in {"none", "online", "offline"}
      /\ \A i \in 1 .. Len(inbox) :
           inbox[i] \in [kind : {"state", "online", "offline"}, retain : BOOLEAN]
  <2>1. inbox \in Seq(Messages)
    BY DEF HubInv, BrokerTypes
  <2>2. \A i \in 1 .. Len(inbox) : inbox[i] \in Messages
    BY <2>1
  <2>3. QED
    BY <2>2 DEF HubInv, BrokerTypes, Messages
<1>3. {available, confirmed, refresh_pending, was_online, last_update_success, saving, retry}
        \subseteq BOOLEAN
  BY DEF HubInv, IOTypes, RefreshInv, SharedTypes, SyncInv
<1>4. /\ refresh \in [Refreshes -> Steps] /\ refresh["watchdog"] # "again"
      /\ (refresh_pending => refresh["push"] # "idle")
      /\ generation \in Nat /\ proved \in Boots
      /\ found \in [Refreshes -> Boots]
  <2>1. 0..boot \subseteq Boots
    BY HubLinkConstants, <1>1 DEF Boots
  <2>2. QED
    BY <2>1 DEF HubInv, RefreshInv
<1>5. /\ reading \in Boots \cup {FromAgent}
      /\ reader \in [generation : 0 .. generation, boot : Boots, at : {"none", "read", "done"}]
  BY <1>4 DEF HubInv, ReaderInv
<1>6. /\ revision \in 0 .. MaxSaves /\ sync.at \in {"none", "apply", "topic"}
      /\ (sync # NoSync => zigbee_role = "router")
      /\ {sync.target, applied} \subseteq [revision : 0 .. revision, generation : 0 .. generation]
      /\ mqtt_sync_state \in
           {"not_configured", "not_used", "offline", "pending", "applied", "failed"}
  BY <1>4, Constants DEF HubInv, SharedTypes, SyncInv, Reached, Targets
<1>7. QED
  BY <1>1, <1>2, <1>3, <1>4, <1>5, <1>6 DEF TypeOK, HubInv, IOTypes

\* Every variable of the link has its type, a refresh that a message asked for is under way or
\* still to come, and only a Router is ever synchronised.
THEOREM LinkTypes == Spec => []TypeOK
BY LinkInvariant, InvariantTypes, PTL

\* Only the end of a reader stores what it read: every other step leaves the reading or the reader.
LEMMA OnlyReaderStores ==
  ASSUME HubInv, [Next]_vars, reader.at = "done", reader' = NoReader, reading' # reading
  PROVE  ReaderEnds
<1>1. reader # NoReader
  BY DEF NoReader
<1>2. ASSUME NEW r, NEW seen, Online(r, seen) PROVE FALSE
  BY <1>2 DEF Online
<1>3. ASSUME NEW r, Begin(r) PROVE FALSE
  BY <1>1, <1>2, <1>3 DEF Begin, readings
<1>4. CASE Refreshing
  <2>1. CASE WatchdogWakes
    BY <1>3, <2>1 DEF WatchdogWakes
  <2>2. ASSUME NEW r \in Refreshes, Checked(r) \/ Answered(r) \/ Loaded(r) PROVE FALSE
    BY <1>1, <1>2, <2>2 DEF Checked, Answered, Loaded, Offline, readings
  <2>3. CASE Receive
    BY <1>1, <2>3 DEF Receive
  <2>4. CASE PushRuns
    BY <1>1, <1>3, <2>4 DEF PushRuns, readings
  <2>5. QED
    BY <1>4, <2>1, <2>2, <2>3, <2>4 DEF Refreshing
<1>5. CASE Background
  BY <1>1, <1>5 DEF Background, ReaderReads, SaveBegins, SaveEnds, SyncApplies, SyncEnds,
                    RetryTime, readings
<1>6. CASE Outside
  BY <1>1, <1>6 DEF Outside, AgentConnects, AgentDies, BrokerNotices, HubDown, HubUp, LinkDown,
                    LinkUp, readings
<1>7. CASE UNCHANGED vars
  BY <1>1, <1>7 DEF vars, readings
<1>8. QED
  BY <1>4, <1>5, <1>6, <1>7 DEF Next

\* What a task stores was read in the boot that opened this link or in a later one.
LEMMA StoresThisLink ==
  HubInv /\ [Next]_vars
  => (reader.at = "done" /\ reader' = NoReader /\ reading' # reading /\ reading' # NoReading
      => reading' >= proved)
<1> SUFFICES ASSUME HubInv, [Next]_vars, reader.at = "done", reader' = NoReader,
                    reading' # reading, reading' # NoReading
             PROVE  reading' >= proved
  OBVIOUS
<1>1. reading' = reader.boot /\ reader.generation = generation
  BY OnlyReaderStores DEF ReaderEnds, ThisLink
<1>2. reader.boot \in Boots
  BY DEF HubInv, ReaderInv
<1>3. reader.boot > 0
  BY <1>1, <1>2 DEF NoReading, Boots
<1>4. QED
  BY <1>1, <1>3 DEF HubInv, ReaderInv

\* However refreshes, readings and outages overlap, a reading from before an outage is not shown
\* after it (coordinator.py:199 and 253).
THEOREM ReadingsOfThisLink == Spec => ReadingOfThisLink
<1>1. HubInv /\ [Next]_vars
      => [reader.at = "done" /\ reader' = NoReader /\ reading' # reading /\ reading' # NoReading
          => reading' >= proved]_vars
  BY StoresThisLink
<1>2. QED
  BY <1>1, LinkInvariant, PTL DEF Spec, ReadingOfThisLink
===============================================================================
