--------------------------- MODULE Z2MGuardProofs ---------------------------
(***************************************************************************)
(* Theorems about the recovery guard, for every limit of attempts, every   *)
(* choice of faults and any number of them.                                *)
(*                                                                         *)
(* A step from one await to the next sees only part of what the tick knew. *)
(* The inductive invariant GuardInv says what is still true at each await: *)
(* what the lock protects (Held), what the preparation of the radio has    *)
(* established (Preparation, Preflight), which relay the remembered probe  *)
(* stands for (ProbeMemory), and what a grant to believe the bridge rests  *)
(* on (Grant, Belief, Verified).  RadioInv and AnnounceInv add what holds  *)
(* of the add-on, but for a start the guard did not wait for (stray).      *)
(***************************************************************************)
EXTENDS Z2MGuard, TLAPS

\* The awaits between the stop of the add-on and its start.
Preparing == \/ pc \in {"publish", "stop", "verify"} /\ why = "prepare"
             \/ pc \in {"reset", "recheck", "probe", "after"}

Preflight == {"recheck", "probe", "after", "start"}

\* async_configure and a tick wait for each other, so a tick keeps its settings.
Held ==
  /\ pc \notin {"idle", "hstop", "hpublish"} => enabled /\ dialog = "none"
  /\ pc = "snapshot" => ~paused

\* The radio is prepared for the relay of the snapshot, with no grant.
Preparation ==
  Preparing => /\ ~paused /\ pending /\ started_at = "none" /\ ~allow_online
               /\ runtime_id = snap.runtime /\ snap.runtime # NoRuntime

\* The preflight follows a restart of the radio no start has used.
PreflightReady ==
  /\ pc \in Preflight => reset_done /\ phase = "probing"
  /\ pc = "after" => probe_runtime_id = snap.runtime
  /\ pc = "start" => /\ ~paused /\ pending /\ started_at # "none" /\ ~spent
                     /\ probed = snap.runtime

FreshRestart == reset_done /\ pending /\ started_at = "none" => ~spent

\* The remembered probe is of the relay it names, except between a probe that
\* met a newer relay and the snapshot that reveals it.
ProbeMemory ==
  /\ snap.runtime <= relay
  /\ probe_runtime_id # NoRuntime =>
       \/ probe_runtime_id = probed
       \/ pc = "after" /\ snap.runtime < relay

Grant ==
  allow_online => /\ enabled /\ ~Applying
                  /\ probed = runtime_id /\ runtime_id # NoRuntime
                  /\ ~pending \/ (started_at # "none" /\ ~paused)

Belief ==
  /\ ~pending => started_at = "none"
  /\ bridge_online /\ (~pending \/ started_at # "none") => allow_online

Verified ==
  phase = "running" => Applying \/ ~pending \/ (~bridge_online /\ ~allow_online)

GuardInv == /\ TypeOK
            /\ Held /\ Preparation /\ PreflightReady /\ FreshRestart
            /\ ProbeMemory /\ Grant /\ Belief /\ Verified

-----------------------------------------------------------------------------
(* Type correctness.                                                       *)

\* NoRuntime is no relay's identity.  The proofs use this and not its value.
LEMMA NoRuntimeFacts ==
  /\ NoRuntime \in Nat
  /\ \A n \in Nat : n + 1 \in Nat \ {NoRuntime} /\ n >= NoRuntime
  BY DEF NoRuntime

LEMMA RetainedType == Retained \in Seq(Messages)
<1> DEFINE online == <<"online_retained">>
           offline == <<"offline">>
<1>1. /\ <<>> \in Seq(Messages) /\ online \in Seq(Messages)
      /\ offline \in Seq(Messages)
  BY DEF Messages
<1>2. Retained \in {<<>>, online, offline}
  BY Zenon DEF Retained
<1> QED
  BY <1>1, <1>2

LEMMA PublishType ==
  ASSUME BrokerType, NEW value \in {"online", "offline"}, Publish(value)
  PROVE  retained' \in {"none", "online", "offline"} /\ inbox' \in Seq(Messages)
<1>1. inbox \in Seq(Messages) /\ value \in Messages
  BY DEF BrokerType, Messages
<1>2. inbox' = Append(inbox, value) \/ inbox' = inbox
  BY DEF Publish
<1> QED
  BY <1>1, <1>2 DEF Publish

LEMMA RedeliveryType == Redelivery \in Seq(Messages)
<1>1. <<>> \in Seq(Messages)
  OBVIOUS
<1> QED
  BY <1>1, RetainedType DEF Redelivery

LEMMA ConnectionsType == HubType => Connections \in 0..3
  BY DEF HubType, Connections

LEMMA TypeInit == Init => TypeOK
<1> SUFFICES ASSUME Init PROVE TypeOK
  OBVIOUS
<1> USE GuardConstants, NoRuntimeFacts, RedeliveryType DEF Init
<1>1. SettingsType
  BY DEF SettingsType, Phases, Dialogs, Settings
<1>2. RecoveryType
  BY DEF RecoveryType
<1>3. SeriesType
  BY DEF SeriesType
<1>4. CounterType
  BY DEF CounterType
<1>5. TickType
  BY NoRuntimeFacts DEF TickType, Places, Callers, NoSnapshot
<1>6. HubType
  <2>1. relay \in Nat \ {NoRuntime}
    BY 1 \in Nat \ {0} DEF NoRuntime
  <2> QED
    BY <2>1 DEF HubType
<1>7. BrokerType
  BY DEF BrokerType
<1>8. HistoryType
  BY DEF HistoryType
<1> QED
  BY <1>1, <1>2, <1>3, <1>4, <1>5, <1>6, <1>7, <1>8 DEF TypeOK

LEMMA TypeNext == TypeOK /\ [Next]_vars => TypeOK'
<1> SUFFICES ASSUME TypeOK, [Next]_vars PROVE TypeOK'
  OBVIOUS
<1>a. /\ relay \in Nat /\ Connections \in 0..3
      /\ addon \in {"stopped", "started", "error"}
  BY ConnectionsType DEF TypeOK, HubType
<1>b. snap.runtime \in Nat
  BY DEF TypeOK, TickType
<1>c. <<>> \in Seq(Messages) /\ NoSnapshot \in [runtime : Nat, connections : 0..3]
  BY NoRuntimeFacts DEF NoSnapshot
<1>d. /\ \A e, p \in BOOLEAN : [enabled |-> e, paused |-> p] \in Settings
      /\ \A t \in Settings : t.enabled \in BOOLEAN /\ t.paused \in BOOLEAN
  BY DEF Settings
<1> USE GuardConstants, NoRuntimeFacts, RetainedType, RedeliveryType, <1>c
    DEF TypeOK, config, memory, world, settings, flow, ack, recovery, series,
        tick, hub, broker, history, guardState, Fault, Done, Forget, Phases,
        Places, Callers, Dialogs, Messages
<1>1. CASE TickBegin
  <2> USE <1>1 DEF TickBegin
  <2>1. SettingsType'  BY DEF SettingsType
  <2>2. RecoveryType'  BY DEF RecoveryType
  <2>3. SeriesType'  BY DEF SeriesType
  <2>4. CounterType'  BY DEF CounterType
  <2>5. TickType'  BY DEF TickType
  <2>6. HubType'  BY DEF HubType
  <2>7. BrokerType'  BY DEF BrokerType
  <2>8. HistoryType'  BY DEF HistoryType
  <2> QED  BY <2>1, <2>2, <2>3, <2>4, <2>5, <2>6, <2>7, <2>8
<1>2. CASE OwnershipTaken
  <2> USE <1>2 DEF OwnershipTaken, Invalidate, EnsureStopped
  <2>1. SettingsType'
    <3>1. UNCHANGED <<settings, flow, phase>>
      OBVIOUS
    <3>2. /\ bridge_online' \in BOOLEAN /\ allow_online' \in BOOLEAN
          /\ online_since_start' \in BOOLEAN
      BY DEF SettingsType, ack
    <3> QED
      BY <3>1, <3>2 DEF SettingsType, settings, flow
  <2>2. RecoveryType'  BY DEF RecoveryType
  <2>3. SeriesType'  BY <1>a DEF SeriesType
  <2>4. CounterType'  BY DEF CounterType
  <2>5. TickType'  BY <1>a DEF TickType
  <2>6. HubType'  BY DEF HubType
  <2>7. BrokerType'  BY DEF BrokerType
  <2>8. HistoryType'  BY <1>a DEF HistoryType
  <2> QED  BY <2>1, <2>2, <2>3, <2>4, <2>5, <2>6, <2>7, <2>8
<1>3. CASE OwnershipFails
  <2> USE <1>3 DEF OwnershipFails
  <2>1. SettingsType'  BY DEF SettingsType
  <2>2. RecoveryType'  BY DEF RecoveryType
  <2>3. SeriesType'  BY DEF SeriesType
  <2>4. CounterType'  BY DEF CounterType
  <2>5. TickType'  BY DEF TickType
  <2>6. HubType'  BY DEF HubType
  <2>7. BrokerType'  BY DEF BrokerType
  <2>8. HistoryType'  BY DEF HistoryType
  <2> QED  BY <2>1, <2>2, <2>3, <2>4, <2>5, <2>6, <2>7, <2>8
<1>4. CASE SnapshotFails
  <2> USE <1>4 DEF SnapshotFails, Invalidate, EnsureStopped
  <2>1. SettingsType'  BY DEF SettingsType
  <2>2. RecoveryType'  BY DEF RecoveryType
  <2>3. SeriesType'  BY DEF SeriesType
  <2>4. CounterType'  BY DEF CounterType
  <2>5. TickType'  BY DEF TickType
  <2>6. HubType'  BY DEF HubType
  <2>7. BrokerType'  BY DEF BrokerType
  <2>8. HistoryType'  BY DEF HistoryType
  <2> QED  BY <2>1, <2>2, <2>3, <2>4, <2>5, <2>6, <2>7, <2>8
<1>5. CASE TickVerified
  <2> USE <1>5 DEF TickVerified, Observe, Invalidate, EnsureStopped, AttemptsSeen
  <2>1. SettingsType'
    <3>1. UNCHANGED <<enabled, stored, flow>>
      OBVIOUS
    <3>2. paused' \in BOOLEAN /\ phase' \in Phases
      BY DEF SettingsType
    <3>3. /\ bridge_online' \in BOOLEAN /\ allow_online' \in BOOLEAN
          /\ online_since_start' \in BOOLEAN
      BY DEF SettingsType, ack
    <3> QED
      BY <3>1, <3>2, <3>3 DEF SettingsType, settings, flow
  <2>2. RecoveryType'  BY DEF RecoveryType
  <2>3. SeriesType'  BY <1>a DEF SeriesType
  <2>4. CounterType'  BY DEF CounterType
  <2>5. TickType'  BY <1>a DEF TickType
  <2>6. HubType'  BY DEF HubType
  <2>7. BrokerType'  BY DEF BrokerType
  <2>8. HistoryType'  BY <1>a DEF HistoryType
  <2> QED  BY <2>1, <2>2, <2>3, <2>4, <2>5, <2>6, <2>7, <2>8
<1>6. CASE TickStarting
  <2> USE <1>6 DEF TickStarting, Observe, Invalidate, EnsureStopped, AttemptsSeen
  <2>1. SettingsType'
    <3>1. UNCHANGED <<settings, flow>>
      OBVIOUS
    <3>2. phase' \in Phases
      BY DEF SettingsType
    <3>3. /\ bridge_online' \in BOOLEAN /\ allow_online' \in BOOLEAN
          /\ online_since_start' \in BOOLEAN
      BY DEF SettingsType, ack
    <3> QED
      BY <3>1, <3>2, <3>3 DEF SettingsType, settings, flow
  <2>2. RecoveryType'  BY DEF RecoveryType
  <2>3. SeriesType'  BY <1>a DEF SeriesType
  <2>4. CounterType'  BY DEF CounterType
  <2>5. TickType'  BY <1>a DEF TickType
  <2>6. HubType'  BY DEF HubType
  <2>7. BrokerType'  BY DEF BrokerType
  <2>8. HistoryType'  BY <1>a DEF HistoryType
  <2> QED  BY <2>1, <2>2, <2>3, <2>4, <2>5, <2>6, <2>7, <2>8
<1>7. CASE TickPrepare
  <2> USE <1>7 DEF TickPrepare, Observe, Invalidate, EnsureStopped, AttemptsSeen
  <2>1. SettingsType'  BY DEF SettingsType
  <2>2. RecoveryType'  BY DEF RecoveryType
  <2>3. SeriesType'  BY <1>a DEF SeriesType
  <2>4. CounterType'  BY DEF CounterType
  <2>5. TickType'  BY <1>a DEF TickType
  <2>6. HubType'  BY DEF HubType
  <2>7. BrokerType'  BY DEF BrokerType
  <2>8. HistoryType'  BY <1>a DEF HistoryType
  <2> QED  BY <2>1, <2>2, <2>3, <2>4, <2>5, <2>6, <2>7, <2>8
<1>8. CASE SavePause
  <2> USE <1>8 DEF SavePause
  <2>1. SettingsType'  BY <1>d DEF SettingsType
  <2>2. RecoveryType'  BY DEF RecoveryType
  <2>3. SeriesType'  BY DEF SeriesType
  <2>4. CounterType'  BY DEF CounterType
  <2>5. TickType'  BY DEF TickType
  <2>6. HubType'  BY DEF HubType
  <2>7. BrokerType'  BY DEF BrokerType
  <2>8. HistoryType'  BY DEF HistoryType
  <2> QED  BY <2>1, <2>2, <2>3, <2>4, <2>5, <2>6, <2>7, <2>8
<1>9. CASE PublishOk
  <2> USE <1>9 DEF PublishOk, Continue, Prepare, RetryLimit
  <2>1. SettingsType'  BY DEF SettingsType
  <2>2. RecoveryType'  BY <1>b DEF RecoveryType
  <2>3. SeriesType'  BY DEF SeriesType
  <2>4. CounterType'  BY DEF CounterType
  <2>5. TickType'  BY DEF TickType
  <2>6. HubType'  BY DEF HubType
  <2>7. BrokerType'  BY PublishType DEF BrokerType
  <2>8. HistoryType'  BY DEF HistoryType
  <2> QED  BY <2>1, <2>2, <2>3, <2>4, <2>5, <2>6, <2>7, <2>8
<1>10. CASE CommandFails
  <2> USE <1>10 DEF CommandFails, Raise
  <2>1. SettingsType'  BY DEF SettingsType
  <2>2. RecoveryType'  BY DEF RecoveryType
  <2>3. SeriesType'  BY DEF SeriesType
  <2>4. CounterType'  BY DEF CounterType
  <2>5. TickType'  BY DEF TickType
  <2>6. HubType'  BY DEF HubType
  <2>7. BrokerType'  BY DEF BrokerType
  <2>8. HistoryType'  BY DEF HistoryType
  <2> QED  BY <2>1, <2>2, <2>3, <2>4, <2>5, <2>6, <2>7, <2>8
<1>11. CASE StopOk
  <2> USE <1>11 DEF StopOk, StopAddon
  <2>1. SettingsType'  BY DEF SettingsType
  <2>2. RecoveryType'  BY DEF RecoveryType
  <2>3. SeriesType'  BY DEF SeriesType
  <2>4. CounterType'  BY DEF CounterType
  <2>5. TickType'  BY DEF TickType
  <2>6. HubType'  BY DEF HubType
  <2>7. BrokerType'  BY PublishType DEF BrokerType
  <2>8. HistoryType'  BY DEF HistoryType
  <2> QED  BY <2>1, <2>2, <2>3, <2>4, <2>5, <2>6, <2>7, <2>8
<1>12. CASE StopFails
  <2> USE <1>12 DEF StopFails, Unanswered, Raise
  <2>1. SettingsType'  BY DEF SettingsType
  <2>2. RecoveryType'  BY DEF RecoveryType
  <2>3. SeriesType'  BY DEF SeriesType
  <2>4. CounterType'  BY DEF CounterType
  <2>5. TickType'  BY DEF TickType
  <2>6. HubType'  BY DEF HubType
  <2>7. BrokerType'  BY DEF BrokerType
  <2>8. HistoryType'  BY DEF HistoryType
  <2> QED  BY <2>1, <2>2, <2>3, <2>4, <2>5, <2>6, <2>7, <2>8
<1>13. CASE VerifyOk
  <2> USE <1>13 DEF VerifyOk, Continue, Prepare, RetryLimit, StopConfirmed
  <2>1. SettingsType'  BY DEF SettingsType
  <2>2. RecoveryType'  BY <1>b DEF RecoveryType
  <2>3. SeriesType'  BY DEF SeriesType
  <2>4. CounterType'  BY DEF CounterType
  <2>5. TickType'  BY DEF TickType
  <2>6. HubType'  BY DEF HubType
  <2>7. BrokerType'  BY DEF BrokerType
  <2>8. HistoryType'  BY DEF HistoryType
  <2> QED  BY <2>1, <2>2, <2>3, <2>4, <2>5, <2>6, <2>7, <2>8
<1>14. CASE ResetOk
  <2> USE <1>14 DEF ResetOk, DropSessions
  <2>1. SettingsType'  BY DEF SettingsType
  <2>2. RecoveryType'  BY DEF RecoveryType
  <2>3. SeriesType'  BY DEF SeriesType
  <2>4. CounterType'  BY DEF CounterType
  <2>5. TickType'  BY DEF TickType
  <2>6. HubType'  BY DEF HubType
  <2>7. BrokerType'  BY DEF BrokerType
  <2>8. HistoryType'  BY DEF HistoryType
  <2> QED  BY <2>1, <2>2, <2>3, <2>4, <2>5, <2>6, <2>7, <2>8
<1>15. CASE ResetFails
  <2> USE <1>15 DEF ResetFails, Unanswered, Raise
  <2>1. SettingsType'  BY DEF SettingsType
  <2>2. RecoveryType'  BY DEF RecoveryType
  <2>3. SeriesType'  BY DEF SeriesType
  <2>4. CounterType'  BY DEF CounterType
  <2>5. TickType'  BY DEF TickType
  <2>6. HubType'  BY DEF HubType
  <2>7. BrokerType'  BY DEF BrokerType
  <2>8. HistoryType'  BY DEF HistoryType
  <2> QED  BY <2>1, <2>2, <2>3, <2>4, <2>5, <2>6, <2>7, <2>8
<1>16. CASE RecheckOk
  <2> USE <1>16 DEF RecheckOk
  <2>1. SettingsType'  BY DEF SettingsType
  <2>2. RecoveryType'  BY DEF RecoveryType
  <2>3. SeriesType'  BY DEF SeriesType
  <2>4. CounterType'  BY DEF CounterType
  <2>5. TickType'  BY DEF TickType
  <2>6. HubType'  BY DEF HubType
  <2>7. BrokerType'  BY DEF BrokerType
  <2>8. HistoryType'  BY DEF HistoryType
  <2> QED  BY <2>1, <2>2, <2>3, <2>4, <2>5, <2>6, <2>7, <2>8
<1>17. CASE RecheckFails
  <2> USE <1>17 DEF RecheckFails, PreflightAborts, Invalidate, Raise
  <2>1. SettingsType'  BY DEF SettingsType
  <2>2. RecoveryType'  BY DEF RecoveryType
  <2>3. SeriesType'  BY DEF SeriesType
  <2>4. CounterType'  BY DEF CounterType
  <2>5. TickType'  BY DEF TickType
  <2>6. HubType'  BY DEF HubType
  <2>7. BrokerType'  BY DEF BrokerType
  <2>8. HistoryType'  BY DEF HistoryType
  <2> QED  BY <2>1, <2>2, <2>3, <2>4, <2>5, <2>6, <2>7, <2>8
<1>18. CASE ProbeOk
  <2> USE <1>18 DEF ProbeOk
  <2>1. SettingsType'  BY DEF SettingsType
  <2>2. RecoveryType'  BY <1>b DEF RecoveryType
  <2>3. SeriesType'  BY <1>a DEF SeriesType
  <2>4. CounterType'  BY DEF CounterType
  <2>5. TickType'  BY <1>a DEF TickType
  <2>6. HubType'  BY DEF HubType
  <2>7. BrokerType'  BY DEF BrokerType
  <2>8. HistoryType'  BY <1>a DEF HistoryType
  <2> QED  BY <2>1, <2>2, <2>3, <2>4, <2>5, <2>6, <2>7, <2>8
<1>19. CASE ProbeFails
  <2> USE <1>19 DEF ProbeFails, PreflightAborts, Invalidate, Raise
  <2>1. SettingsType'  BY DEF SettingsType
  <2>2. RecoveryType'  BY DEF RecoveryType
  <2>3. SeriesType'  BY DEF SeriesType
  <2>4. CounterType'  BY DEF CounterType
  <2>5. TickType'  BY DEF TickType
  <2>6. HubType'  BY DEF HubType
  <2>7. BrokerType'  BY DEF BrokerType
  <2>8. HistoryType'  BY DEF HistoryType
  <2> QED  BY <2>1, <2>2, <2>3, <2>4, <2>5, <2>6, <2>7, <2>8
<1>20. CASE AfterOk
  <2> USE <1>20 DEF AfterOk
  <2>1. SettingsType'  BY DEF SettingsType
  <2>2. RecoveryType'  BY DEF RecoveryType
  <2>3. SeriesType'  BY DEF SeriesType
  <2>4. CounterType'  BY DEF CounterType
  <2>5. TickType'  BY DEF TickType
  <2>6. HubType'  BY DEF HubType
  <2>7. BrokerType'  BY DEF BrokerType
  <2>8. HistoryType'  BY DEF HistoryType
  <2> QED  BY <2>1, <2>2, <2>3, <2>4, <2>5, <2>6, <2>7, <2>8
<1>21. CASE AfterFails
  <2> USE <1>21 DEF AfterFails, PreflightAborts, Invalidate, Raise
  <2>1. SettingsType'  BY DEF SettingsType
  <2>2. RecoveryType'  BY DEF RecoveryType
  <2>3. SeriesType'  BY DEF SeriesType
  <2>4. CounterType'  BY DEF CounterType
  <2>5. TickType'  BY DEF TickType
  <2>6. HubType'  BY DEF HubType
  <2>7. BrokerType'  BY DEF BrokerType
  <2>8. HistoryType'  BY DEF HistoryType
  <2> QED  BY <2>1, <2>2, <2>3, <2>4, <2>5, <2>6, <2>7, <2>8
<1>22. CASE StartOk
  <2> USE <1>22 DEF StartOk
  <2>1. SettingsType'  BY DEF SettingsType
  <2>2. RecoveryType'  BY DEF RecoveryType
  <2>3. SeriesType'  BY DEF SeriesType
  <2>4. CounterType'  BY DEF CounterType
  <2>5. TickType'  BY DEF TickType
  <2>6. HubType'  BY DEF HubType
  <2>7. BrokerType'  BY DEF BrokerType
  <2>8. HistoryType'  BY DEF HistoryType
  <2> QED  BY <2>1, <2>2, <2>3, <2>4, <2>5, <2>6, <2>7, <2>8
<1>23. CASE StartFails
  <2> USE <1>23 DEF StartFails, Unanswered, PreflightAborts, Invalidate, Raise
  <2>1. SettingsType'  BY DEF SettingsType
  <2>2. RecoveryType'  BY DEF RecoveryType
  <2>3. SeriesType'  BY DEF SeriesType
  <2>4. CounterType'  BY DEF CounterType
  <2>5. TickType'  BY DEF TickType
  <2>6. HubType'  BY DEF HubType
  <2>7. BrokerType'  BY DEF BrokerType
  <2>8. HistoryType'  BY DEF HistoryType
  <2> QED  BY <2>1, <2>2, <2>3, <2>4, <2>5, <2>6, <2>7, <2>8
<1>24. CASE HandlerStopOk
  <2> USE <1>24 DEF HandlerStopOk, StopAddon
  <2>1. SettingsType'  BY DEF SettingsType
  <2>2. RecoveryType'  BY DEF RecoveryType
  <2>3. SeriesType'  BY DEF SeriesType
  <2>4. CounterType'  BY DEF CounterType
  <2>5. TickType'  BY DEF TickType
  <2>6. HubType'  BY DEF HubType
  <2>7. BrokerType'  BY PublishType DEF BrokerType
  <2>8. HistoryType'  BY DEF HistoryType
  <2> QED  BY <2>1, <2>2, <2>3, <2>4, <2>5, <2>6, <2>7, <2>8
<1>25. CASE HandlerStopFails
  <2> USE <1>25 DEF HandlerStopFails, Unanswered
  <2>1. SettingsType'  BY DEF SettingsType
  <2>2. RecoveryType'  BY DEF RecoveryType
  <2>3. SeriesType'  BY DEF SeriesType
  <2>4. CounterType'  BY DEF CounterType
  <2>5. TickType'  BY DEF TickType
  <2>6. HubType'  BY DEF HubType
  <2>7. BrokerType'  BY DEF BrokerType
  <2>8. HistoryType'  BY DEF HistoryType
  <2> QED  BY <2>1, <2>2, <2>3, <2>4, <2>5, <2>6, <2>7, <2>8
<1>26. CASE HandlerPublish
  <2> USE <1>26 DEF HandlerPublish
  <2>1. SettingsType'  BY DEF SettingsType
  <2>2. RecoveryType'  BY DEF RecoveryType
  <2>3. SeriesType'  BY DEF SeriesType
  <2>4. CounterType'  BY DEF CounterType
  <2>5. TickType'  BY DEF TickType
  <2>6. HubType'  BY DEF HubType
  <2>7. BrokerType'  BY PublishType DEF BrokerType
  <2>8. HistoryType'  BY DEF HistoryType
  <2> QED  BY <2>1, <2>2, <2>3, <2>4, <2>5, <2>6, <2>7, <2>8
<1>27. CASE Receive
  <2> USE <1>27 DEF Receive
  <2>1. SettingsType'
    <3>1. UNCHANGED <<settings, flow, phase>>
      OBVIOUS
    <3>2. /\ bridge_online' \in BOOLEAN /\ allow_online' \in BOOLEAN
          /\ online_since_start' \in BOOLEAN
      BY DEF SettingsType, ack
    <3> QED
      BY <3>1, <3>2 DEF SettingsType, settings, flow
  <2>2. RecoveryType'  BY DEF RecoveryType
  <2>3. SeriesType'  BY DEF SeriesType
  <2>4. CounterType'  BY DEF CounterType
  <2>5. TickType'  BY DEF TickType
  <2>6. HubType'  BY DEF HubType
  <2>7. BrokerType'
    <3>1. Tail(inbox) \in Seq(Messages)
      BY DEF BrokerType
    <3>2. Append(Tail(inbox), "offline") \in Seq(Messages)
      BY <3>1
    <3>3. inbox' \in {Tail(inbox), Append(Tail(inbox), "offline")}
      OBVIOUS
    <3>4. retained' \in {"none", "online", "offline"} /\ UNCHANGED mqtt_up
      BY DEF BrokerType
    <3> QED
      BY <3>1, <3>2, <3>3, <3>4 DEF BrokerType
  <2>8. HistoryType'  BY DEF HistoryType
  <2> QED  BY <2>1, <2>2, <2>3, <2>4, <2>5, <2>6, <2>7, <2>8
<1>28. CASE BackoffElapses
  <2> USE <1>28 DEF BackoffElapses
  <2>1. SettingsType'  BY DEF SettingsType
  <2>2. RecoveryType'  BY DEF RecoveryType
  <2>3. SeriesType'  BY DEF SeriesType
  <2>4. CounterType'  BY DEF CounterType
  <2>5. TickType'  BY DEF TickType
  <2>6. HubType'  BY DEF HubType
  <2>7. BrokerType'  BY DEF BrokerType
  <2>8. HistoryType'  BY DEF HistoryType
  <2> QED  BY <2>1, <2>2, <2>3, <2>4, <2>5, <2>6, <2>7, <2>8
<1>29. CASE CandidateSettles
  <2> USE <1>29 DEF CandidateSettles
  <2>1. SettingsType'  BY DEF SettingsType
  <2>2. RecoveryType'  BY DEF RecoveryType
  <2>3. SeriesType'  BY DEF SeriesType
  <2>4. CounterType'  BY DEF CounterType
  <2>5. TickType'  BY DEF TickType
  <2>6. HubType'  BY DEF HubType
  <2>7. BrokerType'  BY DEF BrokerType
  <2>8. HistoryType'  BY DEF HistoryType
  <2> QED  BY <2>1, <2>2, <2>3, <2>4, <2>5, <2>6, <2>7, <2>8
<1>30. CASE StartDeadline
  <2> USE <1>30 DEF StartDeadline
  <2>1. SettingsType'  BY DEF SettingsType
  <2>2. RecoveryType'  BY DEF RecoveryType
  <2>3. SeriesType'  BY DEF SeriesType
  <2>4. CounterType'  BY DEF CounterType
  <2>5. TickType'  BY DEF TickType
  <2>6. HubType'  BY DEF HubType
  <2>7. BrokerType'  BY DEF BrokerType
  <2>8. HistoryType'  BY DEF HistoryType
  <2> QED  BY <2>1, <2>2, <2>3, <2>4, <2>5, <2>6, <2>7, <2>8
<1>31. CASE Configure
  <2> USE <1>31 DEF Configure
  <2>1. SettingsType'  BY DEF SettingsType
  <2>2. RecoveryType'  BY DEF RecoveryType
  <2>3. SeriesType'  BY DEF SeriesType
  <2>4. CounterType'  BY DEF CounterType
  <2>5. TickType'  BY DEF TickType
  <2>6. HubType'  BY DEF HubType
  <2>7. BrokerType'  BY DEF BrokerType
  <2>8. HistoryType'  BY DEF HistoryType
  <2> QED  BY <2>1, <2>2, <2>3, <2>4, <2>5, <2>6, <2>7, <2>8
<1>32. CASE ConfigureRefused
  <2> USE <1>32 DEF ConfigureRefused, outside
  <2>1. SettingsType'  BY DEF SettingsType
  <2>2. RecoveryType'  BY DEF RecoveryType
  <2>3. SeriesType'  BY DEF SeriesType
  <2>4. CounterType'  BY DEF CounterType
  <2>5. TickType'  BY DEF TickType
  <2>6. HubType'  BY DEF HubType
  <2>7. BrokerType'  BY DEF BrokerType
  <2>8. HistoryType'  BY DEF HistoryType
  <2> QED  BY <2>1, <2>2, <2>3, <2>4, <2>5, <2>6, <2>7, <2>8
<1>33. CASE Adopt
  <2> USE <1>33 DEF Adopt, NewSeries
  <2>1. SettingsType'  BY DEF SettingsType
  <2>2. RecoveryType'  BY DEF RecoveryType
  <2>3. SeriesType'  BY DEF SeriesType
  <2>4. CounterType'  BY DEF CounterType
  <2>5. TickType'  BY DEF TickType
  <2>6. HubType'  BY DEF HubType
  <2>7. BrokerType'  BY DEF BrokerType
  <2>8. HistoryType'  BY DEF HistoryType
  <2> QED  BY <2>1, <2>2, <2>3, <2>4, <2>5, <2>6, <2>7, <2>8
<1>34. CASE ConfigureSaved
  <2> USE <1>34 DEF ConfigureSaved, outside
  <2>1. SettingsType'  BY <1>d DEF SettingsType
  <2>2. RecoveryType'  BY DEF RecoveryType
  <2>3. SeriesType'  BY DEF SeriesType
  <2>4. CounterType'  BY DEF CounterType
  <2>5. TickType'  BY DEF TickType
  <2>6. HubType'  BY DEF HubType
  <2>7. BrokerType'  BY DEF BrokerType
  <2>8. HistoryType'  BY DEF HistoryType
  <2> QED  BY <2>1, <2>2, <2>3, <2>4, <2>5, <2>6, <2>7, <2>8
<1>35. CASE Subscribed
  <2> USE <1>35 DEF Subscribed, outside
  <2>1. SettingsType'  BY DEF SettingsType
  <2>2. RecoveryType'  BY DEF RecoveryType
  <2>3. SeriesType'  BY DEF SeriesType
  <2>4. CounterType'  BY DEF CounterType
  <2>5. TickType'  BY DEF TickType
  <2>6. HubType'  BY DEF HubType
  <2>7. BrokerType'  BY DEF BrokerType
  <2>8. HistoryType'  BY DEF HistoryType
  <2> QED  BY <2>1, <2>2, <2>3, <2>4, <2>5, <2>6, <2>7, <2>8
<1>36. CASE Configured
  <2> USE <1>36 DEF Configured, outside
  <2>1. SettingsType'  BY DEF SettingsType
  <2>2. RecoveryType'  BY DEF RecoveryType
  <2>3. SeriesType'  BY DEF SeriesType
  <2>4. CounterType'  BY DEF CounterType
  <2>5. TickType'  BY DEF TickType
  <2>6. HubType'  BY DEF HubType
  <2>7. BrokerType'  BY DEF BrokerType
  <2>8. HistoryType'  BY DEF HistoryType
  <2> QED  BY <2>1, <2>2, <2>3, <2>4, <2>5, <2>6, <2>7, <2>8
<1>37. CASE ConfigureFails
  <2> USE <1>37 DEF ConfigureFails, outside
  <2>1. SettingsType'  BY DEF SettingsType
  <2>2. RecoveryType'  BY DEF RecoveryType
  <2>3. SeriesType'  BY DEF SeriesType
  <2>4. CounterType'  BY DEF CounterType
  <2>5. TickType'  BY DEF TickType
  <2>6. HubType'  BY DEF HubType
  <2>7. BrokerType'  BY DEF BrokerType
  <2>8. HistoryType'  BY DEF HistoryType
  <2> QED  BY <2>1, <2>2, <2>3, <2>4, <2>5, <2>6, <2>7, <2>8
<1>38. CASE ConfigureUndone
  <2> USE <1>38 DEF ConfigureUndone, outside
  <2>1. SettingsType'  BY <1>d DEF SettingsType
  <2>2. RecoveryType'  BY DEF RecoveryType
  <2>3. SeriesType'  BY DEF SeriesType
  <2>4. CounterType'  BY DEF CounterType
  <2>5. TickType'  BY DEF TickType
  <2>6. HubType'  BY DEF HubType
  <2>7. BrokerType'  BY DEF BrokerType
  <2>8. HistoryType'  BY DEF HistoryType
  <2> QED  BY <2>1, <2>2, <2>3, <2>4, <2>5, <2>6, <2>7, <2>8
<1>39. CASE Reload
  <2> USE <1>39 DEF Reload, Invalidate, Saving
  <2>1. SettingsType'
    <3>1. /\ enabled \in BOOLEAN /\ paused \in BOOLEAN /\ stored \in Settings
      BY DEF SettingsType
    <3>2. stored' \in {stored, [enabled |-> enabled, paused |-> paused]}
      OBVIOUS
    <3>3. stored' \in Settings
      BY <1>d, <3>1, <3>2
    <3>4. stored'.enabled \in BOOLEAN /\ stored'.paused \in BOOLEAN
      BY <1>d, <3>3
    <3>5. enabled' = stored'.enabled /\ paused' = stored'.paused
      OBVIOUS
    <3>6. enabled' \in BOOLEAN /\ paused' \in BOOLEAN
      BY <3>4, <3>5
    <3> QED
      BY <3>3, <3>6 DEF SettingsType
  <2>2. RecoveryType'  BY DEF RecoveryType
  <2>3. SeriesType'  BY DEF SeriesType
  <2>4. CounterType'  BY DEF CounterType
  <2>5. TickType'  BY DEF TickType
  <2>6. HubType'  BY DEF HubType
  <2>7. BrokerType'
    <3>1. late' \subseteq {"start", "stop", "reset", "probe"}
      BY DEF InFlight, BrokerType
    <3>2. Redelivery' \in {<<>>, <<"online_retained">>, <<"offline">>}
      BY Zenon DEF Redelivery, Retained
    <3>3. /\ <<"online_retained">> \in Seq(Messages)
          /\ <<"offline">> \in Seq(Messages)
      OBVIOUS
    <3>4. inbox' \in Seq(Messages)
      BY <3>2, <3>3
    <3>5. retained' \in {"none", "online", "offline"} /\ UNCHANGED mqtt_up
      BY DEF BrokerType
    <3> QED
      BY <3>1, <3>4, <3>5 DEF BrokerType
  <2>8. HistoryType'  BY DEF HistoryType
  <2> QED  BY <2>1, <2>2, <2>3, <2>4, <2>5, <2>6, <2>7, <2>8
<1>40. CASE LateStart
  <2> USE <1>40 DEF LateStart, beyond
  <2>1. SettingsType'  BY DEF SettingsType
  <2>2. RecoveryType'  BY DEF RecoveryType
  <2>3. SeriesType'  BY DEF SeriesType
  <2>4. CounterType'  BY DEF CounterType
  <2>5. TickType'  BY DEF TickType
  <2>6. HubType'  BY DEF HubType
  <2>7. BrokerType'  BY DEF BrokerType
  <2>8. HistoryType'  BY DEF HistoryType
  <2> QED  BY <2>1, <2>2, <2>3, <2>4, <2>5, <2>6, <2>7, <2>8
<1>41. CASE LateStop
  <2> USE <1>41 DEF LateStop, StopAddon, beyond
  <2>1. SettingsType'  BY DEF SettingsType
  <2>2. RecoveryType'  BY DEF RecoveryType
  <2>3. SeriesType'  BY DEF SeriesType
  <2>4. CounterType'  BY DEF CounterType
  <2>5. TickType'  BY DEF TickType
  <2>6. HubType'  BY DEF HubType
  <2>7. BrokerType'  BY PublishType DEF BrokerType
  <2>8. HistoryType'  BY DEF HistoryType
  <2> QED  BY <2>1, <2>2, <2>3, <2>4, <2>5, <2>6, <2>7, <2>8
<1>42. CASE LateReset
  <2> USE <1>42 DEF LateReset, DropSessions, beyond
  <2>1. SettingsType'  BY DEF SettingsType
  <2>2. RecoveryType'  BY DEF RecoveryType
  <2>3. SeriesType'  BY DEF SeriesType
  <2>4. CounterType'  BY DEF CounterType
  <2>5. TickType'  BY DEF TickType
  <2>6. HubType'  BY DEF HubType
  <2>7. BrokerType'  BY DEF BrokerType
  <2>8. HistoryType'  BY DEF HistoryType
  <2> QED  BY <2>1, <2>2, <2>3, <2>4, <2>5, <2>6, <2>7, <2>8
<1>43. CASE LateProbe
  <2> USE <1>43 DEF LateProbe, beyond
  <2>1. SettingsType'  BY DEF SettingsType
  <2>2. RecoveryType'  BY DEF RecoveryType
  <2>3. SeriesType'  BY DEF SeriesType
  <2>4. CounterType'  BY DEF CounterType
  <2>5. TickType'  BY DEF TickType
  <2>6. HubType'  BY DEF HubType
  <2>7. BrokerType'  BY DEF BrokerType
  <2>8. HistoryType'  BY DEF HistoryType
  <2> QED  BY <2>1, <2>2, <2>3, <2>4, <2>5, <2>6, <2>7, <2>8
<1>44. CASE UserStart
  <2> USE <1>44 DEF UserStart
  <2>1. SettingsType'  BY DEF SettingsType
  <2>2. RecoveryType'  BY DEF RecoveryType
  <2>3. SeriesType'  BY DEF SeriesType
  <2>4. CounterType'  BY DEF CounterType
  <2>5. TickType'  BY DEF TickType
  <2>6. HubType'  BY DEF HubType
  <2>7. BrokerType'  BY DEF BrokerType
  <2>8. HistoryType'  BY DEF HistoryType
  <2> QED  BY <2>1, <2>2, <2>3, <2>4, <2>5, <2>6, <2>7, <2>8
<1>45. CASE UserStop
  <2> USE <1>45 DEF UserStop, StopAddon
  <2>1. SettingsType'  BY DEF SettingsType
  <2>2. RecoveryType'  BY DEF RecoveryType
  <2>3. SeriesType'  BY DEF SeriesType
  <2>4. CounterType'  BY DEF CounterType
  <2>5. TickType'  BY DEF TickType
  <2>6. HubType'  BY DEF HubType
  <2>7. BrokerType'  BY PublishType DEF BrokerType
  <2>8. HistoryType'  BY DEF HistoryType
  <2> QED  BY <2>1, <2>2, <2>3, <2>4, <2>5, <2>6, <2>7, <2>8
<1>46. CASE HubDown
  <2> USE <1>46 DEF HubDown, DropSessions
  <2>1. SettingsType'  BY DEF SettingsType
  <2>2. RecoveryType'  BY DEF RecoveryType
  <2>3. SeriesType'  BY DEF SeriesType
  <2>4. CounterType'  BY DEF CounterType
  <2>5. TickType'  BY DEF TickType
  <2>6. HubType'  BY DEF HubType
  <2>7. BrokerType'  BY DEF BrokerType
  <2>8. HistoryType'  BY DEF HistoryType
  <2> QED  BY <2>1, <2>2, <2>3, <2>4, <2>5, <2>6, <2>7, <2>8
<1>47. CASE HubUp
  <2> USE <1>47 DEF HubUp
  <2>1. SettingsType'  BY DEF SettingsType
  <2>2. RecoveryType'  BY DEF RecoveryType
  <2>3. SeriesType'  BY DEF SeriesType
  <2>4. CounterType'  BY DEF CounterType
  <2>5. TickType'  BY DEF TickType
  <2>6. HubType'  BY DEF HubType
  <2>7. BrokerType'  BY DEF BrokerType
  <2>8. HistoryType'  BY DEF HistoryType
  <2> QED  BY <2>1, <2>2, <2>3, <2>4, <2>5, <2>6, <2>7, <2>8
<1>48. CASE RelayRestart
  <2> USE <1>48 DEF RelayRestart, DropSessions
  <2>1. SettingsType'  BY DEF SettingsType
  <2>2. RecoveryType'  BY DEF RecoveryType
  <2>3. SeriesType'  BY DEF SeriesType
  <2>4. CounterType'  BY DEF CounterType
  <2>5. TickType'  BY DEF TickType
  <2>6. HubType'  BY DEF HubType
  <2>7. BrokerType'  BY DEF BrokerType
  <2>8. HistoryType'  BY DEF HistoryType
  <2> QED  BY <2>1, <2>2, <2>3, <2>4, <2>5, <2>6, <2>7, <2>8
<1>49. CASE MqttDown
  <2> USE <1>49 DEF MqttDown
  <2>1. SettingsType'  BY DEF SettingsType
  <2>2. RecoveryType'  BY DEF RecoveryType
  <2>3. SeriesType'  BY DEF SeriesType
  <2>4. CounterType'  BY DEF CounterType
  <2>5. TickType'  BY DEF TickType
  <2>6. HubType'  BY DEF HubType
  <2>7. BrokerType'
    <3>1. <<>> \in Seq(Messages)
      OBVIOUS
    <3>2. inbox' \in Seq(Messages)
      BY <3>1
    <3> QED
      BY <3>2 DEF BrokerType
  <2>8. HistoryType'  BY DEF HistoryType
  <2> QED  BY <2>1, <2>2, <2>3, <2>4, <2>5, <2>6, <2>7, <2>8
<1>50. CASE MqttUp
  <2> USE <1>50 DEF MqttUp
  <2>1. SettingsType'  BY DEF SettingsType
  <2>2. RecoveryType'  BY DEF RecoveryType
  <2>3. SeriesType'  BY DEF SeriesType
  <2>4. CounterType'  BY DEF CounterType
  <2>5. TickType'  BY DEF TickType
  <2>6. HubType'  BY DEF HubType
  <2>7. BrokerType'  BY DEF BrokerType
  <2>8. HistoryType'  BY DEF HistoryType
  <2> QED  BY <2>1, <2>2, <2>3, <2>4, <2>5, <2>6, <2>7, <2>8
<1>51. CASE AddonCrash
  <2> USE <1>51 DEF AddonCrash
  <2>1. SettingsType'  BY DEF SettingsType
  <2>2. RecoveryType'  BY DEF RecoveryType
  <2>3. SeriesType'  BY DEF SeriesType
  <2>4. CounterType'  BY DEF CounterType
  <2>5. TickType'  BY DEF TickType
  <2>6. HubType'  BY DEF HubType
  <2>7. BrokerType'  BY PublishType DEF BrokerType
  <2>8. HistoryType'  BY DEF HistoryType
  <2> QED  BY <2>1, <2>2, <2>3, <2>4, <2>5, <2>6, <2>7, <2>8
<1>52. CASE OtherClientConnects
  <2> USE <1>52 DEF OtherClientConnects
  <2>1. SettingsType'  BY DEF SettingsType
  <2>2. RecoveryType'  BY DEF RecoveryType
  <2>3. SeriesType'  BY DEF SeriesType
  <2>4. CounterType'  BY DEF CounterType
  <2>5. TickType'  BY DEF TickType
  <2>6. HubType'  BY DEF HubType
  <2>7. BrokerType'  BY DEF BrokerType
  <2>8. HistoryType'  BY DEF HistoryType
  <2> QED  BY <2>1, <2>2, <2>3, <2>4, <2>5, <2>6, <2>7, <2>8
<1>53. CASE OtherClientLeaves
  <2> USE <1>53 DEF OtherClientLeaves
  <2>1. SettingsType'  BY DEF SettingsType
  <2>2. RecoveryType'  BY DEF RecoveryType
  <2>3. SeriesType'  BY DEF SeriesType
  <2>4. CounterType'  BY DEF CounterType
  <2>5. TickType'  BY DEF TickType
  <2>6. HubType'  BY DEF HubType
  <2>7. BrokerType'  BY DEF BrokerType
  <2>8. HistoryType'  BY DEF HistoryType
  <2> QED  BY <2>1, <2>2, <2>3, <2>4, <2>5, <2>6, <2>7, <2>8
<1>54. CASE ProbeSocketCloses
  <2> USE <1>54 DEF ProbeSocketCloses
  <2>1. SettingsType'  BY DEF SettingsType
  <2>2. RecoveryType'  BY DEF RecoveryType
  <2>3. SeriesType'  BY DEF SeriesType
  <2>4. CounterType'  BY DEF CounterType
  <2>5. TickType'  BY DEF TickType
  <2>6. HubType'  BY DEF HubType
  <2>7. BrokerType'  BY DEF BrokerType
  <2>8. HistoryType'  BY DEF HistoryType
  <2> QED  BY <2>1, <2>2, <2>3, <2>4, <2>5, <2>6, <2>7, <2>8
<1>55. CASE Z2MConnect
  <2> USE <1>55 DEF Z2MConnect
  <2>1. SettingsType'  BY DEF SettingsType
  <2>2. RecoveryType'  BY DEF RecoveryType
  <2>3. SeriesType'  BY DEF SeriesType
  <2>4. CounterType'  BY DEF CounterType
  <2>5. TickType'  BY DEF TickType
  <2>6. HubType'  BY DEF HubType
  <2>7. BrokerType'  BY DEF BrokerType
  <2>8. HistoryType'  BY DEF HistoryType
  <2> QED  BY <2>1, <2>2, <2>3, <2>4, <2>5, <2>6, <2>7, <2>8
<1>56. CASE Z2MAnnounce
  <2> USE <1>56 DEF Z2MAnnounce
  <2>1. SettingsType'  BY DEF SettingsType
  <2>2. RecoveryType'  BY DEF RecoveryType
  <2>3. SeriesType'  BY DEF SeriesType
  <2>4. CounterType'  BY DEF CounterType
  <2>5. TickType'  BY DEF TickType
  <2>6. HubType'  BY DEF HubType
  <2>7. BrokerType'  BY PublishType DEF BrokerType
  <2>8. HistoryType'  BY DEF HistoryType
  <2> QED  BY <2>1, <2>2, <2>3, <2>4, <2>5, <2>6, <2>7, <2>8
<1>57. CASE UNCHANGED vars
  BY <1>57 DEF vars, SettingsType, RecoveryType, SeriesType, CounterType,
       TickType, HubType, BrokerType, HistoryType
<1> QED
  BY <1>1, <1>2, <1>3, <1>4, <1>5, <1>6, <1>7, <1>8, <1>9, <1>10, <1>11,
       <1>12, <1>13, <1>14, <1>15, <1>16, <1>17, <1>18, <1>19, <1>20, <1>21,
       <1>22, <1>23, <1>24, <1>25, <1>26, <1>27, <1>28, <1>29, <1>30, <1>31,
       <1>32, <1>33, <1>34, <1>35, <1>36, <1>37, <1>38, <1>39, <1>40, <1>41,
       <1>42, <1>43, <1>44, <1>45, <1>46, <1>47, <1>48, <1>49, <1>50, <1>51,
       <1>52, <1>53, <1>54, <1>55, <1>56, <1>57
     DEF Next, Tick, Dialog, Timers, Late, Operator, Surroundings

\* The guard, its add-on, hub and broker always keep the types declared above,
\* and a series of attempts never passes its limit.
THEOREM TypeCorrect == Spec => []TypeOK
<1>1. TypeOK /\ [Next]_vars => TypeOK'
  BY TypeNext
<1> QED
  BY TypeInit, <1>1, PTL DEF Spec

-----------------------------------------------------------------------------
(* The invariant of the recovery tick.                                     *)

\* The variables GuardInv is about.
watched == <<enabled, paused, dialog, phase, bridge_online, allow_online,
             pending, reset_done, probe_runtime_id, started_at, runtime_id, pc,
             why, snap, probed, spent>>

\* What a step that leaves them alone does to the invariant: a newer relay
\* only makes the one of the snapshot older.
LEMMA Unwatched ==
  ASSUME GuardInv, TypeOK', UNCHANGED watched, relay' \in {relay, relay + 1}
  PROVE  GuardInv'
<1>1. snap.runtime \in Nat /\ relay \in Nat
  BY DEF GuardInv, TypeOK, TickType, HubType
<1>2. ProbeMemory'
  BY <1>1 DEF GuardInv, ProbeMemory, watched
<1>3. Held' /\ Preparation' /\ Preparing' = Preparing
  BY DEF GuardInv, Held, Preparation, Preparing, watched
<1>4. PreflightReady' /\ FreshRestart' /\ Grant'
  BY DEF GuardInv, PreflightReady, Preflight, FreshRestart, Grant, Applying, watched
<1>5. Belief' /\ Verified'
  BY DEF GuardInv, Belief, Verified, Applying, watched
<1> QED
  BY <1>2, <1>3, <1>4, <1>5 DEF GuardInv

LEMMA GuardInit == Init => GuardInv
<1> SUFFICES ASSUME Init PROVE GuardInv
  OBVIOUS
<1>1. TypeOK
  BY TypeInit
<1>2. snap.runtime <= relay
  BY DEF Init, NoRuntime, NoSnapshot
<1> QED
  BY <1>1, <1>2
  DEF Init, GuardInv, Held, Preparation, Preparing, PreflightReady, Preflight,
      FreshRestart, ProbeMemory, Grant, Belief, Verified, NoSnapshot

LEMMA GuardNext == GuardInv /\ [Next]_vars => GuardInv'
<1> SUFFICES ASSUME GuardInv, [Next]_vars PROVE GuardInv'
  OBVIOUS
<1>t. TypeOK'
  BY TypeNext DEF GuardInv
<1>r. /\ relay \in Nat /\ snap.runtime \in Nat /\ relay # NoRuntime
      /\ relay + 1 \in Nat
  BY DEF GuardInv, TypeOK, HubType, TickType
<1>f. GuardInv
  OBVIOUS
<1> USE <1>r, NoRuntimeFacts DEF GuardInv, Held, Preparation, Preparing, PreflightReady,
        Preflight, FreshRestart, ProbeMemory, Grant, Belief, Verified, Applying,
        config, memory, world, settings, flow, ack, recovery, series, tick,
        hub, broker, history, guardState, Done, Forget, NoSnapshot
<1>1. CASE TickBegin
  <2> USE <1>1 DEF TickBegin
  <2>1. Held'  OBVIOUS
  <2>2. Preparation'  OBVIOUS
  <2>3. PreflightReady'  OBVIOUS
  <2>4. FreshRestart'  OBVIOUS
  <2>5. ProbeMemory'  OBVIOUS
  <2>6. Grant'  OBVIOUS
  <2>7. Belief'  OBVIOUS
  <2>8. Verified'  OBVIOUS
  <2> QED  BY <1>t, <2>1, <2>2, <2>3, <2>4, <2>5, <2>6, <2>7, <2>8
<1>2. CASE OwnershipTaken
  <2> USE <1>2 DEF OwnershipTaken, Invalidate, EnsureStopped
  <2>1. Held'  OBVIOUS
  <2>2. Preparation'  OBVIOUS
  <2>3. PreflightReady'  OBVIOUS
  <2>4. FreshRestart'  OBVIOUS
  <2>5. ProbeMemory'  OBVIOUS
  <2>6. Grant'  OBVIOUS
  <2>7. Belief'  OBVIOUS
  <2>8. Verified'  OBVIOUS
  <2> QED  BY <1>t, <2>1, <2>2, <2>3, <2>4, <2>5, <2>6, <2>7, <2>8
<1>3. CASE OwnershipFails
  <2> USE <1>3 DEF OwnershipFails
  <2>1. Held'  OBVIOUS
  <2>2. Preparation'  OBVIOUS
  <2>3. PreflightReady'  OBVIOUS
  <2>4. FreshRestart'  OBVIOUS
  <2>5. ProbeMemory'  OBVIOUS
  <2>6. Grant'  OBVIOUS
  <2>7. Belief'  OBVIOUS
  <2>8. Verified'  OBVIOUS
  <2> QED  BY <1>t, <2>1, <2>2, <2>3, <2>4, <2>5, <2>6, <2>7, <2>8
<1>4. CASE SnapshotFails
  <2> USE <1>4 DEF SnapshotFails, Invalidate, EnsureStopped
  <2>1. Held'  OBVIOUS
  <2>2. Preparation'  OBVIOUS
  <2>3. PreflightReady'  OBVIOUS
  <2>4. FreshRestart'  OBVIOUS
  <2>5. ProbeMemory'  OBVIOUS
  <2>6. Grant'  OBVIOUS
  <2>7. Belief'  OBVIOUS
  <2>8. Verified'  OBVIOUS
  <2> QED  BY <1>t, <2>1, <2>2, <2>3, <2>4, <2>5, <2>6, <2>7, <2>8
<1>5. CASE TickVerified
  <2>0. snap' \in {snap, NoSnapshot}
    BY <1>5 DEF TickVerified
  <2>1. /\ pc = "snapshot" /\ ~pending
        /\ UNCHANGED <<relay, probed, spent, dialog>> /\ dialog = "none"
        /\ runtime_id' = relay
        /\ enabled' = enabled
    BY <1>5 DEF TickVerified, Observe
  <2>2. allow_online => runtime_id' = runtime_id
    BY <1>5 DEF TickVerified, Observe, RuntimeChanged
  <2>3. \/ /\ pc' = "save_pause"
           /\ UNCHANGED <<phase, ack, recovery>>
        \/ /\ UNCHANGED paused
           /\ pc' = "publish" /\ why' \in {"transport", "bridge"}
           /\ Invalidate
           /\ allow_online' = FALSE /\ bridge_online' = FALSE
        \/ /\ UNCHANGED <<paused, ack, recovery>>
           /\ pc' = "idle"
    BY <1>5 DEF TickVerified, Observe, EnsureStopped
  <2>4. Held' /\ Preparation'
    BY <2>1, <2>3
  <2>5. PreflightReady' /\ FreshRestart'
    BY <2>1, <2>3 DEF Invalidate
  <2>6. ProbeMemory'
    BY <2>0, <2>1, <2>3 DEF Invalidate
  <2>7. Grant'
    BY <2>1, <2>2, <2>3 DEF Invalidate
  <2>8. Belief'
    BY <2>1, <2>3 DEF Invalidate
  <2>9. Verified'
    BY <2>1, <2>3 DEF Invalidate
  <2> QED  BY <1>t, <2>4, <2>5, <2>6, <2>7, <2>8, <2>9
<1>6. CASE TickStarting
  <2>0. snap' \in {snap, NoSnapshot}
    BY <1>6 DEF TickStarting
  <2>1. /\ pc = "snapshot" /\ pending /\ started_at # "none"
        /\ ~paused /\ enabled
        /\ UNCHANGED <<relay, probed, spent, settings, dialog>> /\ dialog = "none"
        /\ runtime_id' = relay
        /\ (allow_online => runtime_id' = runtime_id)
    BY <1>6 DEF TickStarting, Observe, RuntimeChanged
  <2>2. \/ /\ pending' = FALSE /\ started_at' = "none" /\ pc' = "idle"
           /\ UNCHANGED <<ack, reset_done, probe_runtime_id>>
        \/ /\ UNCHANGED <<ack, recovery>>
           /\ phase' = "starting" /\ pc' = "idle"
        \/ /\ Invalidate /\ UNCHANGED phase
           /\ pc' = "publish" /\ why' = "timeout"
           /\ allow_online' = FALSE /\ bridge_online' = FALSE
    BY <1>6 DEF TickStarting, EnsureStopped
  <2>3. Held' /\ Preparation'
    BY <2>1, <2>2
  <2>4. PreflightReady' /\ FreshRestart'
    BY <2>1, <2>2 DEF Invalidate
  <2>5. ProbeMemory'
    <3>1. probe_runtime_id' \in {probe_runtime_id, NoRuntime}
      BY <2>2 DEF Invalidate
    <3> QED
      BY <2>0, <2>1, <3>1
  <2>6. Grant'
    BY <2>1, <2>2 DEF Invalidate
  <2>7. Belief'
    <3>1. CASE UNCHANGED ack
      BY <2>1, <2>2, <3>1 DEF Invalidate
    <3>2. CASE Invalidate /\ bridge_online' = FALSE
      BY <3>2 DEF Invalidate
    <3> QED
      BY <2>2, <3>1, <3>2
  <2>8. Verified'
    BY <2>1, <2>2 DEF Invalidate
  <2> QED  BY <1>t, <2>3, <2>4, <2>5, <2>6, <2>7, <2>8
<1>7. CASE TickPrepare
  <2> USE <1>7 DEF TickPrepare, Observe, Invalidate, EnsureStopped, RuntimeChanged
  <2>1. Held'  OBVIOUS
  <2>2. Preparation'  OBVIOUS
  <2>3. PreflightReady'  OBVIOUS
  <2>4. FreshRestart'  OBVIOUS
  <2>5. ProbeMemory'  OBVIOUS
  <2>6. Grant'  OBVIOUS
  <2>7. Belief'  OBVIOUS
  <2>8. Verified'  OBVIOUS
  <2> QED  BY <1>t, <2>1, <2>2, <2>3, <2>4, <2>5, <2>6, <2>7, <2>8
<1>8. CASE SavePause
  <2> USE <1>8 DEF SavePause
  <2>1. Held'  OBVIOUS
  <2>2. Preparation'  OBVIOUS
  <2>3. PreflightReady'  OBVIOUS
  <2>4. FreshRestart'  OBVIOUS
  <2>5. ProbeMemory'  OBVIOUS
  <2>6. Grant'  OBVIOUS
  <2>7. Belief'  OBVIOUS
  <2>8. Verified'  OBVIOUS
  <2> QED  BY <1>t, <2>1, <2>2, <2>3, <2>4, <2>5, <2>6, <2>7, <2>8
<1>9. CASE PublishOk
  <2> USE <1>9 DEF PublishOk, Continue, Prepare
  <2>1. Held'  OBVIOUS
  <2>2. Preparation'  OBVIOUS
  <2>3. PreflightReady'  OBVIOUS
  <2>4. FreshRestart'  OBVIOUS
  <2>5. ProbeMemory'  OBVIOUS
  <2>6. Grant'  OBVIOUS
  <2>7. Belief'  OBVIOUS
  <2>8. Verified'  OBVIOUS
  <2> QED  BY <1>t, <2>1, <2>2, <2>3, <2>4, <2>5, <2>6, <2>7, <2>8
<1>10. CASE CommandFails
  <2> USE <1>10 DEF CommandFails, Raise
  <2>1. Held'  OBVIOUS
  <2>2. Preparation'  OBVIOUS
  <2>3. PreflightReady'  OBVIOUS
  <2>4. FreshRestart'  OBVIOUS
  <2>5. ProbeMemory'  OBVIOUS
  <2>6. Grant'  OBVIOUS
  <2>7. Belief'  OBVIOUS
  <2>8. Verified'  OBVIOUS
  <2> QED  BY <1>t, <2>1, <2>2, <2>3, <2>4, <2>5, <2>6, <2>7, <2>8
<1>11. CASE StopOk
  <2> USE <1>11 DEF StopOk, StopAddon
  <2>1. Held'  OBVIOUS
  <2>2. Preparation'  OBVIOUS
  <2>3. PreflightReady'  OBVIOUS
  <2>4. FreshRestart'  OBVIOUS
  <2>5. ProbeMemory'  OBVIOUS
  <2>6. Grant'  OBVIOUS
  <2>7. Belief'  OBVIOUS
  <2>8. Verified'  OBVIOUS
  <2> QED  BY <1>t, <2>1, <2>2, <2>3, <2>4, <2>5, <2>6, <2>7, <2>8
<1>12. CASE StopFails
  <2> USE <1>12 DEF StopFails, Raise
  <2>1. Held'  OBVIOUS
  <2>2. Preparation'  OBVIOUS
  <2>3. PreflightReady'  OBVIOUS
  <2>4. FreshRestart'  OBVIOUS
  <2>5. ProbeMemory'  OBVIOUS
  <2>6. Grant'  OBVIOUS
  <2>7. Belief'  OBVIOUS
  <2>8. Verified'  OBVIOUS
  <2> QED  BY <1>t, <2>1, <2>2, <2>3, <2>4, <2>5, <2>6, <2>7, <2>8
<1>13. CASE VerifyOk
  <2> USE <1>13 DEF VerifyOk, Continue, Prepare
  <2>1. Held'  OBVIOUS
  <2>2. Preparation'  OBVIOUS
  <2>3. PreflightReady'  OBVIOUS
  <2>4. FreshRestart'  OBVIOUS
  <2>5. ProbeMemory'  OBVIOUS
  <2>6. Grant'  OBVIOUS
  <2>7. Belief'  OBVIOUS
  <2>8. Verified'  OBVIOUS
  <2> QED  BY <1>t, <2>1, <2>2, <2>3, <2>4, <2>5, <2>6, <2>7, <2>8
<1>14. CASE ResetOk
  <2> USE <1>14 DEF ResetOk, DropSessions
  <2>1. Held'  OBVIOUS
  <2>2. Preparation'  OBVIOUS
  <2>3. PreflightReady'  OBVIOUS
  <2>4. FreshRestart'  OBVIOUS
  <2>5. ProbeMemory'  OBVIOUS
  <2>6. Grant'  OBVIOUS
  <2>7. Belief'  OBVIOUS
  <2>8. Verified'  OBVIOUS
  <2> QED  BY <1>t, <2>1, <2>2, <2>3, <2>4, <2>5, <2>6, <2>7, <2>8
<1>15. CASE ResetFails
  <2> USE <1>15 DEF ResetFails, Raise
  <2>1. Held'  OBVIOUS
  <2>2. Preparation'  OBVIOUS
  <2>3. PreflightReady'  OBVIOUS
  <2>4. FreshRestart'  OBVIOUS
  <2>5. ProbeMemory'  OBVIOUS
  <2>6. Grant'  OBVIOUS
  <2>7. Belief'  OBVIOUS
  <2>8. Verified'  OBVIOUS
  <2> QED  BY <1>t, <2>1, <2>2, <2>3, <2>4, <2>5, <2>6, <2>7, <2>8
<1>16. CASE RecheckOk
  <2> USE <1>16 DEF RecheckOk
  <2>1. Held'  OBVIOUS
  <2>2. Preparation'  OBVIOUS
  <2>3. PreflightReady'  OBVIOUS
  <2>4. FreshRestart'  OBVIOUS
  <2>5. ProbeMemory'  OBVIOUS
  <2>6. Grant'  OBVIOUS
  <2>7. Belief'  OBVIOUS
  <2>8. Verified'  OBVIOUS
  <2> QED  BY <1>t, <2>1, <2>2, <2>3, <2>4, <2>5, <2>6, <2>7, <2>8
<1>17. CASE RecheckFails
  <2> USE <1>17 DEF RecheckFails, PreflightAborts, Invalidate, Raise
  <2>1. Held'  OBVIOUS
  <2>2. Preparation'  OBVIOUS
  <2>3. PreflightReady'  OBVIOUS
  <2>4. FreshRestart'  OBVIOUS
  <2>5. ProbeMemory'  OBVIOUS
  <2>6. Grant'  OBVIOUS
  <2>7. Belief'  OBVIOUS
  <2>8. Verified'  OBVIOUS
  <2> QED  BY <1>t, <2>1, <2>2, <2>3, <2>4, <2>5, <2>6, <2>7, <2>8
<1>18. CASE ProbeOk
  <2> USE <1>18 DEF ProbeOk
  <2>1. Held'  OBVIOUS
  <2>2. Preparation'  OBVIOUS
  <2>3. PreflightReady'  OBVIOUS
  <2>4. FreshRestart'  OBVIOUS
  <2>5. ProbeMemory'  OBVIOUS
  <2>6. Grant'  OBVIOUS
  <2>7. Belief'  OBVIOUS
  <2>8. Verified'  OBVIOUS
  <2> QED  BY <1>t, <2>1, <2>2, <2>3, <2>4, <2>5, <2>6, <2>7, <2>8
<1>19. CASE ProbeFails
  <2> USE <1>19 DEF ProbeFails, PreflightAborts, Invalidate, Raise
  <2>1. Held'  OBVIOUS
  <2>2. Preparation'  OBVIOUS
  <2>3. PreflightReady'  OBVIOUS
  <2>4. FreshRestart'  OBVIOUS
  <2>5. ProbeMemory'  OBVIOUS
  <2>6. Grant'  OBVIOUS
  <2>7. Belief'  OBVIOUS
  <2>8. Verified'  OBVIOUS
  <2> QED  BY <1>t, <2>1, <2>2, <2>3, <2>4, <2>5, <2>6, <2>7, <2>8
<1>20. CASE AfterOk
  <2> USE <1>20 DEF AfterOk
  <2>0. /\ enabled /\ ~paused /\ runtime_id = snap.runtime
        /\ snap.runtime # NoRuntime /\ probed = snap.runtime
    BY DEF SameRuntime
  <2>1. Held' /\ Preparation'  OBVIOUS
  <2>2. PreflightReady' /\ FreshRestart'  BY <2>0
  <2>3. ProbeMemory'  BY <2>0
  <2>4. Grant'
    <3>1. CASE UNCHANGED ack
      BY <3>1
    <3>2. CASE started_at' = "waiting"
      BY <2>0, <3>2
    <3> QED
      BY <3>1, <3>2
  <2>5. Belief' /\ Verified'  OBVIOUS
  <2> QED  BY <1>t, <2>1, <2>2, <2>3, <2>4, <2>5
<1>21. CASE AfterFails
  <2> USE <1>21 DEF AfterFails, PreflightAborts, Invalidate, Raise
  <2>1. Held'  OBVIOUS
  <2>2. Preparation'  OBVIOUS
  <2>3. PreflightReady'  OBVIOUS
  <2>4. FreshRestart'  OBVIOUS
  <2>5. ProbeMemory'  OBVIOUS
  <2>6. Grant'  OBVIOUS
  <2>7. Belief'  OBVIOUS
  <2>8. Verified'  OBVIOUS
  <2> QED  BY <1>t, <2>1, <2>2, <2>3, <2>4, <2>5, <2>6, <2>7, <2>8
<1>22. CASE StartOk
  <2> USE <1>22 DEF StartOk
  <2>1. Held'  OBVIOUS
  <2>2. Preparation'  OBVIOUS
  <2>3. PreflightReady'  OBVIOUS
  <2>4. FreshRestart'  OBVIOUS
  <2>5. ProbeMemory'  OBVIOUS
  <2>6. Grant'  OBVIOUS
  <2>7. Belief'  OBVIOUS
  <2>8. Verified'  OBVIOUS
  <2> QED  BY <1>t, <2>1, <2>2, <2>3, <2>4, <2>5, <2>6, <2>7, <2>8
<1>23. CASE StartFails
  <2> USE <1>23 DEF StartFails, PreflightAborts, Invalidate, Raise
  <2>1. Held'  OBVIOUS
  <2>2. Preparation'  OBVIOUS
  <2>3. PreflightReady'  OBVIOUS
  <2>4. FreshRestart'  OBVIOUS
  <2>5. ProbeMemory'  OBVIOUS
  <2>6. Grant'  OBVIOUS
  <2>7. Belief'  OBVIOUS
  <2>8. Verified'  OBVIOUS
  <2> QED  BY <1>t, <2>1, <2>2, <2>3, <2>4, <2>5, <2>6, <2>7, <2>8
<1>24. CASE HandlerStopOk
  <2> USE <1>24 DEF HandlerStopOk, StopAddon
  <2>1. Held'  OBVIOUS
  <2>2. Preparation'  OBVIOUS
  <2>3. PreflightReady'  OBVIOUS
  <2>4. FreshRestart'  OBVIOUS
  <2>5. ProbeMemory'  OBVIOUS
  <2>6. Grant'  OBVIOUS
  <2>7. Belief'  OBVIOUS
  <2>8. Verified'  OBVIOUS
  <2> QED  BY <1>t, <2>1, <2>2, <2>3, <2>4, <2>5, <2>6, <2>7, <2>8
<1>25. CASE HandlerStopFails
  <2> USE <1>25 DEF HandlerStopFails
  <2>1. Held'  OBVIOUS
  <2>2. Preparation'  OBVIOUS
  <2>3. PreflightReady'  OBVIOUS
  <2>4. FreshRestart'  OBVIOUS
  <2>5. ProbeMemory'  OBVIOUS
  <2>6. Grant'  OBVIOUS
  <2>7. Belief'  OBVIOUS
  <2>8. Verified'  OBVIOUS
  <2> QED  BY <1>t, <2>1, <2>2, <2>3, <2>4, <2>5, <2>6, <2>7, <2>8
<1>26. CASE HandlerPublish
  <2> USE <1>26 DEF HandlerPublish
  <2>1. Held'  OBVIOUS
  <2>2. Preparation'  OBVIOUS
  <2>3. PreflightReady'  OBVIOUS
  <2>4. FreshRestart'  OBVIOUS
  <2>5. ProbeMemory'  OBVIOUS
  <2>6. Grant'  OBVIOUS
  <2>7. Belief'  OBVIOUS
  <2>8. Verified'  OBVIOUS
  <2> QED  BY <1>t, <2>1, <2>2, <2>3, <2>4, <2>5, <2>6, <2>7, <2>8
<1>27. CASE Receive
  <2>1. /\ UNCHANGED <<settings, flow, phase, allow_online, recovery, series,
                       pc, tick, hub, history>>
        /\ bridge_online' => bridge_online \/ allow_online
    <3>0. inbox \in Seq(Messages) /\ inbox # <<>>
      BY <1>27 DEF Receive, TypeOK, BrokerType
    <3>. Head(inbox) \in Messages
      BY <3>0
    <3>1. CASE UNCHANGED ack
      BY <1>27, <3>1 DEF Receive
    <3>2. CASE bridge_online' = FALSE
      BY <1>27, <3>2 DEF Receive
    <3>3. CASE bridge_online' = (Head(inbox) # "offline")
      BY <1>27, <3>3 DEF Receive, Messages
    <3> QED
      BY <1>27, <3>1, <3>2, <3>3 DEF Receive
  <2>2. Held' /\ Preparation' /\ PreflightReady' /\ FreshRestart'
    BY <2>1
  <2>3. ProbeMemory' /\ Grant'
    BY <2>1
  <2>4. Belief'
    BY <2>1
  <2>5. Verified'
    BY <2>1
  <2> QED  BY <1>t, <2>2, <2>3, <2>4, <2>5
<1>28. CASE StartDeadline
  <2> USE <1>28 DEF StartDeadline
  <2>1. Held'  OBVIOUS
  <2>2. Preparation'  OBVIOUS
  <2>3. PreflightReady'  OBVIOUS
  <2>4. FreshRestart'  OBVIOUS
  <2>5. ProbeMemory'  OBVIOUS
  <2>6. Grant'  OBVIOUS
  <2>7. Belief'  OBVIOUS
  <2>8. Verified'  OBVIOUS
  <2> QED  BY <1>t, <2>1, <2>2, <2>3, <2>4, <2>5, <2>6, <2>7, <2>8
<1>29. CASE Configure
  <2> USE <1>29 DEF Configure, LockFree
  <2>1. Held'  OBVIOUS
  <2>2. Preparation'  OBVIOUS
  <2>3. PreflightReady'  OBVIOUS
  <2>4. FreshRestart'  OBVIOUS
  <2>5. ProbeMemory'  OBVIOUS
  <2>6. Grant'  OBVIOUS
  <2>7. Belief'  OBVIOUS
  <2>8. Verified'  OBVIOUS
  <2> QED  BY <1>t, <2>1, <2>2, <2>3, <2>4, <2>5, <2>6, <2>7, <2>8
<1>30. CASE ConfigureRefused
  <2> USE <1>30 DEF ConfigureRefused, outside
  <2>1. Held'  OBVIOUS
  <2>2. Preparation'  OBVIOUS
  <2>3. PreflightReady'  OBVIOUS
  <2>4. FreshRestart'  OBVIOUS
  <2>5. ProbeMemory'  OBVIOUS
  <2>6. Grant'  OBVIOUS
  <2>7. Belief'  OBVIOUS
  <2>8. Verified'  OBVIOUS
  <2> QED  BY <1>t, <2>1, <2>2, <2>3, <2>4, <2>5, <2>6, <2>7, <2>8
<1>31. CASE Adopt
  <2> USE <1>31 DEF Adopt, NewSeries
  <2>1. Held'  OBVIOUS
  <2>2. Preparation'  OBVIOUS
  <2>3. PreflightReady'  OBVIOUS
  <2>4. FreshRestart'  OBVIOUS
  <2>5. ProbeMemory'  OBVIOUS
  <2>6. Grant'  OBVIOUS
  <2>7. Belief'  OBVIOUS
  <2>8. Verified'  OBVIOUS
  <2> QED  BY <1>t, <2>1, <2>2, <2>3, <2>4, <2>5, <2>6, <2>7, <2>8
<1>32. CASE ConfigureSaved
  <2> USE <1>32 DEF ConfigureSaved, outside
  <2>1. Held'  OBVIOUS
  <2>2. Preparation'  OBVIOUS
  <2>3. PreflightReady'  OBVIOUS
  <2>4. FreshRestart'  OBVIOUS
  <2>5. ProbeMemory'  OBVIOUS
  <2>6. Grant'  OBVIOUS
  <2>7. Belief'  OBVIOUS
  <2>8. Verified'  OBVIOUS
  <2> QED  BY <1>t, <2>1, <2>2, <2>3, <2>4, <2>5, <2>6, <2>7, <2>8
<1>33. CASE Subscribed
  <2> USE <1>33 DEF Subscribed, outside
  <2>1. Held'  OBVIOUS
  <2>2. Preparation'  OBVIOUS
  <2>3. PreflightReady'  OBVIOUS
  <2>4. FreshRestart'  OBVIOUS
  <2>5. ProbeMemory'  OBVIOUS
  <2>6. Grant'  OBVIOUS
  <2>7. Belief'  OBVIOUS
  <2>8. Verified'  OBVIOUS
  <2> QED  BY <1>t, <2>1, <2>2, <2>3, <2>4, <2>5, <2>6, <2>7, <2>8
<1>34. CASE Configured
  <2> USE <1>34 DEF Configured, outside
  <2>1. Held'  OBVIOUS
  <2>2. Preparation'  OBVIOUS
  <2>3. PreflightReady'  OBVIOUS
  <2>4. FreshRestart'  OBVIOUS
  <2>5. ProbeMemory'  OBVIOUS
  <2>6. Grant'  OBVIOUS
  <2>7. Belief'  OBVIOUS
  <2>8. Verified'  OBVIOUS
  <2> QED  BY <1>t, <2>1, <2>2, <2>3, <2>4, <2>5, <2>6, <2>7, <2>8
<1>35. CASE ConfigureFails
  <2> USE <1>35 DEF ConfigureFails, outside
  <2>1. Held'  OBVIOUS
  <2>2. Preparation'  OBVIOUS
  <2>3. PreflightReady'  OBVIOUS
  <2>4. FreshRestart'  OBVIOUS
  <2>5. ProbeMemory'  OBVIOUS
  <2>6. Grant'  OBVIOUS
  <2>7. Belief'  OBVIOUS
  <2>8. Verified'  OBVIOUS
  <2> QED  BY <1>t, <2>1, <2>2, <2>3, <2>4, <2>5, <2>6, <2>7, <2>8
<1>36. CASE ConfigureUndone
  <2> USE <1>36 DEF ConfigureUndone, outside
  <2>1. Held'  OBVIOUS
  <2>2. Preparation'  OBVIOUS
  <2>3. PreflightReady'  OBVIOUS
  <2>4. FreshRestart'  OBVIOUS
  <2>5. ProbeMemory'  OBVIOUS
  <2>6. Grant'  OBVIOUS
  <2>7. Belief'  OBVIOUS
  <2>8. Verified'  OBVIOUS
  <2> QED  BY <1>t, <2>1, <2>2, <2>3, <2>4, <2>5, <2>6, <2>7, <2>8
<1>37. CASE Reload
  <2> USE <1>37 DEF Reload, Invalidate
  <2>1. Held'  OBVIOUS
  <2>2. Preparation'  OBVIOUS
  <2>3. PreflightReady'  OBVIOUS
  <2>4. FreshRestart'  OBVIOUS
  <2>5. ProbeMemory'  OBVIOUS
  <2>6. Grant'  OBVIOUS
  <2>7. Belief'  OBVIOUS
  <2>8. Verified'  OBVIOUS
  <2> QED  BY <1>t, <2>1, <2>2, <2>3, <2>4, <2>5, <2>6, <2>7, <2>8
<1>38. ASSUME UNCHANGED watched, relay' \in {relay, relay + 1} PROVE GuardInv'
  BY <1>38, <1>t, Unwatched
<1>39. CASE BackoffElapses
  BY <1>39, <1>38 DEF BackoffElapses, watched
<1>40. CASE CandidateSettles
  BY <1>40, <1>38 DEF CandidateSettles, watched
<1>41. CASE LateStart
  BY <1>41, <1>38 DEF LateStart, watched, beyond
<1>42. CASE LateStop
  BY <1>42, <1>38 DEF LateStop, watched, beyond, StopAddon
<1>43. CASE LateReset
  BY <1>43, <1>38 DEF LateReset, watched, beyond
<1>44. CASE LateProbe
  BY <1>44, <1>38 DEF LateProbe, watched, beyond
<1>45. CASE UserStart
  BY <1>45, <1>38 DEF UserStart, watched
<1>46. CASE UserStop
  BY <1>46, <1>38 DEF UserStop, watched, StopAddon
<1>47. CASE HubDown
  BY <1>47, <1>38 DEF HubDown, watched, DropSessions
<1>48. CASE MqttDown
  BY <1>48, <1>38 DEF MqttDown, watched
<1>49. CASE MqttUp
  BY <1>49, <1>38 DEF MqttUp, watched
<1>50. CASE AddonCrash
  BY <1>50, <1>38 DEF AddonCrash, watched
<1>51. CASE OtherClientConnects
  BY <1>51, <1>38 DEF OtherClientConnects, watched
<1>52. CASE OtherClientLeaves
  BY <1>52, <1>38 DEF OtherClientLeaves, watched
<1>53. CASE ProbeSocketCloses
  BY <1>53, <1>38 DEF ProbeSocketCloses, watched
<1>54. CASE Z2MConnect
  BY <1>54, <1>38 DEF Z2MConnect, watched
<1>55. CASE Z2MAnnounce
  BY <1>55, <1>38 DEF Z2MAnnounce, watched
<1>56. CASE HubUp
  BY <1>56, <1>38 DEF HubUp, watched
<1>57. CASE RelayRestart
  BY <1>57, <1>38 DEF RelayRestart, watched, DropSessions
<1>58. CASE UNCHANGED vars
  BY <1>58, <1>38 DEF vars, watched
<1> QED
  BY <1>1, <1>2, <1>3, <1>4, <1>5, <1>6, <1>7, <1>8, <1>9, <1>10, <1>11,
       <1>12, <1>13, <1>14, <1>15, <1>16, <1>17, <1>18, <1>19, <1>20, <1>21,
       <1>22, <1>23, <1>24, <1>25, <1>26, <1>27, <1>28, <1>29, <1>30, <1>31,
       <1>32, <1>33, <1>34, <1>35, <1>36, <1>37, <1>39, <1>40, <1>41, <1>42,
       <1>43, <1>44, <1>45, <1>46, <1>47, <1>48, <1>49, <1>50, <1>51, <1>52,
       <1>53, <1>54, <1>55, <1>56, <1>57, <1>58
     DEF Next, Tick, Dialog, Timers, Late, Operator, Surroundings

\* The invariant holds in every state of every behaviour.
THEOREM GuardInvariant == Spec => []GuardInv
  BY GuardInit, GuardNext, PTL DEF Spec

\* The guard starts Zigbee2MQTT only on the relay its last probe talked to, on
\* a radio restarted for this start, while supervision is on and not paused.
THEOREM StartsOnlyProbed == Spec => []StartsOnlyProbedRuntime
<1>1. GuardInv => StartsOnlyProbedRuntime
  BY DEF GuardInv, Held, PreflightReady, Preflight, StartsOnlyProbedRuntime
<1> QED
  BY GuardInvariant, <1>1, PTL

\* Messages of the bridge are believed only for a start of the probed relay.
THEOREM GrantsCarryProbe == Spec => []GrantCarriesProbe
<1>1. GuardInv => GrantCarriesProbe
  BY DEF GuardInv, Grant, GrantCarriesProbe
<1> QED
  BY GuardInvariant, <1>1, PTL

\* Ready always means a confirmed start on the relay that was probed.
THEOREM ReadyIsVerified == Spec => []VerifiedRuntime
<1>1. GuardInv => VerifiedRuntime
  BY DEF GuardInv, Grant, Belief, Verified, Applying, VerifiedRuntime, Ready
<1> QED
  BY GuardInvariant, <1>1, PTL

-----------------------------------------------------------------------------
(* Exclusive use of the radio.                                             *)

\* What the tick read of a stopped add-on stays true until it starts it.
RadioInv ==
  /\ TypeOK
  /\ pc \in {"snapshot", "save_pause", "publish"} /\ info = "stopped"
       => addon = "stopped" \/ stray = "on"
  /\ pc \in {"reset", "recheck", "probe", "after", "start"}
       => addon = "stopped" \/ stray = "on"

LEMMA RadioNext ==
  ASSUME RadioInv, [Next]_vars
  PROVE  RadioInv'
<1>t. TypeOK'
  BY TypeNext DEF RadioInv
<1> USE DEF RadioInv, config, world, settings, hub, tick, history, guardState, Done,
            Forget, Fault
<1>1. CASE TickBegin
  BY <1>t, <1>1 DEF TickBegin
<1>2. CASE OwnershipTaken
  BY <1>t, <1>2 DEF OwnershipTaken, EnsureStopped
<1>3. CASE OwnershipFails
  BY <1>t, <1>3 DEF OwnershipFails
<1>4. CASE SnapshotFails
  BY <1>t, <1>4 DEF SnapshotFails, EnsureStopped
<1>5. CASE TickVerified
  BY <1>t, <1>5 DEF TickVerified, Observe, EnsureStopped
<1>6. CASE TickStarting
  BY <1>t, <1>6 DEF TickStarting, Observe, EnsureStopped
<1>7. CASE TickPrepare
  BY <1>t, <1>7 DEF TickPrepare, Observe, EnsureStopped
<1>8. CASE SavePause
  BY <1>t, <1>8 DEF SavePause
<1>9. CASE PublishOk
  BY <1>t, <1>9 DEF PublishOk, Continue, Prepare
<1>10. CASE CommandFails
  BY <1>t, <1>10 DEF CommandFails, Raise
<1>11. CASE StopOk
  BY <1>t, <1>11 DEF StopOk, StopAddon
<1>12. CASE StopFails
  BY <1>t, <1>12 DEF StopFails, Raise
<1>13. CASE VerifyOk
  BY <1>t, <1>13 DEF VerifyOk, Continue, Prepare, StopConfirmed
<1>14. CASE ResetOk
  BY <1>t, <1>14 DEF ResetOk
<1>15. CASE ResetFails
  BY <1>t, <1>15 DEF ResetFails, Raise
<1>16. CASE RecheckOk
  BY <1>t, <1>16 DEF RecheckOk
<1>17. CASE RecheckFails
  BY <1>t, <1>17 DEF RecheckFails, PreflightAborts, Raise
<1>18. CASE ProbeOk
  BY <1>t, <1>18 DEF ProbeOk
<1>19. CASE ProbeFails
  BY <1>t, <1>19 DEF ProbeFails, PreflightAborts, Raise
<1>20. CASE AfterOk
  BY <1>t, <1>20 DEF AfterOk
<1>21. CASE AfterFails
  BY <1>t, <1>21 DEF AfterFails, PreflightAborts, Raise
<1>22. CASE StartOk
  BY <1>t, <1>22 DEF StartOk
<1>23. CASE StartFails
  BY <1>t, <1>23 DEF StartFails, PreflightAborts, Raise
<1>24. CASE HandlerStopOk
  BY <1>t, <1>24 DEF HandlerStopOk, StopAddon
<1>25. CASE HandlerStopFails
  BY <1>t, <1>25 DEF HandlerStopFails
<1>26. CASE HandlerPublish
  BY <1>t, <1>26 DEF HandlerPublish
<1>27. CASE Configure
  BY <1>t, <1>27 DEF Configure
<1>28. CASE Dialog
  BY <1>t, <1>28 DEF Dialog, ConfigureRefused, Adopt, ConfigureSaved, Subscribed,
       Configured, ConfigureFails, ConfigureUndone, outside
<1>29. CASE Reload
  BY <1>t, <1>29 DEF Reload
<1>30. CASE UserStart
  BY <1>t, <1>30 DEF UserStart
<1>31. CASE UserStop
  BY <1>t, <1>31 DEF UserStop, StopAddon
<1>32. CASE AddonCrash
  BY <1>t, <1>32 DEF AddonCrash
<1>33. CASE \/ BackoffElapses \/ CandidateSettles \/ StartDeadline \/ Receive
          \/ HubDown \/ HubUp \/ RelayRestart \/ MqttDown \/ MqttUp
          \/ OtherClientConnects \/ OtherClientLeaves \/ ProbeSocketCloses \/ Z2MConnect \/ Z2MAnnounce
  BY <1>t, <1>33 DEF BackoffElapses, CandidateSettles, StartDeadline, Receive,
       HubDown, HubUp, RelayRestart, MqttDown, MqttUp, OtherClientConnects,
       OtherClientLeaves, ProbeSocketCloses, Z2MConnect, Z2MAnnounce
<1>34. CASE LateStart
  BY <1>t, <1>34 DEF LateStart, beyond
<1>35. CASE LateStop
  BY <1>t, <1>35 DEF LateStop, beyond, StopAddon
<1>36. CASE LateReset \/ LateProbe
  BY <1>t, <1>36 DEF LateReset, LateProbe, beyond
<1>37. CASE UNCHANGED vars
  BY <1>t, <1>37 DEF vars
<1> QED
  BY <1>1, <1>2, <1>3, <1>4, <1>5, <1>6, <1>7, <1>8, <1>9, <1>10, <1>11, <1>12,
       <1>13, <1>14, <1>15, <1>16, <1>17, <1>18, <1>19, <1>20, <1>21, <1>22,
       <1>23, <1>24, <1>25, <1>26, <1>27, <1>28, <1>29, <1>30, <1>31, <1>32,
       <1>33, <1>34, <1>35, <1>36, <1>37
     DEF Next, Tick, Timers, Late, Operator, Surroundings

\* The radio is restarted and probed only while the Supervisor holds the add-on
\* stopped, whatever is in flight across a reload, unless a start the guard did not
\* wait for made it run.
THEOREM RadioIsExclusive == Spec => []ExclusiveRadio
<1>1. Init => RadioInv
  BY TypeInit DEF Init, RadioInv
<1>2. RadioInv /\ [Next]_vars => RadioInv'
  BY RadioNext
<1>3. RadioInv => ExclusiveRadio
  BY DEF RadioInv, ExclusiveRadio
<1> QED
  BY <1>1, <1>2, <1>3, PTL DEF Spec

-----------------------------------------------------------------------------
(* The pause is saved before it is shown.                                  *)

PauseInv ==
  /\ pc = "save_pause" => paused
  /\ paused => \/ stored.paused \/ pc = "save_pause"
               \/ dialog \in {"save", "undo"}
  /\ pc \in {"publish", "stop", "verify"} /\ why \in {"paused", "user_stop"}
       => paused
  /\ phase = "paused" => stored.paused \/ dialog \in {"subscribe", "own", "undo"}

LEMMA PauseNext == GuardInv /\ PauseInv /\ [Next]_vars => PauseInv'
<1> SUFFICES ASSUME GuardInv, PauseInv, [Next]_vars PROVE PauseInv'
  OBVIOUS
<1>h. Held
  BY DEF GuardInv
<1> USE <1>h DEF Held, PauseInv, Applying, config, settings, flow, hub, tick,
                 guardState, Done, Forget, Fault
<1>1. CASE TickBegin
  BY <1>1 DEF TickBegin
<1>2. CASE OwnershipTaken
  BY <1>2 DEF OwnershipTaken, EnsureStopped
<1>3. CASE OwnershipFails
  BY <1>3 DEF OwnershipFails
<1>4. CASE SnapshotFails
  BY <1>4 DEF SnapshotFails, EnsureStopped
<1>5. CASE TickVerified
  <2>1. UNCHANGED <<stored, dialog>> /\ dialog = "none"
    BY <1>5 DEF TickVerified, Observe
  <2>2. CASE paused' = TRUE /\ pc' = "save_pause" /\ UNCHANGED phase
    BY <2>1, <2>2
  <2>3. CASE UNCHANGED <<paused, phase>> /\ pc' = "publish" /\ why' \in {"transport", "bridge"}
    BY <1>5, <2>1, <2>3 DEF TickVerified, Observe
  <2>4. CASE UNCHANGED paused /\ pc' = "idle" /\ phase' = "running"
    BY <1>5, <2>1, <2>4 DEF TickVerified, Observe
  <2> QED
    BY <1>5, <2>2, <2>3, <2>4 DEF TickVerified, EnsureStopped
<1>6. CASE TickStarting
  BY <1>6 DEF TickStarting, Observe, EnsureStopped
<1>7. CASE TickPrepare
  BY <1>7 DEF TickPrepare, Observe, EnsureStopped
<1>8. CASE SavePause
  BY <1>8 DEF SavePause
<1>9. CASE PublishOk
  BY <1>9 DEF PublishOk, Continue, Prepare
<1>10. CASE CommandFails
  BY <1>10 DEF CommandFails, Raise
<1>11. CASE StopOk
  BY <1>11 DEF StopOk
<1>12. CASE StopFails
  BY <1>12 DEF StopFails, Raise
<1>13. CASE VerifyOk
  BY <1>13 DEF VerifyOk, Continue, Prepare
<1>14. CASE ResetOk
  BY <1>14 DEF ResetOk
<1>15. CASE ResetFails
  BY <1>15 DEF ResetFails, Raise
<1>16. CASE RecheckOk
  BY <1>16 DEF RecheckOk
<1>17. CASE RecheckFails
  BY <1>17 DEF RecheckFails, PreflightAborts, Raise
<1>18. CASE ProbeOk
  BY <1>18 DEF ProbeOk
<1>19. CASE ProbeFails
  BY <1>19 DEF ProbeFails, PreflightAborts, Raise
<1>20. CASE AfterOk
  BY <1>20 DEF AfterOk
<1>21. CASE AfterFails
  BY <1>21 DEF AfterFails, PreflightAborts, Raise
<1>22. CASE StartOk
  BY <1>22 DEF StartOk
<1>23. CASE StartFails
  BY <1>23 DEF StartFails, PreflightAborts, Raise
<1>24. CASE HandlerStopOk
  BY <1>24 DEF HandlerStopOk
<1>25. CASE HandlerStopFails
  BY <1>25 DEF HandlerStopFails
<1>26. CASE HandlerPublish
  BY <1>26 DEF HandlerPublish
<1>27. CASE Configure
  BY <1>27 DEF Configure, LockFree
<1>28. CASE ConfigureRefused \/ Subscribed \/ Configured
  BY <1>28 DEF ConfigureRefused, Subscribed, Configured, outside
<1>29. CASE Reload
  <2>1. /\ stored'.paused = paused' /\ pc' = "idle" /\ phase' = "disabled"
    BY <1>29 DEF Reload
  <2>2. phase' # "paused" /\ pc' \notin {"save_pause", "publish", "stop", "verify"}
    BY <2>1
  <2> QED
    BY <2>1, <2>2
<1>30. CASE Adopt
  BY <1>30 DEF Adopt
<1>31. CASE ConfigureSaved
  BY <1>31 DEF ConfigureSaved, outside
<1>32. CASE ConfigureFails
  BY <1>32 DEF ConfigureFails, outside
<1>33. CASE ConfigureUndone
  BY <1>33 DEF ConfigureUndone, outside
<1>34. CASE Late
  BY <1>34 DEF Late, LateStart, LateStop, LateReset, LateProbe, beyond
<1>35. CASE \/ BackoffElapses \/ CandidateSettles \/ StartDeadline \/ Receive \/ UserStart
          \/ UserStop \/ AddonCrash \/ HubDown \/ HubUp \/ RelayRestart
          \/ MqttDown \/ MqttUp \/ OtherClientConnects \/ OtherClientLeaves
          \/ ProbeSocketCloses \/ Z2MConnect \/ Z2MAnnounce
  BY <1>35 DEF BackoffElapses, CandidateSettles, StartDeadline, Receive,
       UserStart, UserStop, AddonCrash, HubDown, HubUp, RelayRestart,
       MqttDown, MqttUp, OtherClientConnects, OtherClientLeaves,
       ProbeSocketCloses, Z2MConnect, Z2MAnnounce
<1>36. CASE UNCHANGED vars
  BY <1>36 DEF vars
<1> QED
  BY <1>1, <1>2, <1>3, <1>4, <1>5, <1>6, <1>7, <1>8, <1>9, <1>10, <1>11, <1>12,
       <1>13, <1>14, <1>15, <1>16, <1>17, <1>18, <1>19, <1>20, <1>21, <1>22,
       <1>23, <1>24, <1>25, <1>26, <1>27, <1>28, <1>29, <1>30, <1>31, <1>32,
       <1>33, <1>34, <1>35, <1>36
     DEF Next, Tick, Dialog, Timers, Operator, Surroundings

\* A pause shown to the user survives a Home Assistant restart, but for a Configure
\* that has replaced it in the store and still shows the old phase.
THEOREM PauseIsSaved == Spec => []PauseSurvives
<1>1. Init => PauseInv
  BY DEF Init, PauseInv
<1>2. PauseInv => PauseSurvives
  BY DEF PauseInv, PauseSurvives
<1> QED
  BY <1>1, <1>2, PauseNext, GuardInvariant, PTL DEF Spec
-----------------------------------------------------------------------------
(* Only an announcement of this start makes the phase running.             *)

\* No message of an add-on that came online is on its way.
Silent(messages) == \A i \in 1..Len(messages) : messages[i] # "online"

\* An add-on that does not run has no session on the relay, so it announces nothing; and
\* without the broker nothing is on its way.
Unlinked == addon # "started" => z2m = "down"
Deaf == ~mqtt_up => inbox = <<>>

\* Between a restart of the radio and the start nobody but a stray start makes the
\* add-on run, and what it announced before the restart has been delivered.
Rested ==
  pending /\ reset_done /\ started_at = "none" => addon # "started" \/ stray = "on"
Cleared ==
  stray = "no" =>
    /\ pc \in {"recheck", "probe", "after"} => Silent(inbox)
    /\ pc \in {"stop", "verify"} /\ why = "prepare" /\ reset_done => Silent(inbox)

\* An add-on that runs, or that the tick takes for running, and has announced nothing is
\* waited for, and nothing it said earlier has been or will be taken for its announcement.
Alive == addon = "started" \/ pc = "start" \/ (pc = "snapshot" /\ info = "started")
Unheard ==
  ~announced /\ Alive /\ stray = "no" =>
    pending /\ (started_at # "none" => ~online_since_start /\ Silent(inbox))

AnnounceInv ==
  GuardInv /\ RadioInv /\ Unlinked /\ Deaf /\ Rested /\ Cleared /\ Unheard

LEMMA SilentMessages ==
  /\ Silent(<<>>) /\ Silent(Retained)
  /\ \A messages \in Seq(Messages) :
       Silent(messages) => /\ Silent(Append(messages, "offline"))
                           /\ messages # <<>> => Silent(Tail(messages))
<1>1. Silent(<<>>)
  BY DEF Silent
<1>2. Silent(Retained)
  <2>1. Retained \in {<<>>, <<"online_retained">>, <<"offline">>}
    BY Zenon DEF Retained
  <2>2. Silent(<<"online_retained">>) /\ Silent(<<"offline">>)
    BY DEF Silent
  <2>3. QED
    BY <1>1, <2>1, <2>2
<1>3. ASSUME NEW messages \in Seq(Messages), Silent(messages)
      PROVE  Silent(Append(messages, "offline"))
  <2>1. "offline" \in Messages
    BY DEF Messages
  <2>2. QED
    BY <1>3, <2>1 DEF Silent
<1>4. ASSUME NEW messages \in Seq(Messages), Silent(messages), messages # <<>>
      PROVE  Silent(Tail(messages))
  BY <1>4 DEF Silent
<1>5. QED
  BY <1>1, <1>2, <1>3, <1>4

\* What a step does to the messages on their way.
LEMMA InboxStep ==
  ASSUME [Next]_vars
  PROVE  \/ UNCHANGED <<inbox, mqtt_up>>
         \/ Publish("offline") /\ UNCHANGED mqtt_up
         \/ Receive
         \/ /\ inbox' \in {<<>>, <<"online_retained">>, <<"offline">>}
            /\ UNCHANGED mqtt_up /\ (~mqtt_up => inbox' = <<>>)
         \/ MqttDown \/ MqttUp \/ Z2MAnnounce
<1> USE DEF world, broker, outside, beyond
<1>1. CASE \/ TickBegin \/ OwnershipTaken \/ OwnershipFails \/ SnapshotFails
           \/ TickVerified \/ TickStarting \/ TickPrepare \/ SavePause
  BY <1>1 DEF TickBegin, OwnershipTaken, OwnershipFails, SnapshotFails, TickVerified,
    TickStarting, TickPrepare, SavePause, Observe
<1>2. CASE \/ PublishOk \/ CommandFails \/ StopOk \/ StopFails \/ VerifyOk
           \/ HandlerStopOk \/ HandlerStopFails \/ HandlerPublish
  BY <1>2 DEF PublishOk, CommandFails, StopOk, StopFails, VerifyOk, HandlerStopOk,
    HandlerStopFails, HandlerPublish, StopAddon
<1>3. CASE \/ ResetOk \/ ResetFails \/ RecheckOk \/ RecheckFails \/ ProbeOk \/ ProbeFails
           \/ AfterOk \/ AfterFails \/ StartOk \/ StartFails
  BY <1>3 DEF ResetOk, ResetFails, RecheckOk, RecheckFails, ProbeOk, ProbeFails, AfterOk,
    AfterFails, StartOk, StartFails
<1>4. CASE \/ Timers \/ Configure \/ ConfigureRefused \/ Adopt \/ Configured
           \/ ConfigureFails \/ ConfigureUndone \/ Late \/ UserStart \/ UserStop
  BY <1>4 DEF Timers, BackoffElapses, CandidateSettles, StartDeadline, Configure,
    ConfigureRefused, Adopt, Configured, ConfigureFails, ConfigureUndone, Late, LateStart,
    LateStop, LateReset, LateProbe, UserStart, UserStop, StopAddon
<1>5. CASE \/ HubDown \/ HubUp \/ RelayRestart \/ AddonCrash \/ OtherClientConnects
           \/ OtherClientLeaves \/ ProbeSocketCloses \/ Z2MConnect \/ UNCHANGED vars
  BY <1>5 DEF HubDown, HubUp, RelayRestart, AddonCrash, OtherClientConnects,
    OtherClientLeaves, ProbeSocketCloses, Z2MConnect, vars
<1>6. CASE ConfigureSaved \/ Subscribed
  <2>1. /\ Redelivery \in {<<>>, <<"online_retained">>, <<"offline">>}
        /\ ~mqtt_up => Redelivery = <<>>
    BY Zenon DEF Redelivery, Retained
  <2> QED
    BY <1>6, <2>1 DEF ConfigureSaved, Subscribed
<1>7. CASE Reload
  <2>1. /\ Redelivery' \in {<<>>, <<"online_retained">>, <<"offline">>}
        /\ ~mqtt_up' => Redelivery' = <<>>
    BY Zenon DEF Redelivery, Retained
  <2> QED
    BY <1>7, <2>1 DEF Reload
<1> QED
  BY <1>1, <1>2, <1>3, <1>4, <1>5, <1>6, <1>7 DEF Next, Tick, Dialog, Operator, Surroundings

\* Only an announcement breaks the silence.
LEMMA SilenceKept ==
  ASSUME TypeOK, [Next]_vars, Silent(inbox)
  PROVE  Silent(inbox') \/ Z2MAnnounce
<1>1. inbox \in Seq(Messages)
  BY DEF TypeOK, BrokerType
<1>2. CASE Publish("offline")
  BY <1>1, <1>2, SilentMessages DEF Publish
<1>3. CASE Receive
  <2>1. /\ inbox # <<>>
        /\ inbox' \in {Tail(inbox), Append(Tail(inbox), "offline")}
    BY <1>3 DEF Receive
  <2>2. Tail(inbox) \in Seq(Messages) /\ Silent(Tail(inbox))
    BY <1>1, <2>1, SilentMessages
  <2>3. QED
    BY <2>1, <2>2, SilentMessages
<1>4. CASE inbox' \in {<<>>, <<"online_retained">>, <<"offline">>}
  BY <1>4 DEF Silent
<1>6. CASE MqttDown \/ MqttUp
  BY <1>6, SilentMessages DEF MqttDown, MqttUp
<1>5. QED
  BY <1>2, <1>3, <1>4, <1>6, InboxStep

LEMMA DeafNext ==
  ASSUME Deaf, [Next]_vars
  PROVE  Deaf'
<1>1. CASE Publish("offline") /\ UNCHANGED mqtt_up
  BY <1>1 DEF Deaf, Publish
<1>2. CASE Receive
  BY <1>2 DEF Deaf, Receive
<1>3. CASE UNCHANGED mqtt_up /\ (~mqtt_up => inbox' = <<>>)
  BY <1>3 DEF Deaf
<1>4. CASE MqttDown \/ MqttUp
  BY <1>4 DEF Deaf, MqttDown, MqttUp
<1>5. CASE Z2MAnnounce
  BY <1>5 DEF Deaf, Z2MAnnounce, Publish
<1>6. QED
  BY <1>1, <1>2, <1>3, <1>4, <1>5, InboxStep DEF Deaf

\* Who starts and stops the add-on: only the guard's start makes it run, or a stray one, which
\* counts until the add-on is stopped and the radio restarted.
LEMMA AddonStep ==
  ASSUME TypeOK, Unlinked, [Next]_vars
  PROVE  /\ Unlinked'
         /\ addon' = "started" => addon = "started" \/ StartOk \/ stray' = "on"
         /\ Z2MAnnounce => addon = "started"
         /\ stray = "on" => stray' = "on" \/ addon' = "stopped"
         /\ stray' = "no" => stray = "no" \/ ResetOk
<1> USE DEF world, hub, Fault, history, outside, beyond, guardState
<1>1. CASE \/ TickBegin \/ OwnershipTaken \/ OwnershipFails \/ SnapshotFails
           \/ TickVerified \/ TickStarting \/ TickPrepare \/ SavePause
  BY <1>1 DEF TickBegin, OwnershipTaken, OwnershipFails, SnapshotFails, TickVerified,
    TickStarting, TickPrepare, SavePause, Observe, Unlinked, Z2MAnnounce
<1>2. CASE \/ PublishOk \/ CommandFails \/ StopOk \/ StopFails \/ VerifyOk
           \/ HandlerStopOk \/ HandlerStopFails \/ HandlerPublish
  BY <1>2 DEF PublishOk, CommandFails, StopOk, StopFails, VerifyOk, HandlerStopOk,
    HandlerStopFails, HandlerPublish, StopAddon, Unlinked, Z2MAnnounce
<1>3. CASE \/ ResetOk \/ ResetFails \/ RecheckOk \/ RecheckFails \/ ProbeOk \/ ProbeFails
           \/ AfterOk \/ AfterFails \/ StartOk \/ StartFails
  BY <1>3 DEF ResetOk, ResetFails, RecheckOk, RecheckFails, ProbeOk, ProbeFails, AfterOk,
    AfterFails, StartOk, StartFails, DropSessions, Unlinked, Z2MAnnounce
<1>4. CASE Timers \/ Configure \/ Dialog \/ Reload \/ Late \/ UserStart \/ UserStop \/ Receive
  BY <1>4 DEF Timers, BackoffElapses, CandidateSettles, StartDeadline, Configure, Receive,
    Dialog, ConfigureRefused, Adopt, ConfigureSaved, Subscribed, Configured, ConfigureFails,
    ConfigureUndone, Late, LateStart, LateStop, LateReset, LateProbe, Reload, UserStart,
    UserStop, StopAddon, DropSessions, Unlinked, Z2MAnnounce
<1>5. CASE \/ HubDown \/ HubUp \/ RelayRestart \/ MqttDown \/ MqttUp \/ AddonCrash
           \/ OtherClientConnects \/ OtherClientLeaves \/ ProbeSocketCloses
           \/ Z2MConnect \/ Z2MAnnounce \/ UNCHANGED vars
  BY <1>5 DEF HubDown, HubUp, RelayRestart, AddonCrash, OtherClientConnects, MqttDown,
    MqttUp, OtherClientLeaves, ProbeSocketCloses, Z2MConnect, Z2MAnnounce, DropSessions,
    Unlinked, vars
<1>6. QED
  BY <1>1, <1>2, <1>3, <1>4, <1>5 DEF Next, Tick, Operator, Surroundings

\* Which steps make the tick prepare or start the add-on.
LEMMA RecoveryStep ==
  ASSUME [Next]_vars
  PROVE  \/ UNCHANGED <<pending, reset_done, started_at>>
         \/ ~reset_done' \/ ~pending' \/ ResetOk \/ started_at' # "none"
<1> USE DEF memory, recovery, Invalidate, NewSeries, guardState
<1>1. CASE \/ TickBegin \/ OwnershipTaken \/ OwnershipFails \/ SnapshotFails
           \/ TickVerified \/ TickStarting \/ TickPrepare \/ SavePause
  BY <1>1 DEF TickBegin, OwnershipTaken, OwnershipFails, SnapshotFails, TickVerified,
    TickStarting, TickPrepare, SavePause, EnsureStopped
<1>2. CASE \/ PublishOk \/ CommandFails \/ StopOk \/ StopFails \/ VerifyOk
           \/ HandlerStopOk \/ HandlerStopFails \/ HandlerPublish
  BY <1>2 DEF PublishOk, CommandFails, StopOk, StopFails, VerifyOk, HandlerStopOk,
    HandlerStopFails, HandlerPublish, Continue
<1>3. CASE \/ ResetOk \/ ResetFails \/ RecheckOk \/ RecheckFails \/ ProbeOk \/ ProbeFails
           \/ AfterOk \/ AfterFails \/ StartOk \/ StartFails
  BY <1>3 DEF ResetOk, ResetFails, RecheckOk, RecheckFails, ProbeOk, ProbeFails, AfterOk,
    AfterFails, StartOk, StartFails, PreflightAborts
<1>4. CASE \/ Timers \/ Configure \/ Dialog \/ Reload \/ Late \/ UserStart \/ UserStop
           \/ Receive
  BY <1>4 DEF Timers, BackoffElapses, CandidateSettles, StartDeadline, Configure, Receive,
    Dialog, ConfigureRefused, Adopt, ConfigureSaved, Subscribed, Configured, ConfigureFails,
    ConfigureUndone, outside, Late, LateStart, LateStop, LateReset, LateProbe, beyond, Reload,
    UserStart, UserStop
<1>5. CASE Surroundings \/ UNCHANGED vars
  BY <1>5 DEF Surroundings, HubDown, HubUp, RelayRestart, AddonCrash, OtherClientConnects,
    MqttDown, MqttUp, OtherClientLeaves, ProbeSocketCloses, Z2MConnect, Z2MAnnounce, vars
<1>6. QED
  BY <1>1, <1>2, <1>3, <1>4, <1>5 DEF Next, Tick, Operator

LEMMA RestedNext ==
  ASSUME AnnounceInv, [Next]_vars
  PROVE  Rested'
<1>1. SUFFICES ASSUME pending', reset_done', started_at' = "none", addon' = "started",
                      stray' # "on"
               PROVE  FALSE
  BY DEF Rested
<1>2. (addon = "started" /\ stray # "on") \/ StartOk
  BY <1>1, AddonStep DEF AnnounceInv, RadioInv, StartOk
<1>3. CASE StartOk
  BY <1>1, <1>3 DEF StartOk, memory, recovery, AnnounceInv, GuardInv, PreflightReady
<1>4. CASE ResetOk
  BY <1>1, <1>4 DEF ResetOk, AnnounceInv, RadioInv
<1>5. CASE addon = "started" /\ stray # "on" /\ UNCHANGED <<pending, reset_done, started_at>>
  BY <1>1, <1>5 DEF AnnounceInv, Rested
<1>6. QED
  BY <1>1, <1>2, <1>3, <1>4, <1>5, RecoveryStep

\* How the tick comes to the awaits before the start.
LEMMA PlaceStep ==
  ASSUME Held, [Next]_vars, pc' \in {"stop", "verify", "recheck", "probe", "after"}
  PROVE  \/ PublishOk \/ VerifyOk
         \/ pc \in {"recheck", "probe", "after"} /\ pc' \in {"recheck", "probe", "after"}
         \/ pc \in {"stop", "verify"} /\ pc' \in {"stop", "verify"} /\ UNCHANGED <<why, reset_done>>
<1> USE DEF memory, recovery, tick, Done, Forget, Raise, guardState
<1>1. CASE \/ TickBegin \/ OwnershipTaken \/ OwnershipFails \/ SnapshotFails
           \/ TickVerified \/ TickStarting \/ TickPrepare \/ SavePause
  BY <1>1 DEF TickBegin, OwnershipTaken, OwnershipFails, SnapshotFails, TickVerified,
    TickStarting, TickPrepare, SavePause, EnsureStopped
<1>2. CASE \/ PublishOk \/ CommandFails \/ StopOk \/ StopFails \/ VerifyOk
           \/ HandlerStopOk \/ HandlerStopFails \/ HandlerPublish
  BY <1>2 DEF CommandFails, StopOk, StopFails, HandlerStopOk, HandlerStopFails,
    HandlerPublish
<1>3. CASE \/ ResetOk \/ ResetFails \/ RecheckOk \/ RecheckFails \/ ProbeOk \/ ProbeFails
           \/ AfterOk \/ AfterFails \/ StartOk \/ StartFails
  BY <1>3 DEF ResetOk, ResetFails, RecheckOk, RecheckFails, ProbeOk, ProbeFails, AfterOk,
    AfterFails, StartOk, StartFails, PreflightAborts
<1>4. CASE \/ Timers \/ Configure \/ Dialog \/ Reload \/ Late \/ UserStart \/ UserStop
           \/ Receive
  BY <1>4 DEF Held, Timers, BackoffElapses, CandidateSettles, StartDeadline, Configure, Receive,
    Dialog, ConfigureRefused, Adopt, ConfigureSaved, Subscribed, Configured, ConfigureFails,
    ConfigureUndone, outside, Late, LateStart, LateStop, LateReset, LateProbe, beyond, Reload,
    UserStart, UserStop
<1>5. CASE Surroundings \/ UNCHANGED vars
  BY <1>5 DEF Surroundings, HubDown, HubUp, RelayRestart, AddonCrash, OtherClientConnects,
    MqttDown, MqttUp, OtherClientLeaves, ProbeSocketCloses, Z2MConnect, Z2MAnnounce, vars
<1>6. QED
  BY <1>1, <1>2, <1>3, <1>4, <1>5 DEF Next, Tick, Operator

LEMMA ClearedNext ==
  ASSUME AnnounceInv, [Next]_vars
  PROVE  Cleared'
<1>1. SUFFICES ASSUME stray' = "no",
                      \/ pc' \in {"recheck", "probe", "after"}
                      \/ pc' \in {"stop", "verify"} /\ why' = "prepare" /\ reset_done'
               PROVE  Silent(inbox')
  BY DEF Cleared
<1>2. TypeOK /\ Unlinked
  BY DEF AnnounceInv, RadioInv
<1>s. stray = "no"
  BY <1>1, <1>2, AddonStep DEF ResetOk
<1>3. CASE PublishOk
  <2>1. inbox' \in {<<>>, Append(<<>>, "offline")}
    BY <1>3 DEF PublishOk, Publish, AnnounceInv, Deaf
  <2>2. <<>> \in Seq(Messages)
    OBVIOUS
  <2>3. QED
    BY <2>1, <2>2, SilentMessages
<1>4. CASE VerifyOk
  <2>1. why = "prepare" /\ reset_done /\ inbox' = inbox /\ pc = "verify"
    BY <1>1, <1>4 DEF VerifyOk, Continue, Prepare, Done, world, broker
  <2>2. QED
    BY <1>s, <2>1 DEF AnnounceInv, Cleared
<1>5. CASE pc \in {"recheck", "probe", "after"}
  <2>1. addon = "stopped" /\ Silent(inbox)
    BY <1>s, <1>5 DEF AnnounceInv, RadioInv, Cleared
  <2>2. ~Z2MAnnounce
    BY <1>2, <2>1, AddonStep
  <2>3. QED
    BY <1>2, <2>1, <2>2, SilenceKept
<1>6. CASE pc \in {"stop", "verify"} /\ why = "prepare" /\ reset_done
  <2>1. addon # "started" /\ Silent(inbox)
    BY <1>s, <1>6 DEF AnnounceInv, GuardInv, Preparation, Preparing, Rested, Cleared
  <2>2. ~Z2MAnnounce
    BY <1>2, <2>1, AddonStep
  <2>3. QED
    BY <1>2, <2>1, <2>2, SilenceKept
<1>7. QED
  BY <1>1, <1>3, <1>4, <1>5, <1>6, PlaceStep DEF AnnounceInv, GuardInv

\* What a step does to what was heard of this start: only the start opens a new wait, only a
\* confirmed start ends it, and only a message is heard.
LEMMA HeardStep ==
  ASSUME [Next]_vars, ~announced'
  PROVE  \/ AfterOk \/ OwnershipTaken \/ Reload
         \/ /\ ~announced /\ (pc' = "start" => pc = "start")
            /\ pc' = "snapshot" => UNCHANGED <<pc, info>>
            /\ pending /\ ~pending' => TickStarting /\ StartConfirmed
            /\ started_at' # "none" => started_at # "none"
            /\ ~online_since_start /\ online_since_start' => Receive
<1> USE DEF memory, ack, recovery, tick, Done, Forget, Raise, history, Invalidate,
      NewSeries, guardState
<1>1. CASE \/ TickBegin \/ OwnershipTaken \/ OwnershipFails \/ SnapshotFails
           \/ TickVerified \/ TickStarting \/ TickPrepare \/ SavePause
  BY <1>1 DEF TickBegin, OwnershipFails, SnapshotFails, TickVerified, Observe,
    TickStarting, TickPrepare, SavePause, EnsureStopped
<1>2. CASE \/ PublishOk \/ CommandFails \/ StopOk \/ StopFails \/ VerifyOk
           \/ HandlerStopOk \/ HandlerStopFails \/ HandlerPublish
  BY <1>2 DEF PublishOk, CommandFails, StopOk, StopFails, VerifyOk, HandlerStopOk,
    HandlerStopFails, HandlerPublish, Continue, Prepare
<1>3. CASE \/ ResetOk \/ ResetFails \/ RecheckOk \/ RecheckFails \/ ProbeOk \/ ProbeFails
           \/ AfterOk \/ AfterFails \/ StartOk \/ StartFails
  BY <1>3 DEF ResetOk, ResetFails, RecheckOk, RecheckFails, ProbeOk, ProbeFails,
    AfterFails, StartOk, StartFails, PreflightAborts
<1>4. CASE \/ Timers \/ Configure \/ Dialog \/ Reload \/ Late \/ UserStart \/ UserStop
           \/ Receive
  BY <1>4 DEF Timers, BackoffElapses, CandidateSettles, StartDeadline, Configure, Receive,
    Dialog, ConfigureRefused, Adopt, ConfigureSaved, Subscribed, Configured, ConfigureFails,
    ConfigureUndone, outside, Late, LateStart, LateStop, LateReset, LateProbe, beyond, Reload,
    UserStart, UserStop
<1>5. CASE Surroundings \/ UNCHANGED vars
  BY <1>5 DEF Surroundings, HubDown, HubUp, RelayRestart, AddonCrash, OtherClientConnects,
    MqttDown, MqttUp, OtherClientLeaves, ProbeSocketCloses, Z2MConnect, Z2MAnnounce, vars
<1>6. QED
  BY <1>1, <1>2, <1>3, <1>4, <1>5 DEF Next, Tick, Operator

LEMMA UnheardNext ==
  ASSUME AnnounceInv, [Next]_vars
  PROVE  Unheard'
<1>1. SUFFICES ASSUME ~announced', Alive', stray' = "no"
               PROVE  pending' /\ (started_at' # "none" => ~online_since_start' /\ Silent(inbox'))
  BY DEF Unheard
<1>2. TypeOK /\ TypeOK'
  BY TypeNext DEF AnnounceInv, RadioInv
<1>s. stray = "no"
  <2>1. ResetOk => addon = "stopped" \/ stray = "no"
    BY <1>1 DEF ResetOk, AnnounceInv, RadioInv
  <2>2. ~ResetOk \/ stray = "no"
    BY <1>1, <2>1 DEF ResetOk, Alive
  <2> QED
    BY <1>1, <1>2, <2>2, AddonStep DEF AnnounceInv
<1>7. CASE Reload
  BY <1>7 DEF Reload, Invalidate
<1>3. CASE AfterOk
  <2>1. addon' # "started" /\ pc' # "snapshot"
    BY <1>s, <1>3 DEF AfterOk, Done, world, AnnounceInv, RadioInv
  <2>2. pc' = "start"
    BY <1>1, <2>1 DEF Alive
  <2>3. ~online_since_start' /\ UNCHANGED <<pending, inbox>> /\ pc = "after"
    BY <1>3, <2>2 DEF AfterOk, Done, world, broker
  <2>4. pending /\ Silent(inbox)
    BY <1>s, <2>3 DEF AnnounceInv, GuardInv, Preparation, Preparing, Cleared
  <2>5. QED
    BY <2>3, <2>4
<1>4. CASE OwnershipTaken
  <2>1. addon # "stopped" /\ ~announced
    BY <1>1, <1>4 DEF OwnershipTaken, EnsureStopped, Alive, world
  <2>2. addon = "started"
    BY <1>1, <1>4 DEF OwnershipTaken, EnsureStopped, Alive, world
  <2>3. pending /\ (started_at # "none" => ~online_since_start /\ Silent(inbox))
    BY <1>s, <2>1, <2>2 DEF AnnounceInv, Unheard, Alive
  <2>4. UNCHANGED <<online_since_start, inbox>>
    BY <1>4 DEF OwnershipTaken, EnsureStopped, ack, world, broker
  <2>5. (pending' /\ started_at' = "none") \/ UNCHANGED <<pending, started_at>>
    BY <1>4 DEF OwnershipTaken, Invalidate, recovery
  <2>6. QED
    BY <2>3, <2>4, <2>5
<1>5. CASE /\ ~announced /\ (pc' = "start" => pc = "start")
           /\ pc' = "snapshot" => UNCHANGED <<pc, info>>
           /\ pending /\ ~pending' => TickStarting /\ StartConfirmed
           /\ started_at' # "none" => started_at # "none"
           /\ ~online_since_start /\ online_since_start' => Receive
  <2>1. Alive
    <3>1. addon' = "started" => addon = "started" \/ pc = "start"
      BY <1>1, <1>2, AddonStep DEF AnnounceInv, StartOk
    <3>2. QED
      BY <1>1, <1>5, <3>1 DEF Alive
  <2>2. pending /\ (started_at # "none" => ~online_since_start /\ Silent(inbox))
    BY <1>s, <1>5, <2>1 DEF AnnounceInv, Unheard
  <2>3. pending'
    BY <1>5, <2>2 DEF TickStarting, StartConfirmed, AnnounceInv
  <2>4. ASSUME started_at' # "none" PROVE ~online_since_start' /\ Silent(inbox')
    <3>1. ~online_since_start /\ Silent(inbox)
      BY <1>5, <2>2, <2>4
    <3>2. Silent(inbox')
      BY <1>1, <1>2, <3>1, SilenceKept DEF Z2MAnnounce
    <3>3. ~Receive \/ ~online_since_start'
      <4>1. SUFFICES ASSUME Receive PROVE ~online_since_start'
        OBVIOUS
      <4>2. inbox # <<>> /\ inbox \in Seq(Messages)
        BY <1>2, <4>1 DEF Receive, TypeOK, BrokerType
      <4>3. Head(inbox) # "online" /\ Head(inbox) \in Messages
        BY <3>1, <4>2 DEF Silent
      <4>4. QED
        BY <3>1, <4>1, <4>3 DEF Receive, ack, Messages
    <3>4. QED
      BY <1>2, <1>5, <3>1, <3>2, <3>3 DEF TypeOK, SettingsType
  <2>5. QED
    BY <2>3, <2>4
<1>6. QED
  BY <1>1, <1>3, <1>4, <1>5, <1>7, HeardStep

LEMMA AnnounceNext ==
  ASSUME AnnounceInv, [Next]_vars
  PROVE  AnnounceInv'
<1>1. GuardInv' /\ RadioInv'
  BY GuardNext, RadioNext DEF AnnounceInv
<1>2. Unlinked' /\ Deaf'
  BY AddonStep, DeafNext DEF AnnounceInv, RadioInv
<1>3. QED
  BY <1>1, <1>2, RestedNext, ClearedNext, UnheardNext DEF AnnounceInv

LEMMA AnnounceInit == Init => AnnounceInv
<1> SUFFICES ASSUME Init PROVE AnnounceInv
  OBVIOUS
<1>1. GuardInv
  BY GuardInit
<1>2. RadioInv
  BY TypeInit DEF Init, RadioInv
<1>3. Unlinked /\ Deaf /\ Rested /\ Cleared
  BY DEF Init, Unlinked, Deaf, Rested, Cleared
<1>4. Unheard
  BY DEF Init, Unheard
<1>5. QED
  BY <1>1, <1>2, <1>3, <1>4 DEF AnnounceInv

\* The phase becomes running in two places of the tick; in both the add-on was taken for
\* running and was heard.
LEMMA RunningIsAnnounced ==
  ASSUME AnnounceInv, [Next]_vars, phase # "running", phase' = "running"
  PROVE  announced \/ stray # "no"
<1>1. TickVerified \/ TickStarting
  <2> USE DEF memory, tick, Done, Forget, Raise, guardState
  <2>1. CASE \/ TickBegin \/ OwnershipTaken \/ OwnershipFails \/ SnapshotFails
             \/ TickPrepare \/ SavePause
    BY <2>1 DEF TickBegin, OwnershipTaken, OwnershipFails, SnapshotFails,
      TickPrepare, SavePause
  <2>2. CASE \/ PublishOk \/ CommandFails \/ StopOk \/ StopFails \/ VerifyOk
             \/ HandlerStopOk \/ HandlerStopFails \/ HandlerPublish
    BY <2>2 DEF PublishOk, CommandFails, StopOk, StopFails, VerifyOk, HandlerStopOk,
      HandlerStopFails, HandlerPublish, Continue, Prepare
  <2>3. CASE \/ ResetOk \/ ResetFails \/ RecheckOk \/ RecheckFails \/ ProbeOk \/ ProbeFails
             \/ AfterOk \/ AfterFails \/ StartOk \/ StartFails
    BY <2>3 DEF ResetOk, ResetFails, RecheckOk, RecheckFails, ProbeOk, ProbeFails, AfterOk,
      AfterFails, StartOk, StartFails, PreflightAborts
  <2>4. CASE \/ Timers \/ Configure \/ Dialog \/ Reload \/ Late \/ UserStart \/ UserStop
             \/ Receive
    BY <2>4 DEF Timers, BackoffElapses, CandidateSettles, StartDeadline, Configure, Receive,
      Dialog, ConfigureRefused, Adopt, ConfigureSaved, Subscribed, Configured, ConfigureFails,
      ConfigureUndone, outside, Late, LateStart, LateStop, LateReset, LateProbe, beyond, Reload,
      UserStart, UserStop
  <2>5. CASE Surroundings \/ UNCHANGED vars
    BY <2>5 DEF Surroundings, HubDown, HubUp, RelayRestart, AddonCrash, MqttDown, MqttUp,
      OtherClientConnects, OtherClientLeaves, ProbeSocketCloses, Z2MConnect, Z2MAnnounce,
      vars
  <2>6. QED
    BY <2>1, <2>2, <2>3, <2>4, <2>5 DEF Next, Tick, Operator
<1>2. CASE TickVerified
  BY <1>2 DEF TickVerified, Observe, Done, AnnounceInv, Unheard, Alive
<1>3. CASE TickStarting
  BY <1>3 DEF TickStarting, Observe, StartConfirmed, Done, AnnounceInv, Unheard, Alive
<1>4. QED
  BY <1>1, <1>2, <1>3

\* The phase becomes running only after Zigbee2MQTT has announced itself in this start: what
\* it said before the radio was restarted, and what the broker retained, is not taken for it
\* (receive, _online_since_start).  A start the guard did not wait for is excepted.
THEOREM RunningIsFresh == Spec => FreshAck
<1>1. AnnounceInv /\ [Next]_vars => AnnounceInv'
  BY AnnounceNext
<1>2. AnnounceInv /\ [Next]_vars
        => [phase # "running" /\ phase' = "running" => announced \/ stray # "no"]_vars
  BY RunningIsAnnounced
<1>3. QED
  BY AnnounceInit, <1>1, <1>2, PTL DEF Spec, FreshAck

=============================================================================
