-------------------------- MODULE SupervisorPolicy --------------------------
(***************************************************************************)
(* Who may change the Supervisor's start policy of an add-on.              *)
(*                                                                         *)
(* Each coordinator entry has a Z2MGuard.  A guard that is configured for  *)
(* an add-on sets its boot option to "manual" and its watchdog to false,   *)
(* so that only the guard starts it, and keeps the policy it found, in     *)
(* memory (saved) and in Home Assistant's storage (store), until it is     *)
(* disabled or moved to another add-on and gives the policy back.  Several *)
(* guards share the Supervisor; their configuration flows, their ticks and *)
(* restarts interleave at every await of async_configure,                  *)
(* _take_ownership and _restore_supervisor.                                *)
(***************************************************************************)
EXTENDS Integers, FiniteSets

CONSTANTS
  Guards,         \* one Z2MGuard per config entry
  Slugs,          \* the Zigbee2MQTT add-ons
  NoSlug,         \* settings["enabled"] is False
  Policies,       \* (boot, watchdog) pairs
  Gated,          \* boot manual, watchdog False
  NoPolicy,       \* self.saved == {}
  Anytime,        \* a flow may run beside another flow that a restart
                  \* interrupts, or while another entry is not set up
  MaxRequests,    \* bound: Configure dialogs
  MaxFaults,      \* bound: Supervisor commands that fail
  MaxRestarts,    \* bound: restarts of Home Assistant, reloads of an entry
  MaxDrifts       \* bound: policy changes made elsewhere on a managed add-on

ASSUME SlugAssumption == NoSlug \notin Slugs
ASSUME PolicyAssumption == Gated \in Policies /\ NoPolicy \notin [slug : Slugs, policy : Policies]
ASSUME BoundAssumption == {MaxRequests, MaxFaults, MaxRestarts, MaxDrifts} \subseteq Nat

VARIABLES
  loaded,    \* guard -> the entry is set up and async_initialize has run
  settings,  \* guard -> the add-on it is enabled for, or NoSlug
  saved,     \* guard -> rollback record in memory, or NoPolicy
  store,     \* guard -> what storage holds of both
  pc,        \* guard -> the await it is at; "idle": its lock is free
  flow,      \* guard -> the lock is held by async_configure, not by a tick
  target,    \* guard -> the add-on asked for in the dialog
  seen,      \* guard -> the policy _take_ownership read
  policy,    \* add-on -> its policy in the Supervisor
  original,  \* add-on -> the policy its owner chose
  budget     \* what is left of the bounds

guardVars == <<loaded, settings, saved, store, pc, flow, target, seen>>
vars == <<guardVars, policy, original, budget>>

Records == [slug : Slugs, policy : Policies]
Claiming == {"own_info", "own_save", "own_set", "own_check"}
Steps == Claiming \cup {"idle", "cfg_info", "cfg_save", "subscribe", "pause_save",
                        "restore_set", "restore_check", "restore_save"}

Init ==
  /\ loaded = [g \in Guards |-> TRUE]
  /\ settings = [g \in Guards |-> NoSlug]
  /\ saved = [g \in Guards |-> NoPolicy]
  /\ store = [g \in Guards |-> [settings |-> NoSlug, saved |-> NoPolicy]]
  /\ pc = [g \in Guards |-> "idle"]
  /\ flow = [g \in Guards |-> FALSE]
  /\ target = [g \in Guards |-> NoSlug]
  /\ seen = [g \in Guards |-> Gated]
  /\ policy \in [Slugs -> Policies]
  /\ original = policy
  /\ budget = [requests |-> MaxRequests, faults |-> MaxFaults,
               restarts |-> MaxRestarts, drifts |-> MaxDrifts]

Spend(what) == budget[what] > 0 /\ budget' = [budget EXCEPT ![what] = @ - 1]

Goto(g, step) == pc' = [pc EXCEPT ![g] = step]

\* Mutant of Contested: only a guard that has a rollback record counts.
ContestedByRecord(g, s) ==
  \E h \in Guards \ {g} : saved[h] # NoPolicy /\ saved[h].slug = s

\* Another guard that is enabled for add-on s.
Contested(g, s) == \E h \in Guards \ {g} : settings[h] = s

\* Mutant of Save: the rollback record is left out.
SaveSettings(g) == store' = [store EXCEPT ![g].settings = settings[g]]

\* _save: settings and rollback record in one write.
Save(g) == store' = [store EXCEPT ![g] = [settings |-> settings[g], saved |-> saved'[g]]]

-----------------------------------------------------------------------------
(* The configuration flow.                                                 *)

\* self.settings = values, then _save.
Adopt(g, t) ==
  /\ settings' = [settings EXCEPT ![g] = t]
  /\ Goto(g, "cfg_save")

\* Mutant of GivesUp: moving to another add-on gives nothing back.
GivesUpDisabled(g, t) == saved[g] # NoPolicy /\ t = NoSlug

\* The rollback record is of an add-on the guard is about to give up.
GivesUp(g, t) == saved[g] # NoPolicy /\ (t = NoSlug \/ t # settings[g])

\* After the dialog's checks: first give the old add-on back, if there is one.
Replace(g, t) ==
  IF GivesUp(g, t)
  THEN Goto(g, "restore_set") /\ UNCHANGED settings
  ELSE Adopt(g, t)

\* The dialog is refused at once when another guard has the add-on.
Configure(g, t) ==
  /\ loaded[g] /\ pc[g] = "idle"
  /\ Anytime \/ \A h \in Guards :
                  loaded[h] /\ (flow[h] /\ budget.restarts > 0 => pc[h] = "idle")
  /\ t \in Slugs => ~Contested(g, t)
  /\ Spend("requests")
  /\ flow' = [flow EXCEPT ![g] = TRUE]
  /\ target' = [target EXCEPT ![g] = t]
  /\ IF t \in Slugs THEN Goto(g, "cfg_info") /\ UNCHANGED settings ELSE Replace(g, t)
  /\ UNCHANGED <<loaded, saved, store, seen, policy, original>>

\* The name of the add-on has been read and is a Zigbee2MQTT.
NameRead(g) ==
  /\ pc[g] = "cfg_info"
  /\ Replace(g, target[g])
  /\ UNCHANGED <<loaded, saved, store, flow, target, seen, policy, original, budget>>

\* _restore_supervisor: the options command, its verification, the save.
RestoreSet(g) ==
  /\ pc[g] = "restore_set"
  /\ policy' = [policy EXCEPT ![saved[g].slug] = saved[g].policy]
  /\ Goto(g, "restore_check")
  /\ UNCHANGED <<loaded, settings, saved, store, flow, target, seen, original, budget>>

RestoreCheck(g) ==
  /\ pc[g] = "restore_check"
  /\ IF policy[saved[g].slug] = saved[g].policy
     THEN saved' = [saved EXCEPT ![g] = NoPolicy] /\ Goto(g, "restore_save")
     ELSE Goto(g, "idle") /\ UNCHANGED saved
  /\ UNCHANGED <<loaded, settings, store, flow, target, seen, policy, original, budget>>

RestoreSave(g) ==
  /\ pc[g] = "restore_save"
  /\ UNCHANGED saved /\ Save(g)
  /\ Adopt(g, target[g])
  /\ UNCHANGED <<loaded, flow, target, seen, policy, original, budget>>

ConfigureSave(g) ==
  /\ pc[g] = "cfg_save"
  /\ UNCHANGED saved /\ Save(g)
  /\ Goto(g, IF settings[g] \in Slugs THEN "subscribe" ELSE "idle")
  /\ UNCHANGED <<loaded, settings, flow, target, seen, policy, original, budget>>

-----------------------------------------------------------------------------
(* _take_ownership, called by the flow and by every tick.                  *)

\* An exception ends a tick; the flow first saves the guard as paused.
Raise(g) == Goto(g, IF flow[g] THEN "pause_save" ELSE "idle")

Enter(g) == IF Contested(g, settings[g]) THEN Raise(g) ELSE Goto(g, "own_info")

Subscribed(g) ==
  /\ pc[g] = "subscribe"
  /\ Enter(g)
  /\ UNCHANGED <<loaded, settings, saved, store, flow, target, seen, policy, original, budget>>

Tick(g) ==
  /\ loaded[g] /\ pc[g] = "idle" /\ settings[g] \in Slugs
  /\ ~Contested(g, settings[g])
  /\ flow' = [flow EXCEPT ![g] = FALSE]
  /\ Goto(g, "own_info")
  /\ UNCHANGED <<loaded, settings, saved, store, target, seen, policy, original, budget>>

\* Mutant of Gate: only the flow changes the policy, a tick does not.
GateOnce(g, found) ==
  Goto(g, IF found = Gated \/ ~flow[g] THEN "idle" ELSE "own_set")

\* With the policy that was read: nothing to do, or the options command.
Gate(g, found) == Goto(g, IF found = Gated THEN "idle" ELSE "own_set")

\* self.saved is there already.
Recorded(g) == saved[g] # NoPolicy

\* The new rollback record.
Rollback(g, found) == [slug |-> settings[g], policy |-> found]

OwnerInfo(g) ==
  LET found == policy[settings[g]]
  IN /\ pc[g] = "own_info"
     /\ seen' = [seen EXCEPT ![g] = found]
     /\ IF Recorded(g)
        THEN /\ IF saved[g].slug = settings[g] THEN Gate(g, found) ELSE Raise(g)
             /\ UNCHANGED saved
        ELSE /\ saved' = [saved EXCEPT ![g] = Rollback(g, found)]
             /\ Goto(g, "own_save")
     /\ UNCHANGED <<loaded, settings, store, flow, target, policy, original, budget>>

OwnerSave(g) ==
  /\ pc[g] = "own_save"
  /\ UNCHANGED saved /\ Save(g)
  /\ Gate(g, seen[g])
  /\ UNCHANGED <<loaded, settings, flow, target, seen, policy, original, budget>>

OwnerSet(g) ==
  /\ pc[g] = "own_set"
  /\ policy' = [policy EXCEPT ![settings[g]] = Gated]
  /\ Goto(g, "own_check")
  /\ UNCHANGED <<loaded, settings, saved, store, flow, target, seen, original, budget>>

OwnerCheck(g) ==
  /\ pc[g] = "own_check"
  /\ IF policy[settings[g]] = Gated THEN Goto(g, "idle") ELSE Raise(g)
  /\ UNCHANGED <<loaded, settings, saved, store, flow, target, seen, policy, original, budget>>

PauseSave(g) ==
  /\ pc[g] = "pause_save"
  /\ UNCHANGED saved /\ Save(g) /\ Goto(g, "idle")
  /\ UNCHANGED <<loaded, settings, flow, target, seen, policy, original, budget>>

-----------------------------------------------------------------------------
(* Failures, restarts, and the user of the Supervisor.                     *)

\* The policy the command in hand would set.
Wanted(g) ==
  IF pc[g] = "own_set" THEN [policy EXCEPT ![settings[g]] = Gated]
  ELSE IF pc[g] = "restore_set" THEN [policy EXCEPT ![saved[g].slug] = saved[g].policy]
  ELSE policy

\* A Supervisor command or the MQTT subscription fails; an options command
\* may have been carried out all the same.
CommandFails(g) ==
  /\ Spend("faults")
  /\ \/ pc[g] \in {"cfg_info", "restore_set", "restore_check"} /\ Goto(g, "idle")
     \/ pc[g] \in {"subscribe", "own_info", "own_set", "own_check"} /\ Raise(g)
  /\ policy' \in {policy, Wanted(g)}
  /\ UNCHANGED <<loaded, settings, saved, store, flow, target, seen, original>>

\* A guard object is gone: what it had in memory, and its lock.
Forget(G) ==
  /\ loaded' = [g \in Guards |-> loaded[g] /\ g \notin G]
  /\ settings' = [g \in Guards |-> IF g \in G THEN NoSlug ELSE settings[g]]
  /\ saved' = [g \in Guards |-> IF g \in G THEN NoPolicy ELSE saved[g]]
  /\ pc' = [g \in Guards |-> IF g \in G THEN "idle" ELSE pc[g]]
  /\ flow' = [g \in Guards |-> flow[g] /\ g \notin G]
  /\ target' = [g \in Guards |-> IF g \in G THEN NoSlug ELSE target[g]]
  /\ UNCHANGED <<store, seen, original>>

\* async_shutdown of one entry cancels its tick; the Supervisor may carry out
\* a command that was under way.
Unload(g) ==
  /\ loaded[g] /\ (flow[g] => pc[g] = "idle")
  /\ Spend("restarts")
  /\ Forget({g})
  /\ policy' \in {policy, Wanted(g)}

\* Home Assistant dies.
Crash ==
  /\ Spend("restarts")
  /\ Forget(Guards)
  /\ UNCHANGED policy

\* async_initialize.
Load(g) ==
  /\ ~loaded[g]
  /\ loaded' = [loaded EXCEPT ![g] = TRUE]
  /\ settings' = [settings EXCEPT ![g] = store[g].settings]
  /\ saved' = [saved EXCEPT ![g] = store[g].saved]
  /\ UNCHANGED <<store, pc, flow, target, seen, policy, original, budget>>

\* Someone changes the policy of an add-on a guard looks after.
Drift(s) ==
  /\ \E g \in Guards :
       /\ store[g].saved # NoPolicy /\ store[g].saved.slug = s
       /\ loaded[g] => saved[g] = store[g].saved
  /\ Spend("drifts")
  /\ \E p \in Policies \ {policy[s]} : policy' = [policy EXCEPT ![s] = p]
  /\ UNCHANGED <<guardVars, original>>

Command(g) ==
  \/ NameRead(g) \/ RestoreSet(g) \/ RestoreCheck(g) \/ RestoreSave(g)
  \/ ConfigureSave(g) \/ Subscribed(g) \/ OwnerInfo(g) \/ OwnerSave(g)
  \/ OwnerSet(g) \/ OwnerCheck(g) \/ PauseSave(g)

Next ==
  \/ \E g \in Guards :
       \/ Command(g) \/ Tick(g) \/ CommandFails(g) \/ Unload(g) \/ Load(g)
       \/ \E t \in Slugs \cup {NoSlug} : Configure(g, t)
  \/ Crash
  \/ \E s \in Slugs : Drift(s)

Spec == Init /\ [][Next]_vars

\* The Supervisor answers, the event loop runs, an entry is set up again.
Fairness == \A g \in Guards : WF_vars(Command(g)) /\ WF_vars(Tick(g)) /\ WF_vars(Load(g))

LiveSpec == Spec /\ Fairness

-----------------------------------------------------------------------------
TypeOK ==
  /\ loaded \in [Guards -> BOOLEAN]
  /\ settings \in [Guards -> Slugs \cup {NoSlug}]
  /\ saved \in [Guards -> Records \cup {NoPolicy}]
  /\ store \in [Guards -> [settings : Slugs \cup {NoSlug}, saved : Records \cup {NoPolicy}]]
  /\ pc \in [Guards -> Steps]
  /\ flow \in [Guards -> BOOLEAN]
  /\ target \in [Guards -> Slugs \cup {NoSlug}]
  /\ seen \in [Guards -> Policies]
  /\ policy \in [Slugs -> Policies]
  /\ original \in [Slugs -> Policies]
  /\ budget \in [{"requests", "faults", "restarts", "drifts"} -> Nat]

\* Two guards are never inside _take_ownership for the same add-on, however
\* their flows, ticks and restarts interleave: each announces itself in
\* settings before it looks at the others, without an await in between.
OneClaim ==
  \A g, h \in Guards :
    g # h /\ pc[g] \in Claiming /\ pc[h] \in Claiming => settings[g] # settings[h]

\* The rollback record is in storage, and is of the right add-on, before the
\* guard changes the Supervisor, so a crash at any later point can undo it.
RollbackFirst ==
  \A g \in Guards : pc[g] \in {"own_set", "own_check"} =>
    /\ saved[g] # NoPolicy /\ saved[g].slug = settings[g]
    /\ store[g] = [settings |-> settings[g], saved |-> saved[g]]

\* An add-on no guard is configured for, in memory or in storage, has the
\* policy its owner chose.
Returned ==
  \A s \in Slugs :
    (\A g \in Guards : s \notin {settings[g], store[g].settings}) => policy[s] = original[s]

\* An add-on that stays with one guard alone ends up gated, and stays so.
Gates ==
  \A g \in Guards, s \in Slugs :
    <>[](loaded[g] /\ settings[g] = s /\ ~Contested(g, s)) => <>[](policy[s] = Gated)
=============================================================================
