----------------------- MODULE SupervisorPolicyProofs -----------------------
(***************************************************************************)
(* For any number of guards and add-ons, with flows, ticks, failures and   *)
(* restarts in any order (Anytime included): two guards never take the     *)
(* same add-on at once, and a guard changes the Supervisor only with its   *)
(* rollback record in storage.  With dialogs kept apart from restarts, the *)
(* policy its owner chose comes back to every add-on that is given up.     *)
(***************************************************************************)
EXTENDS SupervisorPolicy, TLAPS

\* What the await a guard is at says of its memory.
Busy ==
  \A g \in Guards :
    /\ pc[g] # "idle" => loaded[g]
    /\ pc[g] \in {"subscribe"} \cup Claiming => settings[g] \in Slugs
    /\ pc[g] \in {"restore_set", "restore_check"} => saved[g] # NoPolicy
    /\ pc[g] = "restore_save" => saved[g] = NoPolicy
    /\ pc[g] \in {"own_save", "own_set", "own_check"} =>
         saved[g] # NoPolicy /\ saved[g].slug = settings[g]

\* Memory and storage differ only while a save is under way.
Persisted ==
  \A g \in Guards : loaded[g] =>
    /\ pc[g] \notin {"own_save", "restore_save"} => store[g].saved = saved[g]
    /\ pc[g] # "cfg_save" => store[g].settings = settings[g]

PolicyInv == TypeOK /\ Busy /\ Persisted

-----------------------------------------------------------------------------
\* The initial states satisfy the invariant.
LEMMA InitPolicyInv == Init => PolicyInv
<1> SUFFICES ASSUME Init PROVE PolicyInv
  OBVIOUS
<1>1. TypeOK
  <2>1. /\ loaded \in [Guards -> BOOLEAN] /\ settings \in [Guards -> Slugs \cup {NoSlug}]
        /\ saved \in [Guards -> Records \cup {NoPolicy}]
        /\ store \in [Guards -> [settings : Slugs \cup {NoSlug}, saved : Records \cup {NoPolicy}]]
    BY DEF Init
  <2>2. /\ pc \in [Guards -> Steps] /\ flow \in [Guards -> BOOLEAN]
        /\ target \in [Guards -> Slugs \cup {NoSlug}]
    BY DEF Init, Steps
  <2>3. /\ seen \in [Guards -> Policies] /\ policy \in [Slugs -> Policies]
        /\ original \in [Slugs -> Policies]
    BY PolicyAssumption DEF Init
  <2>4. budget \in [{"requests", "faults", "restarts", "drifts"} -> Nat]
    BY BoundAssumption DEF Init
  <2>5. QED
    BY <2>1, <2>2, <2>3, <2>4 DEF TypeOK
<1>2. Busy
  BY DEF Init, Busy, Claiming
<1>3. Persisted
  BY DEF Init, Persisted
<1>4. QED
  BY <1>1, <1>2, <1>3 DEF PolicyInv

-----------------------------------------------------------------------------
\* What a command wants to set is a policy of every add-on.
LEMMA WantedType ==
  ASSUME PolicyInv, NEW g \in Guards PROVE Wanted(g) \in [Slugs -> Policies]
<1>1. CASE pc[g] = "own_set"
  BY <1>1, PolicyAssumption DEF PolicyInv, TypeOK, Wanted
<1>2. CASE pc[g] = "restore_set"
  <2>1. saved[g] \in Records
    BY <1>2 DEF PolicyInv, TypeOK, Busy
  <2>2. QED
    BY <1>2, <2>1 DEF PolicyInv, TypeOK, Wanted, Records
<1>3. CASE pc[g] \notin {"own_set", "restore_set"}
  BY <1>3 DEF PolicyInv, TypeOK, Wanted
<1>4. QED
  BY <1>1, <1>2, <1>3

LEMMA NameReadKeeps ==
  ASSUME PolicyInv, NEW g \in Guards, NameRead(g) PROVE PolicyInv'
<1> USE DEF PolicyInv, NameRead, Replace, Adopt, Goto, GivesUp
<1>1. TypeOK'
  <2>1. settings' \in [Guards -> Slugs \cup {NoSlug}]
    BY DEF TypeOK
  <2>2. pc' \in [Guards -> Steps]
    BY DEF TypeOK, Steps
  <2>3. QED
    BY <2>1, <2>2 DEF TypeOK
<1>2. Busy'
  BY SlugAssumption DEF TypeOK, Busy, Steps, Claiming, Records
<1>3. Persisted'
  BY SlugAssumption DEF TypeOK, Busy, Persisted, Claiming
<1>4. QED
  BY <1>1, <1>2, <1>3

LEMMA RestoreSetKeeps ==
  ASSUME PolicyInv, NEW g \in Guards, RestoreSet(g) PROVE PolicyInv'
<1> USE DEF PolicyInv, RestoreSet, Goto
<1>1. TypeOK'
  BY SlugAssumption DEF TypeOK, Busy, Steps, Claiming, Records
<1>2. Busy'
  BY SlugAssumption DEF TypeOK, Busy, Steps, Claiming, Records
<1>3. Persisted'
  BY SlugAssumption DEF TypeOK, Busy, Persisted, Claiming
<1>4. QED
  BY <1>1, <1>2, <1>3

LEMMA RestoreCheckKeeps ==
  ASSUME PolicyInv, NEW g \in Guards, RestoreCheck(g) PROVE PolicyInv'
<1> USE DEF PolicyInv, RestoreCheck, Goto
<1>1. TypeOK'
  <2>1. saved' \in [Guards -> Records \cup {NoPolicy}]
    BY DEF TypeOK
  <2>2. \E x \in {"restore_save", "idle"} : pc' = [pc EXCEPT ![g] = x]
    OBVIOUS
  <2>3. pc' \in [Guards -> Steps]
    BY <2>2 DEF TypeOK, Steps
  <2>4. QED
    BY <2>1, <2>3 DEF TypeOK
<1>2. Busy'
  BY SlugAssumption DEF TypeOK, Busy, Steps, Claiming, Records
<1>3. Persisted'
  BY SlugAssumption DEF TypeOK, Busy, Persisted, Claiming
<1>4. QED
  BY <1>1, <1>2, <1>3

LEMMA RestoreSaveKeeps ==
  ASSUME PolicyInv, NEW g \in Guards, RestoreSave(g) PROVE PolicyInv'
<1> USE DEF PolicyInv, RestoreSave, Save, Adopt, Goto
<1>1. TypeOK'
  BY SlugAssumption DEF TypeOK, Busy, Steps, Claiming, Records
<1>2. Busy'
  BY SlugAssumption DEF TypeOK, Busy, Steps, Claiming, Records
<1>3. Persisted'
  BY SlugAssumption DEF TypeOK, Busy, Persisted, Claiming
<1>4. QED
  BY <1>1, <1>2, <1>3

LEMMA ConfigureSaveKeeps ==
  ASSUME PolicyInv, NEW g \in Guards, ConfigureSave(g) PROVE PolicyInv'
<1> USE DEF PolicyInv, ConfigureSave, Save, Goto
<1>1. TypeOK'
  BY SlugAssumption DEF TypeOK, Busy, Steps, Claiming, Records
<1>2. Busy'
  BY SlugAssumption DEF TypeOK, Busy, Steps, Claiming, Records
<1>3. Persisted'
  BY SlugAssumption DEF TypeOK, Busy, Persisted, Claiming
<1>4. QED
  BY <1>1, <1>2, <1>3

LEMMA SubscribedKeeps ==
  ASSUME PolicyInv, NEW g \in Guards, Subscribed(g) PROVE PolicyInv'
<1> USE DEF PolicyInv, Subscribed, Enter, Raise, Goto
<1>1. TypeOK'
  <2>1. \E x \in {"idle", "pause_save", "own_info"} : pc' = [pc EXCEPT ![g] = x]
    OBVIOUS
  <2>2. pc' \in [Guards -> Steps]
    BY <2>1 DEF TypeOK, Steps, Claiming
  <2>3. QED
    BY <2>2 DEF TypeOK
<1>2. Busy'
  BY SlugAssumption DEF TypeOK, Busy, Steps, Claiming, Records
<1>3. Persisted'
  BY SlugAssumption DEF TypeOK, Busy, Persisted, Claiming
<1>4. QED
  BY <1>1, <1>2, <1>3

LEMMA OwnerInfoKeeps ==
  ASSUME PolicyInv, NEW g \in Guards, OwnerInfo(g) PROVE PolicyInv'
<1> USE DEF PolicyInv, OwnerInfo, Gate, Raise, Goto, Recorded, Rollback
<1>1. TypeOK'
  <2>1. settings[g] \in Slugs /\ policy[settings[g]] \in Policies
    BY DEF TypeOK, Busy, Claiming
  <2>2. seen' \in [Guards -> Policies]
    BY <2>1 DEF TypeOK
  <2>3. saved' \in [Guards -> Records \cup {NoPolicy}]
    BY <2>1 DEF TypeOK, Records
  <2>4. pc' \in [Guards -> Steps]
    <3>1. \E x \in {"idle", "own_set", "own_save", "pause_save"} :
            pc' = [pc EXCEPT ![g] = x]
      OBVIOUS
    <3>2. QED
      BY <3>1 DEF TypeOK, Steps, Claiming
  <2>5. QED
    BY <2>2, <2>3, <2>4 DEF TypeOK
<1>2. Busy'
  <2>1. settings[g] \in Slugs /\ policy[settings[g]] \in Policies /\ loaded[g]
    BY DEF TypeOK, Busy, Claiming
  <2>2. CASE Recorded(g)
    BY <2>1, <2>2 DEF TypeOK, Busy, Claiming
  <2>3. CASE ~Recorded(g)
    <3>1. /\ saved' = [saved EXCEPT ![g] = Rollback(g, policy[settings[g]])]
          /\ pc' = [pc EXCEPT ![g] = "own_save"]
      BY <2>3
    <3>2. Rollback(g, policy[settings[g]]) \in Records
      BY <2>1 DEF Records
    <3>3. Rollback(g, policy[settings[g]]) # NoPolicy
      BY <3>2, PolicyAssumption DEF Records
    <3>4. Rollback(g, policy[settings[g]]).slug = settings[g]
      OBVIOUS
    <3>5. QED
      BY <2>1, <3>1, <3>3, <3>4 DEF TypeOK, Busy, Claiming
  <2>4. QED
    BY <2>2, <2>3
<1>3. Persisted'
  BY SlugAssumption DEF TypeOK, Busy, Persisted, Claiming
<1>4. QED
  BY <1>1, <1>2, <1>3

LEMMA OwnerSaveKeeps ==
  ASSUME PolicyInv, NEW g \in Guards, OwnerSave(g) PROVE PolicyInv'
<1> USE DEF PolicyInv, OwnerSave, Save, Gate, Goto
<1>1. TypeOK'
  BY SlugAssumption DEF TypeOK, Busy, Steps, Claiming, Records
<1>2. Busy'
  BY SlugAssumption DEF TypeOK, Busy, Steps, Claiming, Records
<1>3. Persisted'
  BY SlugAssumption DEF TypeOK, Busy, Persisted, Claiming
<1>4. QED
  BY <1>1, <1>2, <1>3

LEMMA OwnerSetKeeps ==
  ASSUME PolicyInv, NEW g \in Guards, OwnerSet(g) PROVE PolicyInv'
<1> USE DEF PolicyInv, OwnerSet, Goto
<1>1. TypeOK'
  <2>1. policy' \in [Slugs -> Policies]
    BY PolicyAssumption DEF TypeOK
  <2>2. pc' \in [Guards -> Steps]
    BY DEF TypeOK, Steps, Claiming
  <2>3. QED
    BY <2>1, <2>2 DEF TypeOK
<1>2. Busy'
  BY SlugAssumption DEF TypeOK, Busy, Steps, Claiming, Records
<1>3. Persisted'
  BY SlugAssumption DEF TypeOK, Busy, Persisted, Claiming
<1>4. QED
  BY <1>1, <1>2, <1>3

LEMMA OwnerCheckKeeps ==
  ASSUME PolicyInv, NEW g \in Guards, OwnerCheck(g) PROVE PolicyInv'
<1> USE DEF PolicyInv, OwnerCheck, Raise, Goto
<1>1. TypeOK'
  BY SlugAssumption DEF TypeOK, Busy, Steps, Claiming, Records
<1>2. Busy'
  BY SlugAssumption DEF TypeOK, Busy, Steps, Claiming, Records
<1>3. Persisted'
  BY SlugAssumption DEF TypeOK, Busy, Persisted, Claiming
<1>4. QED
  BY <1>1, <1>2, <1>3

LEMMA PauseSaveKeeps ==
  ASSUME PolicyInv, NEW g \in Guards, PauseSave(g) PROVE PolicyInv'
<1> USE DEF PolicyInv, PauseSave, Save, Goto
<1>1. TypeOK'
  BY SlugAssumption DEF TypeOK, Busy, Steps, Claiming, Records
<1>2. Busy'
  BY SlugAssumption DEF TypeOK, Busy, Steps, Claiming, Records
<1>3. Persisted'
  BY SlugAssumption DEF TypeOK, Busy, Persisted, Claiming
<1>4. QED
  BY <1>1, <1>2, <1>3

LEMMA TickKeeps ==
  ASSUME PolicyInv, NEW g \in Guards, Tick(g) PROVE PolicyInv'
<1> USE DEF PolicyInv, Tick, Goto
<1>1. TypeOK'
  BY SlugAssumption DEF TypeOK, Busy, Steps, Claiming, Records
<1>2. Busy'
  BY SlugAssumption DEF TypeOK, Busy, Steps, Claiming, Records
<1>3. Persisted'
  BY SlugAssumption DEF TypeOK, Busy, Persisted, Claiming
<1>4. QED
  BY <1>1, <1>2, <1>3

LEMMA CommandFailsKeeps ==
  ASSUME PolicyInv, NEW g \in Guards, CommandFails(g) PROVE PolicyInv'
<1> USE DEF PolicyInv, CommandFails, Spend, Raise, Goto, Wanted
<1>1. TypeOK'
  <2>1. Wanted(g) \in [Slugs -> Policies]
    BY WantedType DEF PolicyInv
  <2>2. policy' \in [Slugs -> Policies]
    BY <2>1 DEF TypeOK
  <2>3. pc' \in [Guards -> Steps]
    BY DEF TypeOK, Steps, Claiming
  <2>4. budget' \in [{"requests", "faults", "restarts", "drifts"} -> Nat]
    BY DEF TypeOK
  <2>5. QED
    BY <2>2, <2>3, <2>4 DEF TypeOK
<1>2. Busy'
  BY SlugAssumption DEF TypeOK, Busy, Steps, Claiming, Records
<1>3. Persisted'
  BY SlugAssumption DEF TypeOK, Busy, Persisted, Claiming
<1>4. QED
  BY <1>1, <1>2, <1>3

LEMMA UnloadKeeps ==
  ASSUME PolicyInv, NEW g \in Guards, Unload(g) PROVE PolicyInv'
<1> USE DEF PolicyInv, Unload, Spend, Forget, Wanted
<1>1. TypeOK'
  <2>1. Wanted(g) \in [Slugs -> Policies]
    BY WantedType DEF PolicyInv
  <2>2. policy' \in [Slugs -> Policies]
    BY <2>1 DEF TypeOK
  <2>3. /\ loaded' \in [Guards -> BOOLEAN] /\ flow' \in [Guards -> BOOLEAN]
        /\ settings' \in [Guards -> Slugs \cup {NoSlug}]
        /\ target' \in [Guards -> Slugs \cup {NoSlug}]
    BY DEF TypeOK
  <2>4. saved' \in [Guards -> Records \cup {NoPolicy}]
    BY DEF TypeOK
  <2>5. pc' \in [Guards -> Steps]
    BY DEF TypeOK, Steps
  <2>6. budget' \in [{"requests", "faults", "restarts", "drifts"} -> Nat]
    BY DEF TypeOK
  <2>7. QED
    BY <2>2, <2>3, <2>4, <2>5, <2>6 DEF TypeOK
<1>2. Busy'
  BY SlugAssumption DEF TypeOK, Busy, Steps, Claiming, Records
<1>3. Persisted'
  BY SlugAssumption DEF TypeOK, Busy, Persisted, Claiming
<1>4. QED
  BY <1>1, <1>2, <1>3

LEMMA LoadKeeps ==
  ASSUME PolicyInv, NEW g \in Guards, Load(g) PROVE PolicyInv'
<1> USE DEF PolicyInv, Load, Goto
<1>1. TypeOK'
  BY SlugAssumption DEF TypeOK, Busy, Steps, Claiming, Records
<1>2. Busy'
  BY SlugAssumption DEF TypeOK, Busy, Steps, Claiming, Records
<1>3. Persisted'
  BY SlugAssumption DEF TypeOK, Busy, Persisted, Claiming
<1>4. QED
  BY <1>1, <1>2, <1>3

LEMMA ConfigureKeeps ==
  ASSUME PolicyInv, NEW g \in Guards, NEW t \in Slugs \cup {NoSlug}, Configure(g, t)
  PROVE  PolicyInv'
<1> USE DEF PolicyInv, Configure, Replace, Adopt, GivesUp, Goto, Spend
<1>1. TypeOK'
  <2>1. settings' \in [Guards -> Slugs \cup {NoSlug}]
    BY DEF TypeOK
  <2>2. pc' \in [Guards -> Steps]
    BY DEF TypeOK, Steps
  <2>3. /\ flow' \in [Guards -> BOOLEAN]
        /\ target' \in [Guards -> Slugs \cup {NoSlug}]
        /\ budget' \in [{"requests", "faults", "restarts", "drifts"} -> Nat]
    BY DEF TypeOK
  <2>4. QED
    BY <2>1, <2>2, <2>3 DEF TypeOK
<1>2. Busy'
  BY SlugAssumption DEF TypeOK, Busy, Steps, Claiming, Records
<1>3. Persisted'
  BY SlugAssumption DEF TypeOK, Busy, Persisted, Claiming
<1>4. QED
  BY <1>1, <1>2, <1>3

LEMMA CrashKeeps ==
  ASSUME PolicyInv, Crash PROVE PolicyInv'
<1> USE DEF PolicyInv, Crash, Spend, Forget
<1>1. TypeOK'
  BY SlugAssumption DEF TypeOK, Busy, Steps, Claiming, Records
<1>2. Busy'
  BY SlugAssumption DEF TypeOK, Busy, Steps, Claiming, Records
<1>3. Persisted'
  BY SlugAssumption DEF TypeOK, Busy, Persisted, Claiming
<1>4. QED
  BY <1>1, <1>2, <1>3

LEMMA DriftKeeps ==
  ASSUME PolicyInv, NEW s \in Slugs, Drift(s) PROVE PolicyInv'
<1> USE DEF PolicyInv, Drift, Spend, guardVars
<1>1. TypeOK'
  BY SlugAssumption DEF TypeOK, Busy, Steps, Claiming, Records
<1>2. Busy'
  BY SlugAssumption DEF TypeOK, Busy, Steps, Claiming, Records
<1>3. Persisted'
  BY SlugAssumption DEF TypeOK, Busy, Persisted, Claiming
<1>4. QED
  BY <1>1, <1>2, <1>3

\* Every step keeps the invariant.
LEMMA StepPolicyInv == PolicyInv /\ [Next]_vars => PolicyInv'
<1> SUFFICES ASSUME PolicyInv, [Next]_vars PROVE PolicyInv'
  OBVIOUS
<1>1. CASE \E g \in Guards : NameRead(g)
  BY <1>1, NameReadKeeps
<1>2. CASE \E g \in Guards : RestoreSet(g)
  BY <1>2, RestoreSetKeeps
<1>3. CASE \E g \in Guards : RestoreCheck(g)
  BY <1>3, RestoreCheckKeeps
<1>4. CASE \E g \in Guards : RestoreSave(g)
  BY <1>4, RestoreSaveKeeps
<1>5. CASE \E g \in Guards : ConfigureSave(g)
  BY <1>5, ConfigureSaveKeeps
<1>6. CASE \E g \in Guards : Subscribed(g)
  BY <1>6, SubscribedKeeps
<1>7. CASE \E g \in Guards : OwnerInfo(g)
  BY <1>7, OwnerInfoKeeps
<1>8. CASE \E g \in Guards : OwnerSave(g)
  BY <1>8, OwnerSaveKeeps
<1>9. CASE \E g \in Guards : OwnerSet(g)
  BY <1>9, OwnerSetKeeps
<1>10. CASE \E g \in Guards : OwnerCheck(g)
  BY <1>10, OwnerCheckKeeps
<1>11. CASE \E g \in Guards : PauseSave(g)
  BY <1>11, PauseSaveKeeps
<1>12. CASE \E g \in Guards : Tick(g)
  BY <1>12, TickKeeps
<1>13. CASE \E g \in Guards : CommandFails(g)
  BY <1>13, CommandFailsKeeps
<1>14. CASE \E g \in Guards : Unload(g)
  BY <1>14, UnloadKeeps
<1>15. CASE \E g \in Guards : Load(g)
  BY <1>15, LoadKeeps
<1>16. CASE \E g \in Guards, t \in Slugs \cup {NoSlug} : Configure(g, t)
  BY <1>16, ConfigureKeeps
<1>17. CASE Crash
  BY <1>17, CrashKeeps
<1>18. CASE \E s \in Slugs : Drift(s)
  BY <1>18, DriftKeeps
<1>19. CASE UNCHANGED vars
  BY <1>19 DEF vars, guardVars, PolicyInv, TypeOK, Busy, Persisted
<1>20. QED
  BY <1>1, <1>2, <1>3, <1>4, <1>5, <1>6, <1>7, <1>8, <1>9, <1>10, <1>11, <1>12, <1>13, <1>14, <1>15, <1>16, <1>17, <1>18, <1>19 DEF Next, Command

\* The types of the module hold in every reachable state.
THEOREM PolicyTypes == Spec => []TypeOK
<1>1. PolicyInv => TypeOK
  BY DEF PolicyInv
<1>2. QED
  BY InitPolicyInv, StepPolicyInv, <1>1, PTL DEF Spec

\* A crash at any point after the Supervisor was changed finds the rollback
\* record in storage.
THEOREM RollbackIsStored == Spec => []RollbackFirst
<1>1. PolicyInv => RollbackFirst
  <2> SUFFICES ASSUME PolicyInv, NEW g \in Guards, pc[g] \in {"own_set", "own_check"}
               PROVE  /\ saved[g] # NoPolicy /\ saved[g].slug = settings[g]
                      /\ store[g] = [settings |-> settings[g], saved |-> saved[g]]
    BY DEF RollbackFirst
  <2>1. loaded[g] /\ saved[g] # NoPolicy /\ saved[g].slug = settings[g]
    BY DEF PolicyInv, Busy
  <2>2. store[g].saved = saved[g] /\ store[g].settings = settings[g]
    BY <2>1 DEF PolicyInv, Persisted
  <2>3. store[g] \in [settings : Slugs \cup {NoSlug}, saved : Records \cup {NoPolicy}]
    BY DEF PolicyInv, TypeOK
  <2>4. QED
    BY <2>1, <2>2, <2>3
<1>2. QED
  BY InitPolicyInv, StepPolicyInv, <1>1, PTL DEF Spec

-----------------------------------------------------------------------------
\* What a step of guard g means for the claims: it touches no other guard, and
\* enters _take_ownership only for an add-on no other guard is enabled for.
ClaimStep(g) ==
  /\ \A h \in Guards \ {g} : pc'[h] = pc[h] /\ settings'[h] = settings[h]
  /\ pc'[g] \in Claiming =>
       /\ settings'[g] = settings[g]
       /\ pc[g] \in Claiming \/ ~Contested(g, settings[g])

LEMMA ClaimStepKeeps ==
  ASSUME OneClaim, NEW g \in Guards, ClaimStep(g) PROVE OneClaim'
BY DEF OneClaim, ClaimStep, Contested

LEMMA StepOneClaim == PolicyInv /\ OneClaim /\ [Next]_vars => OneClaim'
<1> SUFFICES ASSUME PolicyInv, OneClaim, [Next]_vars PROVE OneClaim'
  OBVIOUS
<1> USE DEF PolicyInv, TypeOK, Claiming, ClaimStep
<1>1. ASSUME NEW g \in Guards, NameRead(g) PROVE ClaimStep(g)
  BY <1>1 DEF NameRead, Replace, Adopt, Goto
<1>2. ASSUME NEW g \in Guards, RestoreSet(g) PROVE ClaimStep(g)
  BY <1>2 DEF RestoreSet, Goto
<1>3. ASSUME NEW g \in Guards, RestoreCheck(g) PROVE ClaimStep(g)
  BY <1>3 DEF RestoreCheck, Goto
<1>4. ASSUME NEW g \in Guards, RestoreSave(g) PROVE ClaimStep(g)
  BY <1>4 DEF RestoreSave, Adopt, Goto
<1>5. ASSUME NEW g \in Guards, ConfigureSave(g) PROVE ClaimStep(g)
  BY <1>5 DEF ConfigureSave, Goto
<1>6. ASSUME NEW g \in Guards, Subscribed(g) PROVE ClaimStep(g)
  BY <1>6 DEF Subscribed, Enter, Raise, Goto
<1>7. ASSUME NEW g \in Guards, OwnerInfo(g) PROVE ClaimStep(g)
  BY <1>7 DEF OwnerInfo, Gate, Raise, Goto
<1>8. ASSUME NEW g \in Guards, OwnerSave(g) PROVE ClaimStep(g)
  BY <1>8 DEF OwnerSave, Gate, Goto
<1>9. ASSUME NEW g \in Guards, OwnerSet(g) PROVE ClaimStep(g)
  BY <1>9 DEF OwnerSet, Goto
<1>10. ASSUME NEW g \in Guards, OwnerCheck(g) PROVE ClaimStep(g)
  BY <1>10 DEF OwnerCheck, Raise, Goto
<1>11. ASSUME NEW g \in Guards, PauseSave(g) PROVE ClaimStep(g)
  BY <1>11 DEF PauseSave, Goto
<1>12. ASSUME NEW g \in Guards, Tick(g) PROVE ClaimStep(g)
  BY <1>12 DEF Tick, Goto
<1>13. ASSUME NEW g \in Guards, CommandFails(g) PROVE ClaimStep(g)
  BY <1>13 DEF CommandFails, Raise, Goto
<1>14. ASSUME NEW g \in Guards, Unload(g) PROVE ClaimStep(g)
  BY <1>14 DEF Unload, Forget
<1>15. ASSUME NEW g \in Guards, Load(g) PROVE ClaimStep(g)
  BY <1>15 DEF Load, Busy
<1>16. ASSUME NEW g \in Guards, NEW t \in Slugs \cup {NoSlug}, Configure(g, t) PROVE ClaimStep(g)
  BY <1>16 DEF Configure, Replace, Adopt, Goto
<1>17. CASE Crash
  BY <1>17 DEF Crash, Forget, OneClaim
<1>18. CASE \E s \in Slugs : Drift(s)
  BY <1>18 DEF Drift, guardVars, OneClaim
<1>19. CASE UNCHANGED vars
  BY <1>19 DEF vars, guardVars, OneClaim
<1>20. ASSUME NEW g \in Guards, ClaimStep(g) PROVE OneClaim'
  BY <1>20, ClaimStepKeeps
<1> HIDE DEF PolicyInv, TypeOK, Claiming, ClaimStep
<1>21. QED
  BY <1>1, <1>2, <1>3, <1>4, <1>5, <1>6, <1>7, <1>8, <1>9, <1>10, <1>11, <1>12, <1>13, <1>14, <1>15, <1>16, <1>17, <1>18, <1>19, <1>20 DEF Next, Command

\* Two guards never take the same add-on at once, whether or not their flows
\* overlap and whatever restarts in between.
THEOREM ClaimsAreExclusive == Spec => []OneClaim
<1>1. Init => OneClaim
  BY DEF Init, OneClaim, Claiming
<1>2. QED
  BY InitPolicyInv, StepPolicyInv, StepOneClaim, <1>1, PTL DEF Spec

-----------------------------------------------------------------------------
(* The policy comes back.  Dialogs are not opened while an entry is not    *)
(* set up or beside one a restart interrupts (~Anytime): without that the  *)
(* code does not keep the promise, as SupervisorPolicyReload.cfg shows.    *)

\* These awaits belong to a dialog.
Dialogs ==
  \A g \in Guards :
    pc[g] \in {"cfg_info", "cfg_save", "subscribe", "pause_save",
               "restore_set", "restore_check", "restore_save"} => flow[g]

\* A rollback record is of the add-on the guard is enabled for, and holds the
\* policy its owner chose.
Agreed ==
  \A g \in Guards :
    /\ saved[g] # NoPolicy =>
         saved[g].slug = settings[g] /\ saved[g].policy = original[saved[g].slug]
    /\ store[g].saved # NoPolicy =>
         /\ store[g].saved.slug = store[g].settings
         /\ store[g].saved.policy = original[store[g].saved.slug]

\* A record of s is in storage, and in memory if the entry is loaded.
Holds(g, s) ==
  /\ store[g].saved # NoPolicy /\ store[g].saved.slug = s
  /\ loaded[g] => saved[g] = store[g].saved

\* An add-on whose policy is not its owner's has a guard that will return it.
Held == \A s \in Slugs : policy[s] # original[s] => \E g \in Guards : Holds(g, s)

\* Inside _take_ownership no other guard has a record of the add-on.
Alone ==
  \A g, h \in Guards :
    g # h /\ pc[g] \in Claiming /\ saved[h] # NoPolicy => saved[h].slug # settings[g]

\* Guard g is enabled for add-on s, was when it saved last, or will be.
Claims(g, s) ==
  \/ settings[g] = s \/ store[g].settings = s
  \/ flow[g] /\ pc[g] # "idle" /\ target[g] = s

\* Where an entry is not loaded, or may still be unloaded, no two guards claim
\* the same add-on.
Apart ==
  \A g, h \in Guards, s \in Slugs :
    g # h /\ (budget.restarts > 0 \/ ~loaded[g]) => ~(Claims(g, s) /\ Claims(h, s))

ReturnInv == Dialogs /\ Agreed /\ Held /\ Alone /\ Apart

LEMMA NameReadReturns ==
  ASSUME PolicyInv, OneClaim, ReturnInv, NEW g \in Guards, NameRead(g) PROVE ReturnInv'
<1> USE SlugAssumption, PolicyAssumption
        DEF PolicyInv, TypeOK, Busy, Persisted, Claiming, Records, Steps,
            NameRead, Replace, Adopt, Goto, GivesUp
<1>1. Dialogs'
  BY DEF ReturnInv, Dialogs
<1>2. Agreed'
  BY DEF ReturnInv, Agreed
<1>3. Held'
  BY DEF ReturnInv, Agreed, Held, Holds
<1>4. Alone'
  BY DEF ReturnInv, Agreed, Alone
<1>5. Apart'
  BY DEF ReturnInv, Dialogs, Apart, Claims
<1>6. QED
  BY <1>1, <1>2, <1>3, <1>4, <1>5 DEF ReturnInv

LEMMA RestoreSetReturns ==
  ASSUME PolicyInv, OneClaim, ReturnInv, NEW g \in Guards, RestoreSet(g) PROVE ReturnInv'
<1> USE SlugAssumption, PolicyAssumption
        DEF PolicyInv, TypeOK, Busy, Persisted, Claiming, Records, Steps,
            RestoreSet, Goto
<1>1. Dialogs'
  BY DEF ReturnInv, Dialogs
<1>2. Agreed'
  BY DEF ReturnInv, Agreed
<1>3. Held'
  BY DEF ReturnInv, Agreed, Held, Holds
<1>4. Alone'
  BY DEF ReturnInv, Agreed, Alone
<1>5. Apart'
  BY DEF ReturnInv, Dialogs, Apart, Claims
<1>6. QED
  BY <1>1, <1>2, <1>3, <1>4, <1>5 DEF ReturnInv

LEMMA RestoreCheckReturns ==
  ASSUME PolicyInv, OneClaim, ReturnInv, NEW g \in Guards, RestoreCheck(g) PROVE ReturnInv'
<1> USE SlugAssumption, PolicyAssumption
        DEF PolicyInv, TypeOK, Busy, Persisted, Claiming, Records, Steps,
            RestoreCheck, Goto
<1>1. Dialogs'
  BY DEF ReturnInv, Dialogs
<1>2. Agreed'
  BY DEF ReturnInv, Agreed
<1>3. Held'
  BY DEF ReturnInv, Agreed, Held, Holds
<1>4. Alone'
  BY DEF ReturnInv, Agreed, Alone
<1>5. Apart'
  BY DEF ReturnInv, Dialogs, Apart, Claims
<1>6. QED
  BY <1>1, <1>2, <1>3, <1>4, <1>5 DEF ReturnInv

LEMMA RestoreSaveReturns ==
  ASSUME PolicyInv, OneClaim, ReturnInv, NEW g \in Guards, RestoreSave(g) PROVE ReturnInv'
<1> USE SlugAssumption, PolicyAssumption
        DEF PolicyInv, TypeOK, Busy, Persisted, Claiming, Records, Steps,
            RestoreSave, Save, Adopt, Goto
<1>1. Dialogs'
  BY DEF ReturnInv, Dialogs
<1>2. Agreed'
  <2>1. saved[g] = NoPolicy
    OBVIOUS
  <2>2. /\ store' = [store EXCEPT ![g] = [settings |-> settings[g], saved |-> NoPolicy]]
        /\ saved' = saved /\ original' = original
        /\ \A h \in Guards \ {g} : settings'[h] = settings[h]
    BY <2>1
  <2>3. QED
    BY <2>1, <2>2 DEF ReturnInv, Agreed
<1>3. Held'
  BY DEF ReturnInv, Agreed, Held, Holds
<1>4. Alone'
  BY DEF ReturnInv, Agreed, Alone
<1>5. Apart'
  BY DEF ReturnInv, Dialogs, Apart, Claims
<1>6. QED
  BY <1>1, <1>2, <1>3, <1>4, <1>5 DEF ReturnInv

LEMMA ConfigureSaveReturns ==
  ASSUME PolicyInv, OneClaim, ReturnInv, NEW g \in Guards, ConfigureSave(g) PROVE ReturnInv'
<1> USE SlugAssumption, PolicyAssumption
        DEF PolicyInv, TypeOK, Busy, Persisted, Claiming, Records, Steps,
            ConfigureSave, Save, Goto
<1>1. Dialogs'
  BY DEF ReturnInv, Dialogs
<1>2. Agreed'
  BY DEF ReturnInv, Agreed
<1>3. Held'
  BY DEF ReturnInv, Agreed, Held, Holds
<1>4. Alone'
  BY DEF ReturnInv, Agreed, Alone
<1>5. Apart'
  BY DEF ReturnInv, Dialogs, Apart, Claims
<1>6. QED
  BY <1>1, <1>2, <1>3, <1>4, <1>5 DEF ReturnInv

LEMMA SubscribedReturns ==
  ASSUME PolicyInv, OneClaim, ReturnInv, NEW g \in Guards, Subscribed(g) PROVE ReturnInv'
<1> USE SlugAssumption, PolicyAssumption
        DEF PolicyInv, TypeOK, Busy, Persisted, Claiming, Records, Steps,
            Subscribed, Enter, Raise, Goto, Contested
<1>1. Dialogs'
  BY DEF ReturnInv, Dialogs
<1>2. Agreed'
  BY DEF ReturnInv, Agreed
<1>3. Held'
  BY DEF ReturnInv, Agreed, Held, Holds
<1>4. Alone'
  BY DEF ReturnInv, Agreed, Alone
<1>5. Apart'
  BY DEF ReturnInv, Dialogs, Apart, Claims
<1>6. QED
  BY <1>1, <1>2, <1>3, <1>4, <1>5 DEF ReturnInv

\* A guard that finds no record of its own reads the owner's policy.
LEMMA FoundIsOriginal ==
  ASSUME PolicyInv, ReturnInv, NEW g \in Guards, pc[g] = "own_info", ~Recorded(g)
  PROVE  policy[settings[g]] = original[settings[g]]
<1> SUFFICES ASSUME policy[settings[g]] # original[settings[g]] PROVE FALSE
  OBVIOUS
<1>1. settings[g] \in Slugs /\ loaded[g] /\ saved[g] = NoPolicy
  BY DEF PolicyInv, Busy, Claiming, Recorded
<1>2. PICK h \in Guards : Holds(h, settings[g])
  BY <1>1 DEF ReturnInv, Held
<1>3. h # g
  BY <1>1, <1>2 DEF Holds
<1>4. ~loaded[h]
  BY <1>2, <1>3 DEF Holds, ReturnInv, Alone, Claiming
<1>5. Claims(g, settings[g]) /\ Claims(h, settings[g])
  BY <1>2 DEF Claims, Holds, ReturnInv, Agreed
<1>6. QED
  BY <1>1, <1>3, <1>4, <1>5 DEF ReturnInv, Apart

LEMMA OwnerInfoReturns ==
  ASSUME PolicyInv, OneClaim, ReturnInv, NEW g \in Guards, OwnerInfo(g) PROVE ReturnInv'
<1> USE SlugAssumption, PolicyAssumption
        DEF PolicyInv, TypeOK, Busy, Persisted, Claiming, Records, Steps,
            OwnerInfo, Gate, Raise, Goto, Recorded, Rollback
<1>1. Dialogs'
  BY DEF ReturnInv, Dialogs
<1>2. Agreed'
  <2>1. CASE Recorded(g)
    BY <2>1 DEF ReturnInv, Agreed
  <2>2. CASE ~Recorded(g)
    <3>1. saved' = [saved EXCEPT ![g] = Rollback(g, policy[settings[g]])]
      BY <2>2
    <3>2. policy[settings[g]] = original[settings[g]]
      BY <2>2, FoundIsOriginal
    <3>3. UNCHANGED <<settings, store, original>>
      OBVIOUS
    <3>4. QED
      BY <3>1, <3>2, <3>3 DEF ReturnInv, Agreed
  <2>3. QED
    BY <2>1, <2>2
<1>3. Held'
  BY DEF ReturnInv, Agreed, Held, Holds
<1>4. Alone'
  <2>1. \A h \in Guards : pc'[h] \in Claiming => pc[h] \in Claiming
    OBVIOUS
  <2>2. \A h \in Guards : saved'[h] = saved[h] \/ (h = g /\ saved'[g].slug = settings[g])
    <3>1. \/ saved' = saved
          \/ saved' = [saved EXCEPT ![g] = [slug |-> settings[g], policy |-> policy[settings[g]]]]
      OBVIOUS
    <3>2. saved \in [Guards -> Records \cup {NoPolicy}]
      OBVIOUS
    <3> HIDE DEF PolicyInv, OwnerInfo, Records
    <3>3. QED
      BY <3>1, <3>2
  <2>3. UNCHANGED settings /\ pc[g] \in Claiming
    OBVIOUS
  <2> HIDE DEF OwnerInfo, Claiming, Gate, Raise, Goto
  <2>4. QED
    BY SMTT(30), <2>1, <2>2, <2>3 DEF ReturnInv, Alone, OneClaim
<1>5. Apart'
  BY DEF ReturnInv, Dialogs, Apart, Claims
<1>6. QED
  BY <1>1, <1>2, <1>3, <1>4, <1>5 DEF ReturnInv

LEMMA OwnerSaveReturns ==
  ASSUME PolicyInv, OneClaim, ReturnInv, NEW g \in Guards, OwnerSave(g) PROVE ReturnInv'
<1> USE SlugAssumption, PolicyAssumption
        DEF PolicyInv, TypeOK, Busy, Persisted, Claiming, Records, Steps,
            OwnerSave, Save, Gate, Goto
<1>1. Dialogs'
  BY DEF ReturnInv, Dialogs
<1>2. Agreed'
  BY DEF ReturnInv, Agreed
<1>3. Held'
  BY DEF ReturnInv, Agreed, Held, Holds
<1>4. Alone'
  BY DEF ReturnInv, Agreed, Alone
<1>5. Apart'
  BY DEF ReturnInv, Dialogs, Apart, Claims
<1>6. QED
  BY <1>1, <1>2, <1>3, <1>4, <1>5 DEF ReturnInv

LEMMA OwnerSetReturns ==
  ASSUME PolicyInv, OneClaim, ReturnInv, NEW g \in Guards, OwnerSet(g) PROVE ReturnInv'
<1> USE SlugAssumption, PolicyAssumption
        DEF PolicyInv, TypeOK, Busy, Persisted, Claiming, Records, Steps,
            OwnerSet, Goto
<1>1. Dialogs'
  BY DEF ReturnInv, Dialogs
<1>2. Agreed'
  BY DEF ReturnInv, Agreed
<1>3. Held'
  BY DEF ReturnInv, Agreed, Held, Holds
<1>4. Alone'
  BY DEF ReturnInv, Agreed, Alone
<1>5. Apart'
  BY DEF ReturnInv, Dialogs, Apart, Claims
<1>6. QED
  BY <1>1, <1>2, <1>3, <1>4, <1>5 DEF ReturnInv

LEMMA OwnerCheckReturns ==
  ASSUME PolicyInv, OneClaim, ReturnInv, NEW g \in Guards, OwnerCheck(g) PROVE ReturnInv'
<1> USE SlugAssumption, PolicyAssumption
        DEF PolicyInv, TypeOK, Busy, Persisted, Claiming, Records, Steps,
            OwnerCheck, Raise, Goto
<1>1. Dialogs'
  BY DEF ReturnInv, Dialogs
<1>2. Agreed'
  BY DEF ReturnInv, Agreed
<1>3. Held'
  BY DEF ReturnInv, Agreed, Held, Holds
<1>4. Alone'
  BY DEF ReturnInv, Agreed, Alone
<1>5. Apart'
  BY DEF ReturnInv, Dialogs, Apart, Claims
<1>6. QED
  BY <1>1, <1>2, <1>3, <1>4, <1>5 DEF ReturnInv

LEMMA PauseSaveReturns ==
  ASSUME PolicyInv, OneClaim, ReturnInv, NEW g \in Guards, PauseSave(g) PROVE ReturnInv'
<1> USE SlugAssumption, PolicyAssumption
        DEF PolicyInv, TypeOK, Busy, Persisted, Claiming, Records, Steps,
            PauseSave, Save, Goto
<1>1. Dialogs'
  BY DEF ReturnInv, Dialogs
<1>2. Agreed'
  BY DEF ReturnInv, Agreed
<1>3. Held'
  BY DEF ReturnInv, Agreed, Held, Holds
<1>4. Alone'
  BY DEF ReturnInv, Agreed, Alone
<1>5. Apart'
  BY DEF ReturnInv, Dialogs, Apart, Claims
<1>6. QED
  BY <1>1, <1>2, <1>3, <1>4, <1>5 DEF ReturnInv

LEMMA TickReturns ==
  ASSUME PolicyInv, OneClaim, ReturnInv, NEW g \in Guards, Tick(g) PROVE ReturnInv'
<1> USE SlugAssumption, PolicyAssumption
        DEF PolicyInv, TypeOK, Busy, Persisted, Claiming, Records, Steps,
            Tick, Goto, Contested
<1>1. Dialogs'
  BY DEF ReturnInv, Dialogs
<1>2. Agreed'
  BY DEF ReturnInv, Agreed
<1>3. Held'
  BY DEF ReturnInv, Agreed, Held, Holds
<1>4. Alone'
  BY DEF ReturnInv, Agreed, Alone
<1>5. Apart'
  BY DEF ReturnInv, Dialogs, Apart, Claims
<1>6. QED
  BY <1>1, <1>2, <1>3, <1>4, <1>5 DEF ReturnInv

LEMMA CommandFailsReturns ==
  ASSUME PolicyInv, OneClaim, ReturnInv, NEW g \in Guards, CommandFails(g) PROVE ReturnInv'
<1> USE SlugAssumption, PolicyAssumption
        DEF PolicyInv, TypeOK, Busy, Persisted, Claiming, Records, Steps,
            CommandFails, Spend, Raise, Goto, Wanted
<1>1. Dialogs'
  BY DEF ReturnInv, Dialogs
<1>2. Agreed'
  BY DEF ReturnInv, Agreed
<1>3. Held'
  BY DEF ReturnInv, Agreed, Held, Holds
<1>4. Alone'
  BY DEF ReturnInv, Agreed, Alone
<1>5. Apart'
  BY DEF ReturnInv, Dialogs, Apart, Claims
<1>6. QED
  BY <1>1, <1>2, <1>3, <1>4, <1>5 DEF ReturnInv

LEMMA UnloadReturns ==
  ASSUME PolicyInv, OneClaim, ReturnInv, NEW g \in Guards, Unload(g) PROVE ReturnInv'
<1> USE SlugAssumption, PolicyAssumption
        DEF PolicyInv, TypeOK, Busy, Persisted, Claiming, Records, Steps,
            Unload, Spend, Forget, Wanted
<1>1. Dialogs'
  BY DEF ReturnInv, Dialogs
<1>2. Agreed'
  BY DEF ReturnInv, Agreed
<1>3. Held'
  <2>1. /\ \A h \in Guards \ {g} : loaded'[h] = loaded[h] /\ saved'[h] = saved[h]
        /\ ~loaded'[g] /\ loaded[g] /\ UNCHANGED <<store, original>>
    OBVIOUS
  <2>2. \A h \in Guards, s \in Slugs : Holds(h, s) => Holds(h, s)'
    BY <2>1 DEF Holds
  <2>3. CASE policy' = policy
    BY <2>1, <2>2, <2>3 DEF ReturnInv, Held
  <2>4. CASE policy' = Wanted(g) /\ pc[g] = "own_set"
    <3>1. Holds(g, settings[g])
      BY <2>4 DEF Holds
    <3>2. \A s \in Slugs \ {settings[g]} : policy'[s] = policy[s]
      BY <2>4
    <3>3. QED
      BY <2>1, <2>2, <3>1, <3>2 DEF ReturnInv, Held
  <2>5. CASE policy' = Wanted(g) /\ pc[g] = "restore_set"
    <3>1. policy'[saved[g].slug] = original[saved[g].slug]
      BY <2>5 DEF ReturnInv, Agreed
    <3>2. \A s \in Slugs \ {saved[g].slug} : policy'[s] = policy[s]
      BY <2>5
    <3>3. QED
      BY <2>1, <2>2, <3>1, <3>2 DEF ReturnInv, Held
  <2>6. QED
    BY <2>3, <2>4, <2>5
<1>4. Alone'
  BY DEF ReturnInv, Agreed, Alone
<1>5. Apart'
  BY DEF ReturnInv, Dialogs, Apart, Claims
<1>6. QED
  BY <1>1, <1>2, <1>3, <1>4, <1>5 DEF ReturnInv

LEMMA LoadReturns ==
  ASSUME PolicyInv, OneClaim, ReturnInv, NEW g \in Guards, Load(g) PROVE ReturnInv'
<1> USE SlugAssumption, PolicyAssumption
        DEF PolicyInv, TypeOK, Busy, Persisted, Claiming, Records, Steps,
            Load, Goto
<1>1. Dialogs'
  BY DEF ReturnInv, Dialogs
<1>2. Agreed'
  BY DEF ReturnInv, Agreed
<1>3. Held'
  BY DEF ReturnInv, Agreed, Held, Holds
<1>4. Alone'
  BY DEF ReturnInv, Agreed, Alone, Apart, Claims
<1>5. Apart'
  BY DEF ReturnInv, Dialogs, Apart, Claims
<1>6. QED
  BY <1>1, <1>2, <1>3, <1>4, <1>5 DEF ReturnInv

LEMMA ConfigureReturns ==
  ASSUME PolicyInv, OneClaim, ReturnInv, NEW g \in Guards, NEW t \in Slugs \cup {NoSlug}, Configure(g, t), ~Anytime
  PROVE  ReturnInv'
<1> USE SlugAssumption, PolicyAssumption
        DEF PolicyInv, TypeOK, Busy, Persisted, Claiming, Records, Steps,
            Configure, Replace, Adopt, GivesUp, Goto, Spend, Contested
<1>1. Dialogs'
  BY DEF ReturnInv, Dialogs
<1>2. Agreed'
  BY DEF ReturnInv, Agreed
<1>3. Held'
  BY DEF ReturnInv, Agreed, Held, Holds
<1>4. Alone'
  BY DEF ReturnInv, Agreed, Alone
<1>5. Apart'
  BY DEF ReturnInv, Dialogs, Apart, Claims
<1>6. QED
  BY <1>1, <1>2, <1>3, <1>4, <1>5 DEF ReturnInv

LEMMA CrashReturns ==
  ASSUME PolicyInv, OneClaim, ReturnInv, Crash PROVE ReturnInv'
<1> USE SlugAssumption, PolicyAssumption
        DEF PolicyInv, TypeOK, Busy, Persisted, Claiming, Records, Steps,
            Crash, Spend, Forget
<1>1. Dialogs'
  BY DEF ReturnInv, Dialogs
<1>2. Agreed'
  BY DEF ReturnInv, Agreed
<1>3. Held'
  BY DEF ReturnInv, Agreed, Held, Holds
<1>4. Alone'
  BY DEF ReturnInv, Agreed, Alone
<1>5. Apart'
  BY DEF ReturnInv, Dialogs, Apart, Claims
<1>6. QED
  BY <1>1, <1>2, <1>3, <1>4, <1>5 DEF ReturnInv

LEMMA DriftReturns ==
  ASSUME PolicyInv, OneClaim, ReturnInv, NEW s \in Slugs, Drift(s) PROVE ReturnInv'
<1> USE SlugAssumption, PolicyAssumption
        DEF PolicyInv, TypeOK, Busy, Persisted, Claiming, Records, Steps,
            Drift, Spend, guardVars
<1>1. Dialogs'
  BY DEF ReturnInv, Dialogs
<1>2. Agreed'
  BY DEF ReturnInv, Agreed
<1>3. Held'
  BY DEF ReturnInv, Agreed, Held, Holds
<1>4. Alone'
  BY DEF ReturnInv, Agreed, Alone
<1>5. Apart'
  BY DEF ReturnInv, Dialogs, Apart, Claims
<1>6. QED
  BY <1>1, <1>2, <1>3, <1>4, <1>5 DEF ReturnInv

\* Every step keeps it.
LEMMA StepReturnInv ==
  ASSUME ~Anytime, PolicyInv, OneClaim, ReturnInv, [Next]_vars PROVE ReturnInv'
<1>1. CASE \E g \in Guards : NameRead(g)
  BY <1>1, NameReadReturns
<1>2. CASE \E g \in Guards : RestoreSet(g)
  BY <1>2, RestoreSetReturns
<1>3. CASE \E g \in Guards : RestoreCheck(g)
  BY <1>3, RestoreCheckReturns
<1>4. CASE \E g \in Guards : RestoreSave(g)
  BY <1>4, RestoreSaveReturns
<1>5. CASE \E g \in Guards : ConfigureSave(g)
  BY <1>5, ConfigureSaveReturns
<1>6. CASE \E g \in Guards : Subscribed(g)
  BY <1>6, SubscribedReturns
<1>7. CASE \E g \in Guards : OwnerInfo(g)
  BY <1>7, OwnerInfoReturns
<1>8. CASE \E g \in Guards : OwnerSave(g)
  BY <1>8, OwnerSaveReturns
<1>9. CASE \E g \in Guards : OwnerSet(g)
  BY <1>9, OwnerSetReturns
<1>10. CASE \E g \in Guards : OwnerCheck(g)
  BY <1>10, OwnerCheckReturns
<1>11. CASE \E g \in Guards : PauseSave(g)
  BY <1>11, PauseSaveReturns
<1>12. CASE \E g \in Guards : Tick(g)
  BY <1>12, TickReturns
<1>13. CASE \E g \in Guards : CommandFails(g)
  BY <1>13, CommandFailsReturns
<1>14. CASE \E g \in Guards : Unload(g)
  BY <1>14, UnloadReturns
<1>15. CASE \E g \in Guards : Load(g)
  BY <1>15, LoadReturns
<1>16. CASE \E g \in Guards, t \in Slugs \cup {NoSlug} : Configure(g, t)
  BY <1>16, ConfigureReturns
<1>17. CASE Crash
  BY <1>17, CrashReturns
<1>18. CASE \E s \in Slugs : Drift(s)
  BY <1>18, DriftReturns
<1>19. CASE UNCHANGED vars
  BY <1>19 DEF vars, guardVars, ReturnInv, Dialogs, Agreed, Held, Holds, Alone, Apart, Claims
<1>20. QED
  BY <1>1, <1>2, <1>3, <1>4, <1>5, <1>6, <1>7, <1>8, <1>9, <1>10,
     <1>11, <1>12, <1>13, <1>14, <1>15, <1>16, <1>17, <1>18, <1>19 DEF Next, Command

LEMMA InitReturnInv == Init => ReturnInv
<1> SUFFICES ASSUME Init PROVE ReturnInv
  OBVIOUS
<1>1. Dialogs /\ Alone
  BY DEF Init, Dialogs, Alone, Claiming
<1>2. Agreed /\ Held
  BY DEF Init, Agreed, Held
<1>3. Apart
  BY SlugAssumption DEF Init, Apart, Claims
<1>4. QED
  BY <1>1, <1>2, <1>3 DEF ReturnInv

\* An add-on that no guard is configured for, in memory or in storage, has the
\* policy its owner chose, whatever failed, overlapped, drifted or restarted
\* before; dialogs keep away from entries that are not set up.
THEOREM PolicyComesBack ==
  ASSUME ~Anytime PROVE Spec => []Returned
<1>1. Agreed /\ Held => Returned
  BY DEF Agreed, Held, Holds, Returned
<1>2. Init => OneClaim
  BY DEF Init, OneClaim, Claiming
<1>3. PolicyInv /\ OneClaim /\ ReturnInv /\ [Next]_vars => (PolicyInv /\ OneClaim /\ ReturnInv)'
  BY StepPolicyInv, StepOneClaim, StepReturnInv
<1>4. ReturnInv => Returned
  BY <1>1 DEF ReturnInv
<1>5. QED
  BY InitPolicyInv, InitReturnInv, <1>2, <1>3, <1>4, PTL DEF Spec
=============================================================================
