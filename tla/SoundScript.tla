---------------------------- MODULE SoundScript ----------------------------
(***************************************************************************)
(* One alert on the hub: hub_audio/sound.sh and the part of                *)
(* local_audio.py and sound_player.py that calls it.                       *)
(*                                                                         *)
(* Home Assistant runs one script at a time, "fg".  When the connection of *)
(* a script is lost it is killed, or goes on beside the next ones as the   *)
(* "ghost".  start leaves a subshell behind, which runs wget and aplay and *)
(* talks to the scripts through files alone: owner, and per token a state  *)
(* file, a stop file and the downloaded WAV.                               *)
(*                                                                         *)
(* A process is its token and its program: the script compares pid and     *)
(* start time.  Once its program has ended a subshell is quicker than the  *)
(* next command to arrive.  Bounds: Tokens alerts, MaxLost lost            *)
(* connections, MaxKills killed subshells.                                 *)
(***************************************************************************)
EXTENDS Naturals

CONSTANTS
  Tokens,            \* the number of alerts
  Downloads,         \* the tokens of alerts that are downloaded first
  Slow,              \* a subshell may take longer than start waits for it
  MaxLost, MaxKills

ASSUME SoundScriptConstants ==
  /\ Tokens \in Nat /\ Downloads \subseteq Nat /\ Slow \in BOOLEAN
  /\ MaxLost \in Nat /\ MaxKills \in Nat

Token == 1..Tokens

VARIABLES            \* Home Assistant
  ha,                \* "idle", "start", "watch", "stop", "cleanup"
  job,               \* the token it owns, 0 for none
  watched,           \* the stop is the watcher's: cleanup follows a failure too
  answer,            \* of the script "fg"
  used               \* tokens given out

VARIABLES            \* the hub
  script,            \* the scripts "fg" and "ghost"
  owner,             \* the owner file: [token, program], token 0 for no file
  state,             \* the state files, "none" for no file
  stop_file, cache,
  sub,               \* where the subshell of a token is
  child,             \* its child: [program, alive, ok]
  device,            \* the token whose aplay holds the PCM, 0 for closed
  lost, kills

home == <<ha, job, watched, answer, used>>
files == <<owner, state, stop_file, cache>>
shells == <<sub, child, device>>
bounds == <<lost, kills>>
vars == <<home, script, files, shells, bounds>>

NoScript == [op |-> "none", token |-> 0, at |-> "end"]
NoOwner == [token |-> 0, program |-> "none"]
NoChild == [program |-> "none", alive |-> FALSE, ok |-> FALSE]

Init ==
  /\ ha = "idle" /\ job = 0 /\ watched = FALSE /\ answer = "none" /\ used = 0
  /\ script = [s \in {"fg", "ghost"} |-> NoScript]
  /\ owner = NoOwner /\ state = [t \in Token |-> "none"]
  /\ stop_file = [t \in Token |-> FALSE] /\ cache = [t \in Token |-> FALSE]
  /\ sub = [t \in Token |-> "none"] /\ child = [t \in Token |-> NoChild]
  /\ device = 0
  /\ lost = MaxLost /\ kills = MaxKills

Runs(t, program) == child[t].alive /\ child[t].program = program
OwnerRuns == owner.token # 0 /\ Runs(owner.token, owner.program)

\* Effects on child and device of the end of the child of t.
ChildEnds(t, ok) ==
  /\ child' = [child EXCEPT ![t].alive = FALSE, ![t].ok = ok]
  /\ device' = (IF device = t THEN 0 ELSE device)

Finishing(t) == \/ sub[t] \in {"done", "disown", "remove"}
                \/ sub[t] \in {"look", "wait"} /\ ~child[t].alive

-----------------------------------------------------------------------------
(* Home Assistant: _async_start_job, _watch, _stop_locked.                 *)

FirstStep == [start |-> "owner", stop |-> "touch", cleanup |-> "check"]

Run(op) ==
  /\ script["fg"] = NoScript
  /\ \A t \in Token : ~Finishing(t)
  /\ script' = [script EXCEPT !["fg"] =
                  [op |-> op, token |-> job', at |-> FirstStep[op]]]
  /\ ha' = op /\ answer' = "none"

Play ==
  /\ ha = "idle" /\ used < Tokens
  /\ used' = used + 1 /\ job' = used + 1
  /\ Run("start")
  /\ UNCHANGED <<watched, files, shells, bounds>>

Release == ha' = "idle" /\ job' = 0 /\ answer' = "none" /\ UNCHANGED script

\* An acknowledged start is watched, a refusal because of the device is final, and
\* anything else is stopped.
Started ==
  /\ ha = "start"
  /\ \/ /\ answer = "ok" /\ ha' = "watch" /\ answer' = "none"
        /\ UNCHANGED <<job, script>>
     \/ answer = "busy" /\ Release
     \/ answer = "failed" /\ UNCHANGED job /\ Run("stop")
  /\ watched' = FALSE
  /\ UNCHANGED <<used, files, shells, bounds>>

\* Mutant of Reported.
TrustsState(t) == state[t] \in {"none", "DONE"}

\* The replies of status that end the watch.
Reported(t) ==
  \/ state[t] \in {"none", "DONE"}
  \/ state[t] = "RUNNING" /\ ~Runs(t, "aplay")
  \/ state[t] = "DOWNLOADING" /\ ~Runs(t, "wget")

Polled ==
  /\ ha = "watch" /\ Reported(job)
  /\ UNCHANGED job /\ Run("cleanup")
  /\ UNCHANGED <<watched, used, files, shells, bounds>>

\* The user stops or replaces the alert, or the watcher gives up a download.
StopIt ==
  /\ ha = "watch"
  /\ UNCHANGED job /\ Run("stop")
  /\ watched' \in {FALSE, state[job] = "DOWNLOADING"}
  /\ UNCHANGED <<used, files, shells, bounds>>

Stopped ==
  /\ ha = "stop"
  /\ IF answer = "ok" \/ (answer = "failed" /\ watched)
       THEN UNCHANGED job /\ Run("cleanup")
       ELSE answer = "failed" /\ Release
  /\ UNCHANGED <<watched, used, files, shells, bounds>>

Cleaned ==
  /\ ha = "cleanup" /\ answer # "none" /\ Release
  /\ UNCHANGED <<watched, used, files, shells, bounds>>

\* The connection of the foreground script is lost.
Lose ==
  /\ script["fg"] # NoScript /\ lost > 0 /\ lost' = lost - 1
  /\ answer' = "failed"
  /\ \/ script' = [script EXCEPT !["fg"] = NoScript]
     \/ /\ script["ghost"] = NoScript
        /\ script' = [fg |-> NoScript, ghost |-> script["fg"]]
  /\ UNCHANGED <<ha, job, watched, used, files, shells, kills>>

-----------------------------------------------------------------------------
(* The scripts start, stop and cleanup, run as s.                          *)

At(s, op, at) == script[s].op = op /\ script[s].at = at
Goto(s, at) == /\ script' = [script EXCEPT ![s].at = at]
               /\ UNCHANGED answer
Exit(s, reply) == /\ script' = [script EXCEPT ![s] = NoScript]
                  /\ answer' = (IF s = "fg" THEN reply ELSE answer)
scriptKept == <<ha, job, watched, used, bounds>>

\* M1S_SOUND_BUSY is no refusal to Home Assistant, only M1S_AUDIO_BUSY is.
CheckOwner(s) ==
  /\ At(s, "start", "owner")
  /\ IF OwnerRuns THEN Exit(s, "failed")
                  ELSE Goto(s, IF owner = NoOwner THEN "device" ELSE "disown")
  /\ UNCHANGED <<scriptKept, files, sub, child, device>>

RemoveStaleOwner(s) ==
  /\ At(s, "start", "disown")
  /\ owner' = NoOwner /\ Goto(s, "device")
  /\ UNCHANGED <<scriptKept, state, stop_file, cache, sub, child, device>>

CheckDevice(s) ==
  /\ At(s, "start", "device")
  /\ IF device = 0 THEN Goto(s, "fork") ELSE Exit(s, "busy")
  /\ UNCHANGED <<scriptKept, files, sub, child, device>>

Fork(s) ==
  /\ At(s, "start", "fork")
  /\ LET t == script[s].token
     IN /\ state' = [state EXCEPT ![t] = "PENDING"]
        /\ sub' = [sub EXCEPT ![t] = "begin"]
  /\ Goto(s, "wait")
  /\ UNCHANGED <<scriptKept, owner, stop_file, cache, child, device>>
\* Mutant of AwaitRecord.
AcknowledgeAtOnce(s) ==
  /\ At(s, "start", "wait")
  /\ Exit(s, "ok")
  /\ UNCHANGED <<scriptKept, files, sub, child, device>>

\* start waits for the record of its subshell, but not for ever.
AwaitRecord(s) ==
  /\ At(s, "start", "wait")
  /\ LET t == script[s].token
     IN \/ state[t] # "PENDING" /\ Exit(s, "ok")
        \/ /\ state[t] = "PENDING" /\ (Slow \/ sub[t] = "gone")
           /\ Exit(s, "failed")
  /\ UNCHANGED <<scriptKept, files, sub, child, device>>

TouchStop(s) ==
  /\ At(s, "stop", "touch")
  /\ stop_file' = [stop_file EXCEPT ![script[s].token] = TRUE]
  /\ Goto(s, "kill")
  /\ UNCHANGED <<scriptKept, owner, state, cache, sub, child, device>>

\* Only the recorded process of this token is signalled, and waited for.
KillOwned(s) ==
  /\ At(s, "stop", "kill")
  /\ IF owner.token = script[s].token /\ OwnerRuns
       THEN ChildEnds(owner.token, FALSE)
       ELSE UNCHANGED <<child, device>>
  /\ Goto(s, "disown")
  /\ UNCHANGED <<scriptKept, files, sub>>

RemoveOwner(s) ==
  /\ At(s, "stop", "disown")
  /\ owner' = (IF owner.token = script[s].token THEN NoOwner ELSE owner)
  /\ Exit(s, "ok")
  /\ UNCHANGED <<scriptKept, state, stop_file, cache, sub, child, device>>

CheckUnowned(s) ==
  /\ At(s, "cleanup", "check")
  /\ IF owner.token = script[s].token THEN Exit(s, "ok") ELSE Goto(s, "remove")
  /\ UNCHANGED <<scriptKept, files, sub, child, device>>
\* Mutant of RemoveFiles.
KeepsStopFile(s) ==
  /\ At(s, "cleanup", "remove")
  /\ LET t == script[s].token
     IN /\ state' = [state EXCEPT ![t] = "none"]
        /\ cache' = [cache EXCEPT ![t] = FALSE]
  /\ Exit(s, "ok")
  /\ UNCHANGED <<scriptKept, owner, stop_file, sub, child, device>>

RemoveFiles(s) ==
  /\ At(s, "cleanup", "remove")
  /\ LET t == script[s].token
     IN /\ state' = [state EXCEPT ![t] = "none"]
        /\ stop_file' = [stop_file EXCEPT ![t] = FALSE]
        /\ cache' = [cache EXCEPT ![t] = FALSE]
  /\ Exit(s, "ok")
  /\ UNCHANGED <<scriptKept, owner, sub, child, device>>

-----------------------------------------------------------------------------
(* The subshell of t: for wget, then for aplay, it starts the program,     *)
(* records it, looks for a stop file and waits.                            *)

Move(t, at) == sub' = [sub EXCEPT ![t] = at]
subKept == <<home, script, bounds>>

StartProgram(t) ==
  /\ sub[t] = "begin"
  /\ LET fetch == t \in Downloads /\ child[t].program = "none"
     IN IF fetch
          THEN /\ child' = [child EXCEPT ![t] =
                              [program |-> "wget", alive |-> TRUE, ok |-> FALSE]]
               /\ cache' = [cache EXCEPT ![t] = TRUE]
               /\ UNCHANGED device
          ELSE /\ child' = [child EXCEPT ![t] =
                              [program |-> "aplay", alive |-> TRUE, ok |-> FALSE]]
               /\ device' = (IF device = 0 THEN t ELSE device)
               /\ UNCHANGED cache
  /\ Move(t, "record")
  /\ UNCHANGED <<subKept, owner, state, stop_file>>

RecordOwner(t) ==
  /\ sub[t] = "record"
  /\ owner' = [token |-> t, program |-> child[t].program]
  /\ Move(t, "report")
  /\ UNCHANGED <<subKept, state, stop_file, cache, child, device>>

RecordState(t) ==
  /\ sub[t] = "report"
  /\ state' = [state EXCEPT ![t] = IF child[t].program = "wget"
                                     THEN "DOWNLOADING" ELSE "RUNNING"]
  /\ Move(t, "look")
  /\ UNCHANGED <<subKept, owner, stop_file, cache, child, device>>

LookForStop(t) ==
  /\ sub[t] = "look"
  /\ IF stop_file[t] /\ child[t].alive THEN ChildEnds(t, FALSE)
                                       ELSE UNCHANGED <<child, device>>
  /\ Move(t, "wait")
  /\ UNCHANGED <<subKept, files>>
\* Mutant of Waited.
DoesNotWait(t) ==
  /\ sub[t] = "wait"
  /\ Move(t, "done")
  /\ UNCHANGED <<subKept, files, child, device>>

\* A completed download is played unless it was stopped.
Waited(t) ==
  /\ sub[t] = "wait" /\ ~child[t].alive
  /\ Move(t, IF child[t].program = "wget" /\ child[t].ok /\ ~stop_file[t]
               THEN "begin" ELSE "done")
  /\ UNCHANGED <<subKept, files, child, device>>

FinishState(t) ==
  /\ sub[t] = "done"
  /\ state' = [state EXCEPT ![t] = "DONE"]
  /\ Move(t, "disown")
  /\ UNCHANGED <<subKept, owner, stop_file, cache, child, device>>

FinishOwner(t) ==
  /\ sub[t] = "disown"
  /\ owner' = (IF owner.token = t THEN NoOwner ELSE owner)
  /\ Move(t, "remove")
  /\ UNCHANGED <<subKept, state, stop_file, cache, child, device>>

FinishFiles(t) ==
  /\ sub[t] = "remove"
  /\ stop_file' = [stop_file EXCEPT ![t] = FALSE]
  /\ cache' = [cache EXCEPT ![t] = FALSE]
  /\ Move(t, "gone")
  /\ UNCHANGED <<subKept, owner, state, child, device>>

\* The program ends: the alert was played, the download succeeded or failed.
ProgramEnds(t) ==
  /\ child[t].alive
  /\ \E ok \in BOOLEAN : ChildEnds(t, ok)
  /\ UNCHANGED <<subKept, files, sub>>

\* Out of memory: the subshell is killed, its program goes on.
SubshellKilled(t) ==
  /\ sub[t] \notin {"none", "gone"} /\ kills > 0 /\ kills' = kills - 1
  /\ Move(t, "gone")
  /\ UNCHANGED <<home, script, lost, files, child, device>>

-----------------------------------------------------------------------------
Script(s) ==
  \/ CheckOwner(s) \/ RemoveStaleOwner(s) \/ CheckDevice(s) \/ Fork(s)
  \/ AwaitRecord(s) \/ TouchStop(s) \/ KillOwned(s) \/ RemoveOwner(s)
  \/ CheckUnowned(s) \/ RemoveFiles(s)
Subshell(t) ==
  \/ StartProgram(t) \/ RecordOwner(t) \/ RecordState(t) \/ LookForStop(t)
  \/ Waited(t) \/ FinishState(t) \/ FinishOwner(t) \/ FinishFiles(t)
Home == Started \/ Polled \/ Stopped \/ Cleaned

Next ==
  \/ Play \/ Home \/ StopIt \/ Lose
  \/ \E s \in {"fg", "ghost"} : Script(s)
  \/ \E t \in Token : Subshell(t) \/ ProgramEnds(t) \/ SubshellKilled(t)

Spec == Init /\ [][Next]_vars

\* Home Assistant polls, processes are scheduled, programs end.
FairSpec ==
  /\ Spec /\ WF_vars(Home)
  /\ \A s \in {"fg", "ghost"} : WF_vars(Script(s))
  /\ \A t \in Token : WF_vars(Subshell(t)) /\ WF_vars(ProgramEnds(t))

-----------------------------------------------------------------------------
(* Properties.                                                             *)

TypeOK ==
  /\ ha \in {"idle", "start", "watch", "stop", "cleanup"}
  /\ job \in 0..Tokens /\ used \in 0..Tokens /\ watched \in BOOLEAN
  /\ answer \in {"none", "ok", "busy", "failed"}
  /\ \A s \in {"fg", "ghost"} : script[s].token \in 0..Tokens
  /\ owner \in [token : 0..Tokens, program : {"none", "wget", "aplay"}]
  /\ state \in [Token -> {"none", "PENDING", "DOWNLOADING", "RUNNING", "DONE"}]
  /\ stop_file \in [Token -> BOOLEAN] /\ cache \in [Token -> BOOLEAN]
  /\ sub \in [Token -> {"none", "begin", "record", "report", "look", "wait",
                        "done", "disown", "remove", "gone"}]
  /\ child \in [Token -> [program : {"none", "wget", "aplay"},
                          alive : BOOLEAN, ok : BOOLEAN]]
  /\ device \in 0..Tokens

\* No connection was lost and no subshell killed.
Undisturbed == lost = MaxLost /\ kills = MaxKills

\* A download that was given up between wget and aplay runs on, or has run on, without
\* its job: DownloadIsPlayed below does not hold, and what such a subshell does to the
\* owner file is not asked of OwnedSound and NothingLeft.
NoneOrphaned ==
  \A d \in (Token \cap Downloads) \ {job} : state[d] = "none" /\ sub[d] \in {"none", "gone"}

\* A sound that plays is the one Home Assistant owns: a job it has stopped, seen
\* done or given up is silent and stays silent (sound_player.py:157: "Settle it
\* and stop only its token before releasing audio ownership").
OwnedSound == Undisturbed /\ NoneOrphaned => device \in {0, job}

\* The end of a stored alert that status reports is the exit of the player
\* (README.md:237: "Local WAV completion is detected from the hub player exit
\* status").
CompletionIsExit ==
  [][ha = "watch" /\ ha' = "cleanup" /\ job \notin Downloads => ~child[job].alive]_vars

\* The same of an alert that is downloaded first, which the code does not
\* guarantee: between wget and aplay the state names a process that has ended.
DownloadIsPlayed ==
  [][ha = "watch" /\ ha' = "cleanup" /\ child[job].program = "wget"
       => ~child[job].ok]_vars

\* No file of a session outlives it (LOCAL_AUDIO_RO.md:85: "fisierele propriei
\* sesiuni sunt sterse la final").
NothingLeft ==
  (Undisturbed /\ NoneOrphaned /\ ha = "idle" /\ \A t \in Token : sub[t] \in {"none", "gone"})
  => owner = NoOwner /\ \A t \in Token : state[t] = "none" /\ ~stop_file[t] /\ ~cache[t]

\* Whatever is lost or killed, a job ends for Home Assistant.
JobEnds == job # 0 ~> job = 0
=============================================================================
