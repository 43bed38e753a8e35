------------------------- MODULE SoundScriptProofs -------------------------
(***************************************************************************)
(* For any number of alerts, stored or downloaded.  EndIsExit holds with   *)
(* any number of lost connections, ghosts, killed and slow subshells.      *)
(* AlertIsOwned and FilesAreRemoved are about a hub on which a subshell    *)
(* records itself before start gives up waiting (~Slow); their invariant,  *)
(* Calm, is kept as long as nothing is lost, killed or orphaned.           *)
(***************************************************************************)
EXTENDS SoundScript, TLAPS

Ops == {"none", "start", "stop", "cleanup"}
Places == {"end", "owner", "disown", "device", "fork", "wait", "touch", "kill",
           "check", "remove"}
Walk == {"none", "begin", "record", "report", "look", "wait", "done", "disown",
         "remove", "gone"}
Programs == {"none", "wget", "aplay"}

ScriptSet == [{"fg", "ghost"} -> [op : Ops, token : 0..Tokens, at : Places]]

\* The types, in three parts.
HomeTypes ==
  /\ ha \in {"idle", "start", "watch", "stop", "cleanup"}
  /\ job \in 0..Tokens /\ used \in 0..Tokens /\ watched \in BOOLEAN
  /\ answer \in {"none", "ok", "busy", "failed"}
  /\ lost \in 0..MaxLost /\ kills \in 0..MaxKills
FileTypes ==
  /\ owner \in [token : 0..Tokens, program : Programs]
  /\ owner.token = 0 => owner = NoOwner
  /\ state \in [Token -> {"none", "PENDING", "DOWNLOADING", "RUNNING", "DONE"}]
  /\ stop_file \in [Token -> BOOLEAN] /\ cache \in [Token -> BOOLEAN]
ShellTypes ==
  /\ sub \in [Token -> Walk] /\ device \in 0..Tokens
  /\ child \in [Token -> [program : Programs, alive : BOOLEAN, ok : BOOLEAN]]

SoundTypes == HomeTypes /\ FileTypes /\ ShellTypes /\ script \in ScriptSet

\* A subshell that may still start a program, or waits for one; one that is past its
\* last record.
Live == {"begin", "record", "report", "look", "wait", "done"}
Past == {"look", "wait", "done", "disown", "remove", "gone"}

\* Home Assistant and its one script.
Phase ==
  /\ script["ghost"] = NoScript
  /\ answer \in {"none", "ok", "busy"} /\ (answer = "busy" => ha = "start")
  /\ (ha = "idle" <=> job = 0) /\ job <= used
  /\ ha \in {"idle", "watch"} => script["fg"] = NoScript /\ answer = "none"
  /\ script["fg"] # NoScript =>
       /\ answer = "none" /\ script["fg"].op = ha /\ script["fg"].token = job
       /\ ha = "start" => script["fg"].at \in {"owner", "disown", "device", "fork", "wait"}
       /\ ha = "stop" => script["fg"].at \in {"touch", "kill", "disown"}
       /\ ha = "cleanup" => script["fg"].at \in {"check", "remove"}
  /\ ha \in {"start", "stop", "cleanup"} /\ script["fg"] = NoScript => answer # "none"

\* The subshells.
Shell(t) ==
  /\ sub[t] \notin {"record", "report", "look", "wait"} => ~child[t].alive
  /\ sub[t] = "none" => /\ state[t] = "none" /\ ~stop_file[t] /\ ~cache[t]
                        /\ child[t].program = "none"
  /\ t \notin Downloads =>
       /\ sub[t] \in {"none", "begin"} => child[t].program = "none"
       /\ sub[t] \notin {"none", "begin"} => child[t].program = "aplay"
       /\ ~cache[t] /\ state[t] # "DOWNLOADING"
       /\ sub[t] \in {"begin", "record", "report"} => state[t] = "PENDING"
       /\ state[t] = "DONE" => sub[t] \in {"disown", "remove", "gone"}
  /\ state[t] = "PENDING" => sub[t] \in {"begin", "record", "report"}
  /\ device = t => child[t].alive
  /\ owner.token = t => sub[t] \in Live \cup {"disown"}
  /\ t > used => sub[t] = "none"

\* A start finds nothing of its token; one that was acknowledged left a state file.
Starting ==
  /\ ha = "start" /\ script["fg"].at \in {"owner", "disown", "device", "fork"} => sub[job] = "none"
  /\ answer = "busy" => sub[job] = "none"
  /\ ha = "start" /\ script["fg"].at = "wait" => state[job] # "none"
  /\ ha = "watch" \/ (ha = "start" /\ answer = "ok") => state[job] \notin {"none", "PENDING"}
  /\ ha \in {"stop", "cleanup"} => sub[job] # "none"
  /\ job \notin Downloads /\ (ha \in {"watch", "stop", "cleanup"} \/ (ha = "start" /\ answer = "ok")) =>
       sub[job] \in Past

\* Nothing of t is left but a subshell about to end.
Clean(t) == /\ sub[t] \in {"none", "gone", "disown", "remove"}
            /\ state[t] = "none" /\ ~stop_file[t] /\ ~cache[t]

\* What the cleanup of a job comes upon, and what it leaves: a downloaded one may
\* still be on its way from wget to aplay.
Cleaning ==
  /\ job # 0 /\ ~(ha = "cleanup" /\ answer = "ok") /\ sub[job] \in {"disown", "remove"} => state[job] = "DONE"
  /\ ha = "cleanup" /\ answer = "ok" => Clean(job) \/ state[job] # "none" \/ sub[job] \in Live

\* A downloaded alert that was given up goes on, or has gone on.
Orphaned == \E d \in (Token \cap Downloads) \ {job} : state[d] # "none" \/ sub[d] \in Live

\* All but the job in hand is over.
Strangers == \A t \in Token \ {job} : Clean(t)

\* The stored job in hand is the one the owner file names, until it is stopped.
OwnJob ==
  job \notin Downloads \cup {0} =>
    /\ sub[job] = "report" \/ (sub[job] \in {"look", "wait"} /\ child[job].alive) =>
          owner = [token |-> job, program |-> "aplay"]
    /\ ha = "stop" /\ (script["fg"].at = "disown" \/ answer = "ok") => ~child[job].alive
    /\ ha = "cleanup" => sub[job] = "gone" /\ (answer = "ok" => Clean(job))

\* Without lost connections and killed subshells, and as long as no download is
\* orphaned: a start that finds one running is refused before it has forked.
Calm ==
  /\ Phase /\ (\A t \in Token : Shell(t)) /\ Starting /\ Cleaning
  /\ ~Orphaned => Strangers /\ OwnJob

\* What is true with orphans too: the one script is about the job in hand.
OneScript ==
  /\ script["ghost"] = NoScript /\ job <= used
  /\ script["fg"] # NoScript => script["fg"].token = job /\ answer = "none"
  /\ \A t \in Token : t > used => sub[t] = "none" /\ state[t] = "none"

SoundInv ==
  /\ SoundTypes
  /\ Undisturbed => OneScript /\ (~Orphaned => Calm)

-----------------------------------------------------------------------------
(* What the steps of a script do to it.                                    *)

LEMMA GotoMeans ==
  ASSUME SoundTypes, NEW s \in {"fg", "ghost"}, NEW at \in Places, Goto(s, at)
  PROVE  /\ script' \in ScriptSet
         /\ script'[s].op = script[s].op /\ script'[s].token = script[s].token
         /\ script'[s].at = at
         /\ \A r \in {"fg", "ghost"} \ {s} : script'[r] = script[r]
         /\ answer' = answer
<1>1. script[s] \in [op : Ops, token : 0..Tokens, at : Places]
  BY DEF SoundTypes, ScriptSet
<1>2. script' = [script EXCEPT ![s] = [script[s] EXCEPT !.at = at]] /\ answer' = answer
  BY DEF Goto
<1>3. [script[s] EXCEPT !.at = at] \in [op : Ops, token : 0..Tokens, at : Places]
  BY <1>1
<1>4. QED
  BY <1>1, <1>2, <1>3 DEF SoundTypes, ScriptSet

LEMMA NoScriptType == NoScript \in [op : Ops, token : 0..Tokens, at : Places]
BY SoundScriptConstants DEF NoScript, Ops, Places

LEMMA ExitMeans ==
  ASSUME SoundTypes, NEW s \in {"fg", "ghost"}, NEW reply, Exit(s, reply)
  PROVE  /\ script' \in ScriptSet
         /\ script'[s] = NoScript
         /\ \A r \in {"fg", "ghost"} \ {s} : script'[r] = script[r]
         /\ answer' = IF s = "fg" THEN reply ELSE answer
BY NoScriptType DEF Exit, SoundTypes, ScriptSet

LEMMA RunMeans ==
  ASSUME SoundTypes, NEW op \in {"start", "stop", "cleanup"}, job' \in 0..Tokens, Run(op)
  PROVE  /\ script' \in ScriptSet
         /\ script["fg"] = NoScript
         /\ script'["fg"] = [op |-> op, token |-> job', at |-> FirstStep[op]]
         /\ script'["ghost"] = script["ghost"]
         /\ ha' = op /\ answer' = "none"
         /\ \A t \in Token : ~Finishing(t)
<1>1. FirstStep[op] \in Places
  BY DEF FirstStep, Places
<1>2. [op |-> op, token |-> job', at |-> FirstStep[op]] \in [op : Ops, token : 0..Tokens, at : Places]
  BY <1>1 DEF Ops
<1>3. QED
  BY <1>2 DEF Run, SoundTypes, ScriptSet

LEMMA ChildEndsMeans ==
  ASSUME SoundTypes, NEW t \in Token, NEW ok \in BOOLEAN, ChildEnds(t, ok)
  PROVE  /\ child' \in [Token -> [program : Programs, alive : BOOLEAN, ok : BOOLEAN]]
         /\ child'[t].program = child[t].program /\ ~child'[t].alive
         /\ \A r \in Token \ {t} : child'[r] = child[r]
         /\ device' = IF device = t THEN 0 ELSE device
         /\ device' \in 0..Tokens
<1>1. child[t] \in [program : Programs, alive : BOOLEAN, ok : BOOLEAN]
  BY DEF SoundTypes, ShellTypes
<1>2. child' = [child EXCEPT ![t] = [child[t] EXCEPT !.alive = FALSE, !.ok = ok]]
  BY DEF ChildEnds
<1>3. /\ [child[t] EXCEPT !.alive = FALSE, !.ok = ok] \in [program : Programs, alive : BOOLEAN, ok : BOOLEAN]
      /\ [child[t] EXCEPT !.alive = FALSE, !.ok = ok].program = child[t].program
      /\ ~[child[t] EXCEPT !.alive = FALSE, !.ok = ok].alive
  BY <1>1
<1>4. child' \in [Token -> [program : Programs, alive : BOOLEAN, ok : BOOLEAN]]
  BY <1>2, <1>3 DEF SoundTypes, ShellTypes
<1>5. child'[t] = [child[t] EXCEPT !.alive = FALSE, !.ok = ok] /\ \A r \in Token \ {t} : child'[r] = child[r]
  BY <1>2 DEF SoundTypes, ShellTypes
<1>6. device' = (IF device = t THEN 0 ELSE device) /\ device \in 0..Tokens
  BY DEF ChildEnds, SoundTypes, ShellTypes
<1>7. QED
  BY <1>3, <1>4, <1>5, <1>6, SoundScriptConstants

-----------------------------------------------------------------------------
(* Types.                                                                  *)

LEMMA CheckOwnerTypes ==
  ASSUME SoundTypes, NEW s \in {"fg", "ghost"}, CheckOwner(s) PROVE SoundTypes'
<1> USE SoundScriptConstants DEF SoundTypes, Token
<1>1. HomeTypes'
  BY DEF CheckOwner, Goto, Exit, scriptKept, bounds, HomeTypes
<1>2. FileTypes'
  BY DEF CheckOwner, files, FileTypes, NoOwner, Programs
<1>3. ShellTypes'
  BY DEF CheckOwner, shells, ShellTypes, Walk, Programs
<1>4. script' \in ScriptSet
  BY GotoMeans, ExitMeans DEF CheckOwner, Places
<1>5. QED
  BY <1>1, <1>2, <1>3, <1>4

LEMMA RemoveStaleOwnerTypes ==
  ASSUME SoundTypes, NEW s \in {"fg", "ghost"}, RemoveStaleOwner(s) PROVE SoundTypes'
<1> USE SoundScriptConstants DEF SoundTypes, Token
<1>1. HomeTypes'
  BY DEF RemoveStaleOwner, Goto, Exit, scriptKept, bounds, HomeTypes
<1>2. FileTypes'
  BY DEF RemoveStaleOwner, files, FileTypes, NoOwner, Programs
<1>3. ShellTypes'
  BY DEF RemoveStaleOwner, shells, ShellTypes, Walk, Programs
<1>4. script' \in ScriptSet
  BY GotoMeans, ExitMeans DEF RemoveStaleOwner, Places
<1>5. QED
  BY <1>1, <1>2, <1>3, <1>4

LEMMA CheckDeviceTypes ==
  ASSUME SoundTypes, NEW s \in {"fg", "ghost"}, CheckDevice(s) PROVE SoundTypes'
<1> USE SoundScriptConstants DEF SoundTypes, Token
<1>1. HomeTypes'
  BY DEF CheckDevice, Goto, Exit, scriptKept, bounds, HomeTypes
<1>2. FileTypes'
  BY DEF CheckDevice, files, FileTypes, NoOwner, Programs
<1>3. ShellTypes'
  BY DEF CheckDevice, shells, ShellTypes, Walk, Programs
<1>4. script' \in ScriptSet
  BY GotoMeans, ExitMeans DEF CheckDevice, Places
<1>5. QED
  BY <1>1, <1>2, <1>3, <1>4

LEMMA ForkTypes ==
  ASSUME SoundTypes, NEW s \in {"fg", "ghost"}, Fork(s) PROVE SoundTypes'
<1> USE SoundScriptConstants DEF SoundTypes, Token
<1>1. HomeTypes'
  BY DEF Fork, Goto, Exit, scriptKept, bounds, HomeTypes
<1>2. FileTypes'
  BY DEF Fork, files, FileTypes, NoOwner, Programs
<1>3. ShellTypes'
  BY DEF Fork, shells, ShellTypes, Walk, Programs
<1>4. script' \in ScriptSet
  BY GotoMeans, ExitMeans DEF Fork, Places
<1>5. QED
  BY <1>1, <1>2, <1>3, <1>4

LEMMA AwaitRecordTypes ==
  ASSUME SoundTypes, NEW s \in {"fg", "ghost"}, AwaitRecord(s) PROVE SoundTypes'
<1> USE SoundScriptConstants DEF SoundTypes, Token
<1>1. HomeTypes'
  BY DEF AwaitRecord, Goto, Exit, scriptKept, bounds, HomeTypes
<1>2. FileTypes'
  BY DEF AwaitRecord, files, FileTypes, NoOwner, Programs
<1>3. ShellTypes'
  BY DEF AwaitRecord, shells, ShellTypes, Walk, Programs
<1>4. script' \in ScriptSet
  BY GotoMeans, ExitMeans DEF AwaitRecord, Places
<1>5. QED
  BY <1>1, <1>2, <1>3, <1>4

LEMMA TouchStopTypes ==
  ASSUME SoundTypes, NEW s \in {"fg", "ghost"}, TouchStop(s) PROVE SoundTypes'
<1> USE SoundScriptConstants DEF SoundTypes, Token
<1>1. HomeTypes'
  BY DEF TouchStop, Goto, Exit, scriptKept, bounds, HomeTypes
<1>2. FileTypes'
  BY DEF TouchStop, files, FileTypes, NoOwner, Programs
<1>3. ShellTypes'
  BY DEF TouchStop, shells, ShellTypes, Walk, Programs
<1>4. script' \in ScriptSet
  BY GotoMeans, ExitMeans DEF TouchStop, Places
<1>5. QED
  BY <1>1, <1>2, <1>3, <1>4

LEMMA KillOwnedTypes ==
  ASSUME SoundTypes, NEW s \in {"fg", "ghost"}, KillOwned(s) PROVE SoundTypes'
<1> USE SoundScriptConstants DEF SoundTypes, Token
<1>1. HomeTypes'
  BY DEF KillOwned, Goto, Exit, scriptKept, bounds, HomeTypes
<1>2. FileTypes'
  BY DEF KillOwned, files, FileTypes, NoOwner, Programs
<1>3. ShellTypes'
  <2>1. CASE owner.token = script[s].token /\ OwnerRuns
    <3>1. owner.token \in Token
      BY <2>1 DEF OwnerRuns, FileTypes
    <3>2. ChildEnds(owner.token, FALSE) /\ UNCHANGED sub
      BY <2>1 DEF KillOwned
    <3>3. QED
      BY <3>1, <3>2, ChildEndsMeans DEF ShellTypes
  <2>2. CASE ~(owner.token = script[s].token /\ OwnerRuns)
    BY <2>2 DEF KillOwned, ShellTypes
  <2>3. QED
    BY <2>1, <2>2
<1>4. script' \in ScriptSet
  BY GotoMeans, ExitMeans DEF KillOwned, Places
<1>5. QED
  BY <1>1, <1>2, <1>3, <1>4

LEMMA RemoveOwnerTypes ==
  ASSUME SoundTypes, NEW s \in {"fg", "ghost"}, RemoveOwner(s) PROVE SoundTypes'
<1> USE SoundScriptConstants DEF SoundTypes, Token
<1>1. HomeTypes'
  BY DEF RemoveOwner, Goto, Exit, scriptKept, bounds, HomeTypes
<1>2. FileTypes'
  BY DEF RemoveOwner, files, FileTypes, NoOwner, Programs
<1>3. ShellTypes'
  BY DEF RemoveOwner, shells, ShellTypes, Walk, Programs
<1>4. script' \in ScriptSet
  BY GotoMeans, ExitMeans DEF RemoveOwner, Places
<1>5. QED
  BY <1>1, <1>2, <1>3, <1>4

LEMMA CheckUnownedTypes ==
  ASSUME SoundTypes, NEW s \in {"fg", "ghost"}, CheckUnowned(s) PROVE SoundTypes'
<1> USE SoundScriptConstants DEF SoundTypes, Token
<1>1. HomeTypes'
  BY DEF CheckUnowned, Goto, Exit, scriptKept, bounds, HomeTypes
<1>2. FileTypes'
  BY DEF CheckUnowned, files, FileTypes, NoOwner, Programs
<1>3. ShellTypes'
  BY DEF CheckUnowned, shells, ShellTypes, Walk, Programs
<1>4. script' \in ScriptSet
  BY GotoMeans, ExitMeans DEF CheckUnowned, Places
<1>5. QED
  BY <1>1, <1>2, <1>3, <1>4

LEMMA RemoveFilesTypes ==
  ASSUME SoundTypes, NEW s \in {"fg", "ghost"}, RemoveFiles(s) PROVE SoundTypes'
<1> USE SoundScriptConstants DEF SoundTypes, Token
<1>1. HomeTypes'
  BY DEF RemoveFiles, Goto, Exit, scriptKept, bounds, HomeTypes
<1>2. FileTypes'
  BY DEF RemoveFiles, files, FileTypes, NoOwner, Programs
<1>3. ShellTypes'
  BY DEF RemoveFiles, shells, ShellTypes, Walk, Programs
<1>4. script' \in ScriptSet
  BY GotoMeans, ExitMeans DEF RemoveFiles, Places
<1>5. QED
  BY <1>1, <1>2, <1>3, <1>4

LEMMA StartProgramTypes ==
  ASSUME SoundTypes, NEW t \in Token, StartProgram(t) PROVE SoundTypes'
<1> USE SoundScriptConstants DEF SoundTypes, Token
<1>1. HomeTypes'
  BY DEF StartProgram, subKept, home, bounds, HomeTypes
<1>2. FileTypes'
  BY DEF StartProgram, files, FileTypes, ShellTypes, NoOwner, Programs
<1>3. ShellTypes'
  <2>1. sub' \in [Token -> Walk]
    BY DEF StartProgram, Move, ShellTypes, Walk
  <2>2. \E p \in {"wget", "aplay"} :
          child' = [child EXCEPT ![t] = [program |-> p, alive |-> TRUE, ok |-> FALSE]]
    BY DEF StartProgram
  <2>3. child' \in [Token -> [program : Programs, alive : BOOLEAN, ok : BOOLEAN]]
    BY <2>2 DEF ShellTypes, Programs
  <2>4. device' \in 0..Tokens
    BY DEF StartProgram, ShellTypes
  <2>5. QED
    BY <2>1, <2>3, <2>4 DEF ShellTypes
<1>4. script' \in ScriptSet
  BY DEF StartProgram, subKept
<1>5. QED
  BY <1>1, <1>2, <1>3, <1>4

LEMMA RecordOwnerTypes ==
  ASSUME SoundTypes, NEW t \in Token, RecordOwner(t) PROVE SoundTypes'
<1> USE SoundScriptConstants DEF SoundTypes, Token
<1>1. HomeTypes'
  BY DEF RecordOwner, subKept, home, bounds, HomeTypes
<1>2. FileTypes'
  BY DEF RecordOwner, files, FileTypes, ShellTypes, NoOwner, Programs
<1>3. ShellTypes'
  BY DEF RecordOwner, Move, shells, ShellTypes, Walk, Programs
<1>4. script' \in ScriptSet
  BY DEF RecordOwner, subKept
<1>5. QED
  BY <1>1, <1>2, <1>3, <1>4

LEMMA RecordStateTypes ==
  ASSUME SoundTypes, NEW t \in Token, RecordState(t) PROVE SoundTypes'
<1> USE SoundScriptConstants DEF SoundTypes, Token
<1>1. HomeTypes'
  BY DEF RecordState, subKept, home, bounds, HomeTypes
<1>2. FileTypes'
  BY DEF RecordState, files, FileTypes, ShellTypes, NoOwner, Programs
<1>3. ShellTypes'
  BY DEF RecordState, Move, shells, ShellTypes, Walk, Programs
<1>4. script' \in ScriptSet
  BY DEF RecordState, subKept
<1>5. QED
  BY <1>1, <1>2, <1>3, <1>4

LEMMA LookForStopTypes ==
  ASSUME SoundTypes, NEW t \in Token, LookForStop(t) PROVE SoundTypes'
<1> USE SoundScriptConstants DEF SoundTypes, Token
<1>1. HomeTypes'
  BY DEF LookForStop, subKept, home, bounds, HomeTypes
<1>2. FileTypes'
  BY DEF LookForStop, files, FileTypes, ShellTypes, NoOwner, Programs
<1>3. ShellTypes'
  <2>1. sub' \in [Token -> Walk]
    BY DEF LookForStop, Move, ShellTypes, Walk
  <2>2. CASE stop_file[t] /\ child[t].alive
    BY <2>1, <2>2, ChildEndsMeans DEF LookForStop, ShellTypes
  <2>3. CASE ~(stop_file[t] /\ child[t].alive)
    BY <2>1, <2>3 DEF LookForStop, ShellTypes
  <2>4. QED
    BY <2>2, <2>3
<1>4. script' \in ScriptSet
  BY DEF LookForStop, subKept
<1>5. QED
  BY <1>1, <1>2, <1>3, <1>4

LEMMA WaitedTypes ==
  ASSUME SoundTypes, NEW t \in Token, Waited(t) PROVE SoundTypes'
<1> USE SoundScriptConstants DEF SoundTypes, Token
<1>1. HomeTypes'
  BY DEF Waited, subKept, home, bounds, HomeTypes
<1>2. FileTypes'
  BY DEF Waited, files, FileTypes, ShellTypes, NoOwner, Programs
<1>3. ShellTypes'
  BY DEF Waited, Move, shells, ShellTypes, Walk, Programs
<1>4. script' \in ScriptSet
  BY DEF Waited, subKept
<1>5. QED
  BY <1>1, <1>2, <1>3, <1>4

LEMMA FinishStateTypes ==
  ASSUME SoundTypes, NEW t \in Token, FinishState(t) PROVE SoundTypes'
<1> USE SoundScriptConstants DEF SoundTypes, Token
<1>1. HomeTypes'
  BY DEF FinishState, subKept, home, bounds, HomeTypes
<1>2. FileTypes'
  BY DEF FinishState, files, FileTypes, ShellTypes, NoOwner, Programs
<1>3. ShellTypes'
  BY DEF FinishState, Move, shells, ShellTypes, Walk, Programs
<1>4. script' \in ScriptSet
  BY DEF FinishState, subKept
<1>5. QED
  BY <1>1, <1>2, <1>3, <1>4

LEMMA FinishOwnerTypes ==
  ASSUME SoundTypes, NEW t \in Token, FinishOwner(t) PROVE SoundTypes'
<1> USE SoundScriptConstants DEF SoundTypes, Token
<1>1. HomeTypes'
  BY DEF FinishOwner, subKept, home, bounds, HomeTypes
<1>2. FileTypes'
  BY DEF FinishOwner, files, FileTypes, ShellTypes, NoOwner, Programs
<1>3. ShellTypes'
  BY DEF FinishOwner, Move, shells, ShellTypes, Walk, Programs
<1>4. script' \in ScriptSet
  BY DEF FinishOwner, subKept
<1>5. QED
  BY <1>1, <1>2, <1>3, <1>4

LEMMA FinishFilesTypes ==
  ASSUME SoundTypes, NEW t \in Token, FinishFiles(t) PROVE SoundTypes'
<1> USE SoundScriptConstants DEF SoundTypes, Token
<1>1. HomeTypes'
  BY DEF FinishFiles, subKept, home, bounds, HomeTypes
<1>2. FileTypes'
  BY DEF FinishFiles, files, FileTypes, ShellTypes, NoOwner, Programs
<1>3. ShellTypes'
  BY DEF FinishFiles, Move, shells, ShellTypes, Walk, Programs
<1>4. script' \in ScriptSet
  BY DEF FinishFiles, subKept
<1>5. QED
  BY <1>1, <1>2, <1>3, <1>4

LEMMA ProgramEndsTypes ==
  ASSUME SoundTypes, NEW t \in Token, ProgramEnds(t) PROVE SoundTypes'
<1> USE SoundScriptConstants DEF SoundTypes, Token
<1>1. HomeTypes'
  BY DEF ProgramEnds, subKept, home, bounds, HomeTypes
<1>2. FileTypes'
  BY DEF ProgramEnds, files, FileTypes, ShellTypes, NoOwner, Programs
<1>3. ShellTypes'
  BY ChildEndsMeans DEF ProgramEnds, ShellTypes
<1>4. script' \in ScriptSet
  BY DEF ProgramEnds, subKept
<1>5. QED
  BY <1>1, <1>2, <1>3, <1>4

LEMMA SubshellKilledTypes ==
  ASSUME SoundTypes, NEW t \in Token, SubshellKilled(t) PROVE SoundTypes'
<1> USE SoundScriptConstants DEF SoundTypes, Token
<1>1. HomeTypes'
  BY DEF SubshellKilled, subKept, home, bounds, HomeTypes
<1>2. FileTypes'
  BY DEF SubshellKilled, files, FileTypes, ShellTypes, NoOwner, Programs
<1>3. ShellTypes'
  BY DEF SubshellKilled, Move, shells, ShellTypes, Walk, Programs
<1>4. script' \in ScriptSet
  BY DEF SubshellKilled, subKept
<1>5. QED
  BY <1>1, <1>2, <1>3, <1>4

LEMMA PlayTypes ==
  ASSUME SoundTypes, Play PROVE SoundTypes'
<1> USE SoundScriptConstants DEF SoundTypes, Token
<1>1. HomeTypes'
  BY DEF Play, Run, Release, bounds, HomeTypes
<1>2. FileTypes'
  BY DEF Play, files, FileTypes
<1>3. ShellTypes'
  BY DEF Play, shells, ShellTypes
<1>4. script' \in ScriptSet
  BY <1>1, RunMeans DEF Play, HomeTypes, Release
<1>5. QED
  BY <1>1, <1>2, <1>3, <1>4

LEMMA StartedTypes ==
  ASSUME SoundTypes, Started PROVE SoundTypes'
<1> USE SoundScriptConstants DEF SoundTypes, Token
<1>1. HomeTypes'
  <2>1. job' \in 0..Tokens /\ used' \in 0..Tokens /\ lost' \in 0..MaxLost /\ kills' \in 0..MaxKills
    BY DEF Started, bounds, Release, bounds, HomeTypes
  <2>2. ha' \in {"idle", "start", "watch", "stop", "cleanup"} /\ answer' \in {"none", "ok", "busy", "failed"}
    BY DEF Started, bounds, Release, Run, HomeTypes
  <2>3. watched' \in BOOLEAN
    BY DEF Started
  <2>4. QED
    BY <2>1, <2>2, <2>3 DEF HomeTypes
<1>2. FileTypes'
  BY DEF Started, files, FileTypes
<1>3. ShellTypes'
  BY DEF Started, shells, ShellTypes
<1>4. script' \in ScriptSet
  BY <1>1, RunMeans DEF Started, HomeTypes, Release
<1>5. QED
  BY <1>1, <1>2, <1>3, <1>4

LEMMA PolledTypes ==
  ASSUME SoundTypes, Polled PROVE SoundTypes'
<1> USE SoundScriptConstants DEF SoundTypes, Token
<1>1. HomeTypes'
  BY DEF Polled, Run, Release, bounds, HomeTypes
<1>2. FileTypes'
  BY DEF Polled, files, FileTypes
<1>3. ShellTypes'
  BY DEF Polled, shells, ShellTypes
<1>4. script' \in ScriptSet
  BY <1>1, RunMeans DEF Polled, HomeTypes, Release
<1>5. QED
  BY <1>1, <1>2, <1>3, <1>4

LEMMA StopItTypes ==
  ASSUME SoundTypes, StopIt PROVE SoundTypes'
<1> USE SoundScriptConstants DEF SoundTypes, Token
<1>1. HomeTypes'
  BY DEF StopIt, Run, Release, bounds, HomeTypes
<1>2. FileTypes'
  BY DEF StopIt, files, FileTypes
<1>3. ShellTypes'
  BY DEF StopIt, shells, ShellTypes
<1>4. script' \in ScriptSet
  BY <1>1, RunMeans DEF StopIt, HomeTypes, Release
<1>5. QED
  BY <1>1, <1>2, <1>3, <1>4

LEMMA StoppedTypes ==
  ASSUME SoundTypes, Stopped PROVE SoundTypes'
<1> USE SoundScriptConstants DEF SoundTypes, Token
<1>1. HomeTypes'
  BY DEF Stopped, Run, Release, bounds, HomeTypes
<1>2. FileTypes'
  BY DEF Stopped, files, FileTypes
<1>3. ShellTypes'
  BY DEF Stopped, shells, ShellTypes
<1>4. script' \in ScriptSet
  BY <1>1, RunMeans DEF Stopped, HomeTypes, Release
<1>5. QED
  BY <1>1, <1>2, <1>3, <1>4

LEMMA CleanedTypes ==
  ASSUME SoundTypes, Cleaned PROVE SoundTypes'
<1> USE SoundScriptConstants DEF SoundTypes, Token
<1>1. HomeTypes'
  BY DEF Cleaned, Run, Release, bounds, HomeTypes
<1>2. FileTypes'
  BY DEF Cleaned, files, FileTypes
<1>3. ShellTypes'
  BY DEF Cleaned, shells, ShellTypes
<1>4. script' \in ScriptSet
  BY <1>1, RunMeans DEF Cleaned, HomeTypes, Release
<1>5. QED
  BY <1>1, <1>2, <1>3, <1>4

LEMMA LoseTypes ==
  ASSUME SoundTypes, Lose PROVE SoundTypes'
<1> USE SoundScriptConstants DEF SoundTypes, Token
<1>1. HomeTypes'
  BY DEF Lose, Run, Release, HomeTypes
<1>2. FileTypes'
  BY DEF Lose, files, FileTypes
<1>3. ShellTypes'
  BY DEF Lose, shells, ShellTypes
<1>4. script' \in ScriptSet
  BY NoScriptType DEF Lose, ScriptSet
<1>5. QED
  BY <1>1, <1>2, <1>3, <1>4

-----------------------------------------------------------------------------
(* Without disturbance there is one script at most, of the job in hand.    *)

\* What a script that runs says of Home Assistant.
LEMMA FgOnly ==
  ASSUME SoundTypes, Calm, NEW s \in {"fg", "ghost"}, NEW op \in {"start", "stop", "cleanup"}, NEW at,
         At(s, op, at)
  PROVE  /\ s = "fg" /\ script["fg"] # NoScript /\ script["ghost"] = NoScript
         /\ ha = op /\ job \in Token /\ script["fg"].token = job /\ answer = "none"
         /\ script["fg"].op = op /\ script["fg"].at = at
<1>1. s = "fg" /\ script["fg"] # NoScript
  BY DEF Calm, Phase, At, NoScript
<1>2. script["fg"].op = op /\ script["fg"].at = at
  BY <1>1 DEF At
<1>3. ha = op /\ script["fg"].token = job /\ answer = "none" /\ job # 0 /\ script["ghost"] = NoScript
  BY <1>1, <1>2 DEF Calm, Phase
<1>4. job \in Token
  BY <1>3, SoundScriptConstants DEF SoundTypes, HomeTypes, Token
<1>5. QED
  BY <1>1, <1>2, <1>3, <1>4

\* A script that goes on, ends: what Home Assistant knows of it.
GoesOn(at) ==
  /\ script'["fg"].op = script["fg"].op /\ script'["fg"].token = script["fg"].token
  /\ script'["fg"].at = at /\ script'["fg"] # NoScript /\ answer' = "none"
Ends(reply) == script'["fg"] = NoScript /\ answer' = reply

LEMMA FgGoesOn ==
  ASSUME SoundTypes, Calm, script["fg"] # NoScript, NEW at \in Places, Goto("fg", at)
  PROVE  GoesOn(at) /\ script'["ghost"] = NoScript
<1>1. script["fg"].op # "none" /\ answer = "none" /\ script["ghost"] = NoScript
  BY DEF Calm, Phase, SoundTypes, HomeTypes
<1>2. QED
  BY <1>1, GotoMeans DEF GoesOn, NoScript

LEMMA FgEnds ==
  ASSUME SoundTypes, Calm, NEW reply, Exit("fg", reply)
  PROVE  Ends(reply) /\ script'["ghost"] = NoScript
<1>1. script["ghost"] = NoScript
  BY DEF Calm, Phase
<1>2. QED
  BY <1>1, ExitMeans DEF Ends

LEMMA CheckOwnerCalm ==
  ASSUME SoundTypes, SoundTypes', Calm, ~Orphaned, NEW s \in {"fg", "ghost"}, CheckOwner(s)
  PROVE  Calm'
<1>1. /\ s = "fg" /\ script["fg"] # NoScript /\ script["ghost"] = NoScript
      /\ ha = "start" /\ job \in Token /\ script["fg"].token = job /\ answer = "none"
      /\ script["fg"].op = "start" /\ script["fg"].at = "owner"
  BY FgOnly DEF CheckOwner
<1>2. UNCHANGED <<ha, job, used, owner, state, stop_file, cache, sub, child, device>>
  BY DEF CheckOwner, scriptKept, files
<1>3. script'["ghost"] = NoScript /\ (GoesOn("device") \/ GoesOn("disown"))
  <2>1. ~OwnerRuns
    <3> SUFFICES ASSUME owner.token \in Token, child[owner.token].alive PROVE FALSE
      BY SoundScriptConstants DEF OwnerRuns, Runs, SoundTypes, FileTypes, Token
    <3>1. sub[owner.token] \in {"record", "report", "look", "wait"}
      BY DEF Calm, Shell
    <3>2. sub[job] = "none"
      BY <1>1 DEF Calm, Starting
    <3>3. QED
      BY <3>1, <3>2 DEF Calm, Strangers, Clean
  <2>2. QED
    BY <2>1, <1>1, FgGoesOn DEF CheckOwner, Places
<1>4. Phase'
  BY <1>1, <1>2, <1>3 DEF Calm, Phase, GoesOn, Ends
<1>5. \A t \in Token : Shell(t)'
  BY <1>1, <1>2, <1>3, SoundScriptConstants DEF Calm, Shell, Live, Past, Starting, Phase,
     NoOwner, Token, SoundTypes, HomeTypes
<1>6. Starting'
  BY <1>1, <1>2, <1>3 DEF Calm, Starting, Shell, GoesOn, Ends, NoScript, Past, SoundTypes,
     ShellTypes, Walk
<1>7. Cleaning'
  BY <1>1, <1>2, <1>3 DEF Calm, Cleaning, Clean, GoesOn, Ends, Shell, Live, SoundTypes,
     ShellTypes, Walk
<1>8. ~Orphaned' => ~Orphaned
  BY <1>1, <1>2, <1>3 DEF Calm, Orphaned, Live, Shell
<1>9. ~Orphaned' => Strangers'
  BY <1>1, <1>2, <1>3, <1>8 DEF Calm, Strangers, Clean
<1>10. ~Orphaned' => OwnJob'
  BY <1>1, <1>2, <1>3, <1>8 DEF Calm, OwnJob, Past, GoesOn, Ends, Shell, Starting, NoScript,
     Clean, Live
<1>11. QED
  BY <1>4, <1>5, <1>6, <1>7, <1>9, <1>10 DEF Calm

LEMMA RemoveStaleOwnerCalm ==
  ASSUME SoundTypes, SoundTypes', Calm, NEW s \in {"fg", "ghost"}, RemoveStaleOwner(s) PROVE Calm'
<1>1. /\ s = "fg" /\ script["fg"] # NoScript /\ script["ghost"] = NoScript
      /\ ha = "start" /\ job \in Token /\ script["fg"].token = job /\ answer = "none"
      /\ script["fg"].op = "start" /\ script["fg"].at = "disown"
  BY FgOnly DEF RemoveStaleOwner
<1>2. UNCHANGED <<ha, job, used, state, stop_file, cache, sub, child, device>>
  BY DEF RemoveStaleOwner, scriptKept, files
<1>3. script'["ghost"] = NoScript /\ GoesOn("device") /\ owner' = NoOwner
  BY <1>1, FgGoesOn, FgEnds DEF RemoveStaleOwner, Places
<1>4. Phase'
  BY <1>1, <1>2, <1>3 DEF Calm, Phase, GoesOn, Ends
<1>5. \A t \in Token : Shell(t)'
  BY <1>1, <1>2, <1>3, SoundScriptConstants DEF Calm, Shell, Live, Past, Starting, Phase,
     NoOwner, Token, SoundTypes, HomeTypes
<1>6. Starting'
  BY <1>1, <1>2, <1>3 DEF Calm, Starting, Shell, GoesOn, Ends, NoScript, Past, SoundTypes,
     ShellTypes, Walk
<1>7. Cleaning'
  BY <1>1, <1>2, <1>3 DEF Calm, Cleaning, Clean, GoesOn, Ends, Shell, Live, SoundTypes,
     ShellTypes, Walk
<1>8. ~Orphaned' => ~Orphaned
  BY <1>1, <1>2, <1>3 DEF Calm, Orphaned, Live, Shell
<1>9. ~Orphaned' => Strangers'
  BY <1>1, <1>2, <1>3, <1>8 DEF Calm, Strangers, Clean
<1>10. ~Orphaned' => OwnJob'
  BY <1>1, <1>2, <1>3, <1>8 DEF Calm, OwnJob, Past, GoesOn, Ends, Shell, Starting, NoScript,
     Clean, Live
<1>11. QED
  BY <1>4, <1>5, <1>6, <1>7, <1>9, <1>10 DEF Calm

LEMMA CheckDeviceCalm ==
  ASSUME SoundTypes, SoundTypes', Calm, NEW s \in {"fg", "ghost"}, CheckDevice(s) PROVE Calm'
<1>1. /\ s = "fg" /\ script["fg"] # NoScript /\ script["ghost"] = NoScript
      /\ ha = "start" /\ job \in Token /\ script["fg"].token = job /\ answer = "none"
      /\ script["fg"].op = "start" /\ script["fg"].at = "device"
  BY FgOnly DEF CheckDevice
<1>2. UNCHANGED <<ha, job, used, owner, state, stop_file, cache, sub, child, device>>
  BY DEF CheckDevice, scriptKept, files
<1>3. script'["ghost"] = NoScript /\ (Ends("busy") \/ GoesOn("fork"))
  BY <1>1, FgGoesOn, FgEnds DEF CheckDevice, Places
<1>4. Phase'
  BY <1>1, <1>2, <1>3 DEF Calm, Phase, GoesOn, Ends
<1>5. \A t \in Token : Shell(t)'
  BY <1>1, <1>2, <1>3, SoundScriptConstants DEF Calm, Shell, Live, Past, Starting, Phase,
     NoOwner, Token, SoundTypes, HomeTypes
<1>6. Starting'
  BY <1>1, <1>2, <1>3 DEF Calm, Starting, Shell, GoesOn, Ends, NoScript, Past, SoundTypes,
     ShellTypes, Walk
<1>7. Cleaning'
  BY <1>1, <1>2, <1>3 DEF Calm, Cleaning, Clean, GoesOn, Ends, Shell, Live, SoundTypes,
     ShellTypes, Walk
<1>8. ~Orphaned' => ~Orphaned
  BY <1>1, <1>2, <1>3 DEF Calm, Orphaned, Live, Shell
<1>9. ~Orphaned' => Strangers'
  BY <1>1, <1>2, <1>3, <1>8 DEF Calm, Strangers, Clean
<1>10. ~Orphaned' => OwnJob'
  BY <1>1, <1>2, <1>3, <1>8 DEF Calm, OwnJob, Past, GoesOn, Ends, Shell, Starting, NoScript,
     Clean, Live
<1>11. QED
  BY <1>4, <1>5, <1>6, <1>7, <1>9, <1>10 DEF Calm

LEMMA ForkCalm ==
  ASSUME SoundTypes, SoundTypes', Calm, NEW s \in {"fg", "ghost"}, Fork(s) PROVE Calm'
<1>1. /\ s = "fg" /\ script["fg"] # NoScript /\ script["ghost"] = NoScript
      /\ ha = "start" /\ job \in Token /\ script["fg"].token = job /\ answer = "none"
      /\ script["fg"].op = "start" /\ script["fg"].at = "fork"
  BY FgOnly DEF Fork
<1>2. UNCHANGED <<ha, job, used, owner, stop_file, cache, child, device>>
  BY DEF Fork, scriptKept, files
<1>3. /\ script'["ghost"] = NoScript /\ GoesOn("wait")
      /\ state'[job] = "PENDING" /\ \A t \in Token \ {job} : state'[t] = state[t]
      /\ sub'[job] = "begin" /\ \A t \in Token \ {job} : sub'[t] = sub[t]
  BY <1>1, FgGoesOn, FgEnds DEF Fork, Places, SoundTypes, FileTypes, ShellTypes
<1>4. Phase'
  BY <1>1, <1>2, <1>3 DEF Calm, Phase, GoesOn, Ends
<1>5. \A t \in Token : Shell(t)'
  BY <1>1, <1>2, <1>3, SoundScriptConstants DEF Calm, Shell, Live, Past, Starting, Phase,
     NoOwner, Token, SoundTypes, HomeTypes
<1>6. Starting'
  BY <1>1, <1>2, <1>3 DEF Calm, Starting, Shell, GoesOn, Ends, NoScript, Past, SoundTypes,
     ShellTypes, Walk
<1>7. Cleaning'
  BY <1>1, <1>2, <1>3 DEF Calm, Cleaning, Clean, GoesOn, Ends, Shell, Live, SoundTypes,
     ShellTypes, Walk
<1>8. ~Orphaned' => ~Orphaned
  BY <1>1, <1>2, <1>3 DEF Calm, Orphaned, Live, Shell
<1>9. ~Orphaned' => Strangers'
  BY <1>1, <1>2, <1>3, <1>8 DEF Calm, Strangers, Clean
<1>10. ~Orphaned' => OwnJob'
  BY <1>1, <1>2, <1>3, <1>8 DEF Calm, OwnJob, Past, GoesOn, Ends, Shell, Starting, NoScript,
     Clean, Live
<1>11. QED
  BY <1>4, <1>5, <1>6, <1>7, <1>9, <1>10 DEF Calm

LEMMA AwaitRecordCalm ==
  ASSUME SoundTypes, SoundTypes', Calm, NEW s \in {"fg", "ghost"}, ~Slow, AwaitRecord(s) PROVE Calm'
<1>1. /\ s = "fg" /\ script["fg"] # NoScript /\ script["ghost"] = NoScript
      /\ ha = "start" /\ job \in Token /\ script["fg"].token = job /\ answer = "none"
      /\ script["fg"].op = "start" /\ script["fg"].at = "wait"
  BY FgOnly DEF AwaitRecord
<1>2. UNCHANGED <<ha, job, used, owner, state, stop_file, cache, sub, child, device>>
  BY DEF AwaitRecord, scriptKept, files
<1>3. /\ script'["ghost"] = NoScript
      /\ Ends("ok") /\ state[job] # "PENDING"
  <2>1. state[job] = "PENDING" => sub[job] # "gone"
    BY <1>1 DEF Calm, Shell
  <2>2. QED
    BY <1>1, <2>1, FgEnds DEF AwaitRecord
<1>4. Phase'
  BY <1>1, <1>2, <1>3 DEF Calm, Phase, GoesOn, Ends
<1>5. \A t \in Token : Shell(t)'
  BY <1>1, <1>2, <1>3, SoundScriptConstants DEF Calm, Shell, Live, Past, Starting, Phase,
     NoOwner, Token, SoundTypes, HomeTypes
<1>6. Starting'
  BY <1>1, <1>2, <1>3 DEF Calm, Starting, Shell, GoesOn, Ends, NoScript, Past, SoundTypes,
     ShellTypes, Walk
<1>7. Cleaning'
  BY <1>1, <1>2, <1>3 DEF Calm, Cleaning, Clean, GoesOn, Ends, Shell, Live, SoundTypes,
     ShellTypes, Walk
<1>8. ~Orphaned' => ~Orphaned
  BY <1>1, <1>2, <1>3 DEF Calm, Orphaned, Live, Shell
<1>9. ~Orphaned' => Strangers'
  BY <1>1, <1>2, <1>3, <1>8 DEF Calm, Strangers, Clean
<1>10. ~Orphaned' => OwnJob'
  BY <1>1, <1>2, <1>3, <1>8 DEF Calm, OwnJob, Past, GoesOn, Ends, Shell, Starting, NoScript,
     Clean, Live
<1>11. QED
  BY <1>4, <1>5, <1>6, <1>7, <1>9, <1>10 DEF Calm

LEMMA TouchStopCalm ==
  ASSUME SoundTypes, SoundTypes', Calm, NEW s \in {"fg", "ghost"}, TouchStop(s) PROVE Calm'
<1>1. /\ s = "fg" /\ script["fg"] # NoScript /\ script["ghost"] = NoScript
      /\ ha = "stop" /\ job \in Token /\ script["fg"].token = job /\ answer = "none"
      /\ script["fg"].op = "stop" /\ script["fg"].at = "touch"
  BY FgOnly DEF TouchStop
<1>2. UNCHANGED <<ha, job, used, owner, state, cache, sub, child, device>>
  BY DEF TouchStop, scriptKept, files
<1>3. /\ script'["ghost"] = NoScript /\ GoesOn("kill")
      /\ stop_file'[job] = TRUE /\ \A t \in Token \ {job} : stop_file'[t] = stop_file[t]
  BY <1>1, FgGoesOn, FgEnds DEF TouchStop, Places, SoundTypes, FileTypes
<1>4. Phase'
  BY <1>1, <1>2, <1>3 DEF Calm, Phase, GoesOn, Ends
<1>5. \A t \in Token : Shell(t)'
  BY <1>1, <1>2, <1>3, SoundScriptConstants DEF Calm, Shell, Live, Past, Starting, Phase,
     NoOwner, Token, SoundTypes, HomeTypes
<1>6. Starting'
  BY <1>1, <1>2, <1>3 DEF Calm, Starting, Shell, GoesOn, Ends, NoScript, Past, SoundTypes,
     ShellTypes, Walk
<1>7. Cleaning'
  BY <1>1, <1>2, <1>3 DEF Calm, Cleaning, Clean, GoesOn, Ends, Shell, Live, SoundTypes,
     ShellTypes, Walk
<1>8. ~Orphaned' => ~Orphaned
  BY <1>1, <1>2, <1>3 DEF Calm, Orphaned, Live, Shell
<1>9. ~Orphaned' => Strangers'
  BY <1>1, <1>2, <1>3, <1>8 DEF Calm, Strangers, Clean
<1>10. ~Orphaned' => OwnJob'
  BY <1>1, <1>2, <1>3, <1>8 DEF Calm, OwnJob, Past, GoesOn, Ends, Shell, Starting, NoScript,
     Clean, Live
<1>11. QED
  BY <1>4, <1>5, <1>6, <1>7, <1>9, <1>10 DEF Calm

LEMMA RemoveOwnerCalm ==
  ASSUME SoundTypes, SoundTypes', Calm, NEW s \in {"fg", "ghost"}, RemoveOwner(s) PROVE Calm'
<1>1. /\ s = "fg" /\ script["fg"] # NoScript /\ script["ghost"] = NoScript
      /\ ha = "stop" /\ job \in Token /\ script["fg"].token = job /\ answer = "none"
      /\ script["fg"].op = "stop" /\ script["fg"].at = "disown"
  BY FgOnly DEF RemoveOwner
<1>2. UNCHANGED <<ha, job, used, state, stop_file, cache, sub, child, device>>
  BY DEF RemoveOwner, scriptKept, files
<1>3. /\ script'["ghost"] = NoScript /\ Ends("ok")
      /\ owner' = IF owner.token = job THEN NoOwner ELSE owner
  BY <1>1, FgGoesOn, FgEnds DEF RemoveOwner, Places
<1>4. Phase'
  BY <1>1, <1>2, <1>3 DEF Calm, Phase, GoesOn, Ends
<1>5. \A t \in Token : Shell(t)'
  BY <1>1, <1>2, <1>3, SoundScriptConstants DEF Calm, Shell, Live, Past, Starting, Phase,
     NoOwner, Token, SoundTypes, HomeTypes
<1>6. Starting'
  BY <1>1, <1>2, <1>3 DEF Calm, Starting, Shell, GoesOn, Ends, NoScript, Past, SoundTypes,
     ShellTypes, Walk
<1>7. Cleaning'
  BY <1>1, <1>2, <1>3 DEF Calm, Cleaning, Clean, GoesOn, Ends, Shell, Live, SoundTypes,
     ShellTypes, Walk
<1>8. ~Orphaned' => ~Orphaned
  BY <1>1, <1>2, <1>3 DEF Calm, Orphaned, Live, Shell
<1>9. ~Orphaned' => Strangers'
  BY <1>1, <1>2, <1>3, <1>8 DEF Calm, Strangers, Clean
<1>10. ~Orphaned' => OwnJob'
  BY <1>1, <1>2, <1>3, <1>8 DEF Calm, OwnJob, Past, GoesOn, Ends, Shell, Starting, NoScript,
     Clean, Live
<1>11. QED
  BY <1>4, <1>5, <1>6, <1>7, <1>9, <1>10 DEF Calm

LEMMA CheckUnownedCalm ==
  ASSUME SoundTypes, SoundTypes', Calm, NEW s \in {"fg", "ghost"}, CheckUnowned(s) PROVE Calm'
<1>1. /\ s = "fg" /\ script["fg"] # NoScript /\ script["ghost"] = NoScript
      /\ ha = "cleanup" /\ job \in Token /\ script["fg"].token = job /\ answer = "none"
      /\ script["fg"].op = "cleanup" /\ script["fg"].at = "check"
  BY FgOnly DEF CheckUnowned
<1>2. UNCHANGED <<ha, job, used, owner, state, stop_file, cache, sub, child, device>>
  BY DEF CheckUnowned, scriptKept, files
<1>3. /\ script'["ghost"] = NoScript
      /\ (Ends("ok") /\ owner.token = job) \/ (GoesOn("remove") /\ owner.token # job)
  BY <1>1, FgGoesOn, FgEnds DEF CheckUnowned, Places
<1>4. Phase'
  BY <1>1, <1>2, <1>3 DEF Calm, Phase, GoesOn, Ends
<1>5. \A t \in Token : Shell(t)'
  BY <1>1, <1>2, <1>3, SoundScriptConstants DEF Calm, Shell, Live, Past, Starting, Phase,
     NoOwner, Token, SoundTypes, HomeTypes
<1>6. Starting'
  BY <1>1, <1>2, <1>3 DEF Calm, Starting, Shell, GoesOn, Ends, NoScript, Past, SoundTypes,
     ShellTypes, Walk
<1>7. Cleaning'
  <2>1. job # 0 /\ (sub[job] \in {"disown", "remove"} => state[job] = "DONE")
    BY <1>1 DEF Calm, Cleaning, Token
  <2>2. owner.token = job => sub[job] \in Live \cup {"disown"}
    BY <1>1 DEF Calm, Shell
  <2>3. QED
    BY <1>1, <1>2, <1>3, <2>1, <2>2 DEF Cleaning, GoesOn, Ends, Live
<1>8. ~Orphaned' => ~Orphaned
  BY <1>1, <1>2, <1>3 DEF Calm, Orphaned, Live, Shell
<1>9. ~Orphaned' => Strangers'
  BY <1>1, <1>2, <1>3, <1>8 DEF Calm, Strangers, Clean
<1>10. ~Orphaned' => OwnJob'
  BY <1>1, <1>2, <1>3, <1>8 DEF Calm, OwnJob, Past, GoesOn, Ends, Shell, Starting, NoScript,
     Clean, Live
<1>11. QED
  BY <1>4, <1>5, <1>6, <1>7, <1>9, <1>10 DEF Calm

LEMMA RemoveFilesCalm ==
  ASSUME SoundTypes, SoundTypes', Calm, NEW s \in {"fg", "ghost"}, RemoveFiles(s) PROVE Calm'
<1>1. /\ s = "fg" /\ script["fg"] # NoScript /\ script["ghost"] = NoScript
      /\ ha = "cleanup" /\ job \in Token /\ script["fg"].token = job /\ answer = "none"
      /\ script["fg"].op = "cleanup" /\ script["fg"].at = "remove"
  BY FgOnly DEF RemoveFiles
<1>2. UNCHANGED <<ha, job, used, owner, sub, child, device>>
  BY DEF RemoveFiles, scriptKept, files
<1>3. /\ script'["ghost"] = NoScript /\ Ends("ok")
      /\ state'[job] = "none" /\ stop_file'[job] = FALSE /\ cache'[job] = FALSE
      /\ \A t \in Token \ {job} : /\ state'[t] = state[t] /\ stop_file'[t] = stop_file[t]
                                 /\ cache'[t] = cache[t]
  BY <1>1, FgGoesOn, FgEnds DEF RemoveFiles, Places, SoundTypes, FileTypes
<1>4. Phase'
  BY <1>1, <1>2, <1>3 DEF Calm, Phase, GoesOn, Ends
<1>5. \A t \in Token : Shell(t)'
  BY <1>1, <1>2, <1>3, SoundScriptConstants DEF Calm, Shell, Live, Past, Starting, Phase,
     NoOwner, Token, SoundTypes, HomeTypes
<1>6. Starting'
  BY <1>1, <1>2, <1>3 DEF Calm, Starting, Shell, GoesOn, Ends, NoScript, Past, SoundTypes,
     ShellTypes, Walk
<1>7. Cleaning'
  BY <1>1, <1>2, <1>3 DEF Calm, Cleaning, Clean, GoesOn, Ends, Shell, Live, SoundTypes,
     ShellTypes, Walk
<1>8. ~Orphaned' => ~Orphaned
  BY <1>1, <1>2, <1>3 DEF Calm, Orphaned, Live, Shell
<1>9. ~Orphaned' => Strangers'
  BY <1>1, <1>2, <1>3, <1>8 DEF Calm, Strangers, Clean
<1>10. ~Orphaned' => OwnJob'
  BY <1>1, <1>2, <1>3, <1>8 DEF Calm, OwnJob, Past, GoesOn, Ends, Shell, Starting, NoScript,
     Clean, Live
<1>11. QED
  BY <1>4, <1>5, <1>6, <1>7, <1>9, <1>10 DEF Calm

LEMMA KillOwnedCalm ==
  ASSUME SoundTypes, SoundTypes', Calm, NEW s \in {"fg", "ghost"}, KillOwned(s) PROVE Calm'
<1>1. /\ s = "fg" /\ script["fg"] # NoScript /\ script["ghost"] = NoScript
      /\ ha = "stop" /\ job \in Token /\ script["fg"].token = job /\ answer = "none"
      /\ script["fg"].op = "stop" /\ script["fg"].at = "kill"
  BY FgOnly DEF KillOwned
<1>2. UNCHANGED <<ha, job, used, owner, state, stop_file, cache, sub>>
  BY DEF KillOwned, scriptKept, files
<1>3. /\ script'["ghost"] = NoScript /\ GoesOn("disown")
      /\ \A t \in Token : child'[t].program = child[t].program
      /\ \A t \in Token : child'[t].alive => child[t].alive
      /\ device' = device \/ (device' = 0 /\ device = job)
      /\ owner.token = job /\ child[job].program = owner.program => ~child'[job].alive
      /\ device' = job => child'[job].alive \/ ~child[job].alive
      /\ \A t \in Token \ {job} : child'[t] = child[t]
  <2>1. CASE owner.token = job /\ OwnerRuns
    <3>1. ChildEnds(job, FALSE) /\ script'["ghost"] = NoScript /\ GoesOn("disown")
      BY <1>1, <2>1, FgGoesOn DEF KillOwned, Places
    <3>2. job # 0 /\ UNCHANGED sub
      BY <1>1, <1>2 DEF Token
    <3>3. QED
      BY <1>1, <3>1, <3>2, ChildEndsMeans
  <2>2. CASE ~(owner.token = job /\ OwnerRuns)
    <3>1. /\ UNCHANGED <<child, device>> /\ script'["ghost"] = NoScript /\ GoesOn("disown")
      BY <1>1, <2>2, FgGoesOn DEF KillOwned, Places
    <3>2. job # 0
      BY <1>1 DEF Token
    <3>3. QED
      BY <1>1, <2>2, <3>1, <3>2 DEF OwnerRuns, Runs
  <2>3. QED
    BY <2>1, <2>2
<1>4. Phase'
  BY <1>1, <1>2, <1>3 DEF Calm, Phase, GoesOn, Ends
<1>5. \A t \in Token : Shell(t)'
  BY <1>1, <1>2, <1>3, SoundScriptConstants DEF Calm, Shell, Live, Past, Starting, Phase,
     NoOwner, Token, SoundTypes, HomeTypes
<1>6. Starting'
  BY <1>1, <1>2, <1>3 DEF Calm, Starting, Shell, GoesOn, Ends, NoScript, Past, SoundTypes,
     ShellTypes, Walk
<1>7. Cleaning'
  BY <1>1, <1>2, <1>3 DEF Calm, Cleaning, Clean, GoesOn, Ends, Shell, Live, SoundTypes,
     ShellTypes, Walk
<1>8. ~Orphaned' => ~Orphaned
  BY <1>1, <1>2, <1>3 DEF Calm, Orphaned, Live, Shell
<1>9. ~Orphaned' => Strangers'
  BY <1>1, <1>2, <1>3, <1>8 DEF Calm, Strangers, Clean
<1>10. ~Orphaned' => OwnJob'
  BY <1>1, <1>2, <1>3, <1>8 DEF Calm, OwnJob, Past, GoesOn, Ends, Shell, Starting, NoScript,
     Clean, Live
<1>11. QED
  BY <1>4, <1>5, <1>6, <1>7, <1>9, <1>10 DEF Calm

-----------------------------------------------------------------------------
(* The steps of a subshell leave Home Assistant and its script alone.      *)

LEMMA StartProgramCalm ==
  ASSUME SoundTypes, SoundTypes', Calm, NEW t \in Token, StartProgram(t) PROVE Calm'
<1>0. (job # 0 => job \in Token) /\ (job = 0 <=> ha = "idle") /\ (answer = "busy" => ha = "start")
  BY SoundScriptConstants DEF Calm, Phase, SoundTypes, HomeTypes, Token
<1>1. UNCHANGED <<ha, job, used, answer, script, owner, state, stop_file>>
  BY DEF StartProgram, subKept, home, files
<1>2. /\ sub[t] = "begin" /\ sub'[t] = "record" /\ \A r \in Token \ {t} : sub'[r] = sub[r]
      /\ child'[t].alive /\ \A r \in Token \ {t} : child'[r] = child[r]
      /\ \A r \in Token \ {t} : cache'[r] = cache[r]
      /\ t \notin Downloads => child'[t].program = "aplay" /\ cache'[t] = cache[t]
      /\ device' \in {device, t} /\ (device # 0 => device' = device)
  BY DEF StartProgram, Move, SoundTypes, FileTypes, ShellTypes
<1>3. Phase'
  BY <1>1, <1>2, <1>0 DEF Calm, Phase
<1>4. \A r \in Token : Shell(r)'
  <2>1. ASSUME NEW r \in Token, r # t PROVE Shell(r)'
    BY <1>1, <1>2, <2>1 DEF Calm, Shell, Token
  <2>2. Shell(t)'
    BY <1>1, <1>2 DEF Calm, Shell, Live, Token
  <2>3. QED
    BY <2>1, <2>2
<1>5. Starting'
  BY <1>1, <1>2, <1>0 DEF Calm, Starting, Shell, Past, SoundTypes, ShellTypes, Walk
<1>6. Cleaning'
  BY <1>1, <1>2, <1>0 DEF Calm, Cleaning, Clean, Shell, Live, SoundTypes, ShellTypes, Walk
<1>7. ~Orphaned' => ~Orphaned
  BY <1>1, <1>2, <1>0 DEF Calm, Orphaned, Live, Shell
<1>8. ~Orphaned' => Strangers'
  BY <1>1, <1>2, <1>0, <1>7 DEF Calm, Strangers, Clean, Orphaned, Live
<1>9. ~Orphaned' => OwnJob'
  BY <1>1, <1>2, <1>0, <1>7 DEF Calm, OwnJob, Strangers, Clean, Past, Shell, Starting
<1>10. QED
  BY <1>3, <1>4, <1>5, <1>6, <1>8, <1>9 DEF Calm

LEMMA RecordOwnerCalm ==
  ASSUME SoundTypes, SoundTypes', Calm, NEW t \in Token, RecordOwner(t) PROVE Calm'
<1>0. (job # 0 => job \in Token) /\ (job = 0 <=> ha = "idle") /\ (answer = "busy" => ha = "start")
  BY SoundScriptConstants DEF Calm, Phase, SoundTypes, HomeTypes, Token
<1>1. UNCHANGED <<ha, job, used, answer, script, state, stop_file, cache, child, device>>
  BY DEF RecordOwner, subKept, home, files
<1>2. /\ sub[t] = "record" /\ sub'[t] = "report" /\ \A r \in Token \ {t} : sub'[r] = sub[r]
      /\ owner' = [token |-> t, program |-> child[t].program]
  BY DEF RecordOwner, Move, SoundTypes, FileTypes, ShellTypes
<1>3. Phase'
  BY <1>1, <1>2, <1>0 DEF Calm, Phase
<1>4. \A r \in Token : Shell(r)'
  BY <1>1, <1>2, <1>0, SoundScriptConstants DEF Calm, Shell, Live, Past, Phase, NoOwner,
     Token, SoundTypes, HomeTypes, ShellTypes, Walk
<1>5. Starting'
  BY <1>1, <1>2, <1>0 DEF Calm, Starting, Shell, Past, SoundTypes, ShellTypes, Walk
<1>6. Cleaning'
  BY <1>1, <1>2, <1>0 DEF Calm, Cleaning, Clean, Shell, Live, SoundTypes, ShellTypes, Walk
<1>7. ~Orphaned' => ~Orphaned
  BY <1>1, <1>2, <1>0 DEF Calm, Orphaned, Live, Shell
<1>8. ~Orphaned' => Strangers'
  BY <1>1, <1>2, <1>0, <1>7 DEF Calm, Strangers, Clean, Orphaned, Live
<1>9. ~Orphaned' => OwnJob'
  BY <1>1, <1>2, <1>0, <1>7 DEF Calm, OwnJob, Strangers, Clean, Past, Shell, Starting
<1>10. QED
  BY <1>3, <1>4, <1>5, <1>6, <1>8, <1>9 DEF Calm

LEMMA RecordStateCalm ==
  ASSUME SoundTypes, SoundTypes', Calm, NEW t \in Token, RecordState(t) PROVE Calm'
<1>0. (job # 0 => job \in Token) /\ (job = 0 <=> ha = "idle") /\ (answer = "busy" => ha = "start")
  BY SoundScriptConstants DEF Calm, Phase, SoundTypes, HomeTypes, Token
<1>1. UNCHANGED <<ha, job, used, answer, script, owner, stop_file, cache, child, device>>
  BY DEF RecordState, subKept, home, files
<1>2. /\ sub[t] = "report" /\ sub'[t] = "look" /\ \A r \in Token \ {t} : sub'[r] = sub[r]
      /\ state'[t] \in {"DOWNLOADING", "RUNNING"} /\ \A r \in Token \ {t} : state'[r] = state[r]
      /\ child[t].program # "wget" => state'[t] = "RUNNING"
  BY DEF RecordState, Move, SoundTypes, FileTypes, ShellTypes
<1>3. Phase'
  BY <1>1, <1>2, <1>0 DEF Calm, Phase
<1>4. \A r \in Token : Shell(r)'
  <2>1. ASSUME NEW r \in Token, r # t PROVE Shell(r)'
    BY <1>1, <1>2, <2>1 DEF Calm, Shell, Token
  <2>2. Shell(t)'
    BY <1>1, <1>2 DEF Calm, Shell, Live, Token
  <2>3. QED
    BY <2>1, <2>2
<1>5. Starting'
  BY <1>1, <1>2, <1>0 DEF Calm, Starting, Shell, Past, SoundTypes, ShellTypes, Walk
<1>6. Cleaning'
  BY <1>1, <1>2, <1>0 DEF Calm, Cleaning, Clean, Shell, Live, SoundTypes, ShellTypes, Walk
<1>7. ~Orphaned' => ~Orphaned
  BY <1>1, <1>2, <1>0 DEF Calm, Orphaned, Live, Shell
<1>8. ~Orphaned' => Strangers'
  BY <1>1, <1>2, <1>0, <1>7 DEF Calm, Strangers, Clean, Orphaned, Live
<1>9. ~Orphaned' => OwnJob'
  BY <1>1, <1>2, <1>0, <1>7 DEF Calm, OwnJob, Strangers, Clean, Past, Shell, Starting
<1>10. QED
  BY <1>3, <1>4, <1>5, <1>6, <1>8, <1>9 DEF Calm

LEMMA LookForStopCalm ==
  ASSUME SoundTypes, SoundTypes', Calm, NEW t \in Token, LookForStop(t) PROVE Calm'
<1>0. (job # 0 => job \in Token) /\ (job = 0 <=> ha = "idle") /\ (answer = "busy" => ha = "start")
  BY SoundScriptConstants DEF Calm, Phase, SoundTypes, HomeTypes, Token
<1>1. UNCHANGED <<ha, job, used, answer, script, owner, state, stop_file, cache>>
  BY DEF LookForStop, subKept, home, files
<1>2. /\ sub[t] = "look" /\ sub'[t] = "wait" /\ \A r \in Token \ {t} : sub'[r] = sub[r]
      /\ child'[t].program = child[t].program /\ (child'[t].alive => child[t].alive)
      /\ \A r \in Token \ {t} : child'[r] = child[r]
      /\ \/ device' = device /\ child'[t].alive = child[t].alive
         \/ device' = (IF device = t THEN 0 ELSE device)
  <2>1. sub[t] = "look" /\ sub'[t] = "wait" /\ \A r \in Token \ {t} : sub'[r] = sub[r]
    BY DEF LookForStop, Move, SoundTypes, ShellTypes
  <2>2. CASE ChildEnds(t, FALSE)
    BY <2>1, <2>2, ChildEndsMeans
  <2>3. CASE UNCHANGED <<child, device>>
    BY <2>1, <2>3
  <2>4. QED
    BY <2>2, <2>3 DEF LookForStop
<1>3. Phase'
  BY <1>1, <1>2, <1>0 DEF Calm, Phase
<1>4. \A r \in Token : Shell(r)'
  <2>1. ASSUME NEW r \in Token, r # t PROVE Shell(r)'
    BY <1>1, <1>2, <2>1 DEF Calm, Shell, Token
  <2>2. Shell(t)'
    BY <1>1, <1>2 DEF Calm, Shell, Live, Token
  <2>3. QED
    BY <2>1, <2>2
<1>5. Starting'
  BY <1>1, <1>2, <1>0 DEF Calm, Starting, Shell, Past, SoundTypes, ShellTypes, Walk
<1>6. Cleaning'
  BY <1>1, <1>2, <1>0 DEF Calm, Cleaning, Clean, Shell, Live, SoundTypes, ShellTypes, Walk
<1>7. ~Orphaned' => ~Orphaned
  BY <1>1, <1>2, <1>0 DEF Calm, Orphaned, Live, Shell
<1>8. ~Orphaned' => Strangers'
  BY <1>1, <1>2, <1>0, <1>7 DEF Calm, Strangers, Clean, Orphaned, Live
<1>9. ~Orphaned' => OwnJob'
  BY <1>1, <1>2, <1>0, <1>7 DEF Calm, OwnJob, Strangers, Clean, Past, Shell, Starting
<1>10. QED
  BY <1>3, <1>4, <1>5, <1>6, <1>8, <1>9 DEF Calm

LEMMA WaitedCalm ==
  ASSUME SoundTypes, SoundTypes', Calm, NEW t \in Token, Waited(t) PROVE Calm'
<1>0. (job # 0 => job \in Token) /\ (job = 0 <=> ha = "idle") /\ (answer = "busy" => ha = "start")
  BY SoundScriptConstants DEF Calm, Phase, SoundTypes, HomeTypes, Token
<1>1. UNCHANGED <<ha, job, used, answer, script, owner, state, stop_file, cache, child, device>>
  BY DEF Waited, subKept, home, files
<1>2. /\ sub[t] = "wait" /\ sub'[t] \in {"begin", "done"} /\ ~child[t].alive
      /\ \A r \in Token \ {t} : sub'[r] = sub[r]
      /\ child[t].program # "wget" => sub'[t] = "done"
  BY DEF Waited, Move, SoundTypes, FileTypes, ShellTypes
<1>3. Phase'
  BY <1>1, <1>2, <1>0 DEF Calm, Phase
<1>4. \A r \in Token : Shell(r)'
  BY <1>1, <1>2, <1>0, SoundScriptConstants DEF Calm, Shell, Live, Past, Phase, NoOwner,
     Token, SoundTypes, HomeTypes, ShellTypes, Walk
<1>5. Starting'
  BY <1>1, <1>2, <1>0 DEF Calm, Starting, Shell, Past, SoundTypes, ShellTypes, Walk
<1>6. Cleaning'
  BY <1>1, <1>2, <1>0 DEF Calm, Cleaning, Clean, Shell, Live, SoundTypes, ShellTypes, Walk
<1>7. ~Orphaned' => ~Orphaned
  BY <1>1, <1>2, <1>0 DEF Calm, Orphaned, Live, Shell
<1>8. ~Orphaned' => Strangers'
  BY <1>1, <1>2, <1>0, <1>7 DEF Calm, Strangers, Clean, Orphaned, Live
<1>9. ~Orphaned' => OwnJob'
  BY <1>1, <1>2, <1>0, <1>7 DEF Calm, OwnJob, Strangers, Clean, Past, Shell, Starting
<1>10. QED
  BY <1>3, <1>4, <1>5, <1>6, <1>8, <1>9 DEF Calm

LEMMA FinishStateCalm ==
  ASSUME SoundTypes, SoundTypes', Calm, NEW t \in Token, FinishState(t) PROVE Calm'
<1>0. (job # 0 => job \in Token) /\ (job = 0 <=> ha = "idle") /\ (answer = "busy" => ha = "start")
  BY SoundScriptConstants DEF Calm, Phase, SoundTypes, HomeTypes, Token
<1>1. UNCHANGED <<ha, job, used, answer, script, owner, stop_file, cache, child, device>>
  BY DEF FinishState, subKept, home, files
<1>2. /\ sub[t] = "done" /\ sub'[t] = "disown" /\ \A r \in Token \ {t} : sub'[r] = sub[r]
      /\ state'[t] = "DONE" /\ \A r \in Token \ {t} : state'[r] = state[r]
  BY DEF FinishState, Move, SoundTypes, FileTypes, ShellTypes
<1>3. Phase'
  BY <1>1, <1>2, <1>0 DEF Calm, Phase
<1>4. \A r \in Token : Shell(r)'
  BY <1>1, <1>2, <1>0, SoundScriptConstants DEF Calm, Shell, Live, Past, Phase, NoOwner,
     Token, SoundTypes, HomeTypes, ShellTypes, Walk
<1>5. Starting'
  BY <1>1, <1>2, <1>0 DEF Calm, Starting, Shell, Past, SoundTypes, ShellTypes, Walk
<1>6. Cleaning'
  BY <1>1, <1>2, <1>0 DEF Calm, Cleaning, Clean, Shell, Live, SoundTypes, ShellTypes, Walk
<1>7. ~Orphaned' => ~Orphaned
  BY <1>1, <1>2, <1>0 DEF Calm, Orphaned, Live, Shell
<1>8. ~Orphaned' => Strangers'
  BY <1>1, <1>2, <1>0, <1>7 DEF Calm, Strangers, Clean, Orphaned, Live
<1>9. ~Orphaned' => OwnJob'
  BY <1>1, <1>2, <1>0, <1>7 DEF Calm, OwnJob, Strangers, Clean, Past, Shell, Starting
<1>10. QED
  BY <1>3, <1>4, <1>5, <1>6, <1>8, <1>9 DEF Calm

LEMMA FinishOwnerCalm ==
  ASSUME SoundTypes, SoundTypes', Calm, NEW t \in Token, FinishOwner(t) PROVE Calm'
<1>0. (job # 0 => job \in Token) /\ (job = 0 <=> ha = "idle") /\ (answer = "busy" => ha = "start")
  BY SoundScriptConstants DEF Calm, Phase, SoundTypes, HomeTypes, Token
<1>1. UNCHANGED <<ha, job, used, answer, script, state, stop_file, cache, child, device>>
  BY DEF FinishOwner, subKept, home, files
<1>2. /\ sub[t] = "disown" /\ sub'[t] = "remove" /\ \A r \in Token \ {t} : sub'[r] = sub[r]
      /\ owner' = IF owner.token = t THEN NoOwner ELSE owner
  BY DEF FinishOwner, Move, SoundTypes, FileTypes, ShellTypes
<1>3. Phase'
  BY <1>1, <1>2, <1>0 DEF Calm, Phase
<1>4. \A r \in Token : Shell(r)'
  BY <1>1, <1>2, <1>0, SoundScriptConstants DEF Calm, Shell, Live, Past, Phase, NoOwner,
     Token, SoundTypes, HomeTypes, ShellTypes, Walk
<1>5. Starting'
  BY <1>1, <1>2, <1>0 DEF Calm, Starting, Shell, Past, SoundTypes, ShellTypes, Walk
<1>6. Cleaning'
  BY <1>1, <1>2, <1>0 DEF Calm, Cleaning, Clean, Shell, Live, SoundTypes, ShellTypes, Walk
<1>7. ~Orphaned' => ~Orphaned
  BY <1>1, <1>2, <1>0 DEF Calm, Orphaned, Live, Shell
<1>8. ~Orphaned' => Strangers'
  BY <1>1, <1>2, <1>0, <1>7 DEF Calm, Strangers, Clean, Orphaned, Live
<1>9. ~Orphaned' => OwnJob'
  BY <1>1, <1>2, <1>0, <1>7 DEF Calm, OwnJob, Strangers, Clean, Past, Shell, Starting
<1>10. QED
  BY <1>3, <1>4, <1>5, <1>6, <1>8, <1>9 DEF Calm

LEMMA FinishFilesCalm ==
  ASSUME SoundTypes, SoundTypes', Calm, NEW t \in Token, FinishFiles(t) PROVE Calm'
<1>0. (job # 0 => job \in Token) /\ (job = 0 <=> ha = "idle") /\ (answer = "busy" => ha = "start")
  BY SoundScriptConstants DEF Calm, Phase, SoundTypes, HomeTypes, Token
<1>1. UNCHANGED <<ha, job, used, answer, script, owner, state, child, device>>
  BY DEF FinishFiles, subKept, home, files
<1>2. /\ sub[t] = "remove" /\ sub'[t] = "gone" /\ \A r \in Token \ {t} : sub'[r] = sub[r]
      /\ ~stop_file'[t] /\ ~cache'[t]
      /\ \A r \in Token \ {t} : stop_file'[r] = stop_file[r] /\ cache'[r] = cache[r]
  BY DEF FinishFiles, Move, SoundTypes, FileTypes, ShellTypes
<1>3. Phase'
  BY <1>1, <1>2, <1>0 DEF Calm, Phase
<1>4. \A r \in Token : Shell(r)'
  BY SMTT(30), <1>1, <1>2, <1>0, SoundScriptConstants DEF Calm, Shell, Live, Past, Phase, NoOwner,
     Token, SoundTypes, HomeTypes, ShellTypes, Walk
<1>5. Starting'
  BY <1>1, <1>2, <1>0 DEF Calm, Starting, Shell, Past, SoundTypes, ShellTypes, Walk
<1>6. Cleaning'
  BY <1>1, <1>2, <1>0 DEF Calm, Cleaning, Clean, Shell, Live, SoundTypes, ShellTypes, Walk
<1>7. ~Orphaned' => ~Orphaned
  BY <1>1, <1>2, <1>0 DEF Calm, Orphaned, Live, Shell
<1>8. ~Orphaned' => Strangers'
  BY <1>1, <1>2, <1>0, <1>7 DEF Calm, Strangers, Clean, Orphaned, Live
<1>9. ~Orphaned' => OwnJob'
  BY <1>1, <1>2, <1>0, <1>7 DEF Calm, OwnJob, Strangers, Clean, Past, Shell, Starting
<1>10. QED
  BY <1>3, <1>4, <1>5, <1>6, <1>8, <1>9 DEF Calm

LEMMA ProgramEndsCalm ==
  ASSUME SoundTypes, SoundTypes', Calm, NEW t \in Token, ProgramEnds(t) PROVE Calm'
<1>0. (job # 0 => job \in Token) /\ (job = 0 <=> ha = "idle") /\ (answer = "busy" => ha = "start")
  BY SoundScriptConstants DEF Calm, Phase, SoundTypes, HomeTypes, Token
<1>1. UNCHANGED <<ha, job, used, answer, script, owner, state, stop_file, cache, sub>>
  BY DEF ProgramEnds, subKept, home, files
<1>2. /\ child'[t].program = child[t].program /\ ~child'[t].alive
      /\ \A r \in Token \ {t} : child'[r] = child[r]
      /\ device' = (IF device = t THEN 0 ELSE device)
  BY ChildEndsMeans DEF ProgramEnds
<1>3. Phase'
  BY <1>1, <1>2, <1>0 DEF Calm, Phase
<1>4. \A r \in Token : Shell(r)'
  BY <1>1, <1>2, <1>0, SoundScriptConstants DEF Calm, Shell, Live, Past, Phase, NoOwner,
     Token, SoundTypes, HomeTypes, ShellTypes, Walk
<1>5. Starting'
  BY <1>1, <1>2, <1>0 DEF Calm, Starting, Shell, Past, SoundTypes, ShellTypes, Walk
<1>6. Cleaning'
  BY <1>1, <1>2, <1>0 DEF Calm, Cleaning, Clean, Shell, Live, SoundTypes, ShellTypes, Walk
<1>7. ~Orphaned' => ~Orphaned
  BY <1>1, <1>2, <1>0 DEF Calm, Orphaned, Live, Shell
<1>8. ~Orphaned' => Strangers'
  BY <1>1, <1>2, <1>0, <1>7 DEF Calm, Strangers, Clean, Orphaned, Live
<1>9. ~Orphaned' => OwnJob'
  BY <1>1, <1>2, <1>0, <1>7 DEF Calm, OwnJob, Strangers, Clean, Past, Shell, Starting
<1>10. QED
  BY <1>3, <1>4, <1>5, <1>6, <1>8, <1>9 DEF Calm

-----------------------------------------------------------------------------
(* The steps of Home Assistant leave the hub alone.                        *)

\* A script begins.
Begins(op) ==
  /\ ha' = op /\ answer' = "none" /\ script'["ghost"] = NoScript
  /\ script'["fg"] = [op |-> op, token |-> job', at |-> FirstStep[op]]
  /\ script'["fg"] # NoScript /\ \A t \in Token : ~Finishing(t)

LEMMA FgBegins ==
  ASSUME SoundTypes, Calm, NEW op \in {"start", "stop", "cleanup"}, job' \in 0..Tokens, Run(op)
  PROVE  Begins(op)
BY RunMeans DEF Begins, Calm, Phase, NoScript

LEMMA PlayCalm ==
  ASSUME SoundTypes, SoundTypes', Calm, Play PROVE Calm'
<1>0. /\ job = 0 /\ job' = used + 1 /\ used' = used + 1 /\ job' \in Token /\ used \in Nat /\ job' # 0
      /\ job' \in 0..Tokens
  BY SoundScriptConstants DEF Play, Calm, Phase, SoundTypes, HomeTypes, Token
<1>1. UNCHANGED <<owner, state, stop_file, cache, sub, child, device>>
  BY DEF Play, files, shells
<1>2. /\ Begins("start") /\ script'["fg"].at = "owner"
      /\ sub[job'] = "none" /\ state[job'] = "none"
  <2>1. Begins("start")
    BY <1>0, FgBegins DEF Play
  <2>2. sub[job'] = "none"
    BY <1>0 DEF Calm, Shell
  <2>3. QED
    BY <1>0, <2>1, <2>2 DEF Begins, FirstStep, Calm, Shell
<1>3. Phase'
  BY <1>1, <1>2, <1>0 DEF Phase, Calm, Begins
<1>4. \A r \in Token : Shell(r)'
  BY <1>1, <1>2, <1>0 DEF Calm, Shell, Token
<1>5. Starting'
  BY <1>1, <1>2, <1>0 DEF Starting, Begins
<1>6. Cleaning'
  BY <1>1, <1>2, <1>0 DEF Cleaning, Begins
<1>7. ~Orphaned' => ~Orphaned
  BY <1>1, <1>2, <1>0 DEF Calm, Orphaned, Live, Shell
<1>8. ~Orphaned' => Strangers'
  BY <1>1, <1>2, <1>0, <1>7 DEF Calm, Strangers, Clean, Token
<1>9. ~Orphaned' => OwnJob'
  BY <1>1, <1>2, <1>0, <1>7 DEF OwnJob, Begins
<1>10. QED
  BY <1>3, <1>4, <1>5, <1>6, <1>8, <1>9 DEF Calm

LEMMA StartedCalm ==
  ASSUME SoundTypes, SoundTypes', Calm, Started PROVE Calm'
<1>0. job \in Token /\ job # 0 /\ ha = "start" /\ script["ghost"] = NoScript
  BY SoundScriptConstants DEF Started, Calm, Phase, SoundTypes, HomeTypes, Token
<1>1. UNCHANGED <<used, owner, state, stop_file, cache, sub, child, device>>
  BY DEF Started, files, shells
<1>2. \/ /\ ha' = "watch" /\ answer' = "none" /\ answer = "ok" /\ UNCHANGED <<job, script>>
      \/ /\ ha' = "idle" /\ job' = 0 /\ answer' = "none" /\ answer = "busy" /\ UNCHANGED script
  BY DEF Started, Release, Calm, Phase
<1>3. Phase'
  BY <1>1, <1>2, <1>0 DEF Phase, Calm, NoScript, SoundTypes, HomeTypes
<1>4. \A r \in Token : Shell(r)'
  BY <1>1, <1>2, <1>0 DEF Calm, Shell
<1>5. Starting'
  BY <1>1, <1>2, <1>0 DEF Calm, Starting, Shell, Past, NoScript
<1>6. Cleaning'
  BY <1>1, <1>2, <1>0 DEF Calm, Cleaning, Clean, Shell, Live
<1>7. ~Orphaned' => ~Orphaned
  <2>1. ASSUME NEW d \in (Token \cap Downloads) \ {job}, state[d] # "none" \/ sub[d] \in Live PROVE Orphaned'
    <3>1. d # job' /\ state'[d] = state[d] /\ sub'[d] = sub[d]
      BY <1>0, <1>1, <1>2 DEF Token
    <3>2. QED
      BY <2>1, <3>1 DEF Orphaned
  <2>2. QED
    BY <2>1 DEF Orphaned
<1>8. ~Orphaned' => Strangers'
  BY <1>1, <1>2, <1>0, <1>7 DEF Calm, Strangers, Clean, Orphaned, Live, Shell, Starting
<1>9. ~Orphaned' => OwnJob'
  BY <1>1, <1>2, <1>0, <1>7 DEF Calm, OwnJob, Strangers, Clean, Past, Shell, Starting, NoScript
<1>10. QED
  BY <1>3, <1>4, <1>5, <1>6, <1>8, <1>9 DEF Calm

LEMMA PolledCalm ==
  ASSUME SoundTypes, SoundTypes', Calm, Polled PROVE Calm'
<1>0. job \in Token /\ job # 0 /\ ha = "watch" /\ script["ghost"] = NoScript
  BY SoundScriptConstants DEF Polled, Calm, Phase, SoundTypes, HomeTypes, Token
<1>1. UNCHANGED <<used, owner, state, stop_file, cache, sub, child, device>>
  BY DEF Polled, files, shells
<1>2. /\ job' = job /\ Begins("cleanup") /\ script'["fg"].at = "check"
      /\ sub[job] # "none" /\ (job \notin Downloads => sub[job] = "gone")
  <2>1. job' = job /\ Begins("cleanup")
    BY <1>0, FgBegins DEF Polled, SoundTypes, HomeTypes
  <2>2. Reported(job) /\ ~Finishing(job)
    BY <1>0, <2>1 DEF Polled, Begins
  <2>3. sub[job] # "none" /\ state[job] \notin {"none", "PENDING"}
    BY <1>0 DEF Calm, Starting, Shell
  <2>4. ASSUME job \notin Downloads PROVE sub[job] = "gone"
    <3>1. sub[job] \in Past /\ child[job].program = "aplay"
      BY <1>0, <2>3, <2>4 DEF Calm, Starting, Shell, Past
    <3>2. state[job] = "DONE" => sub[job] \in {"disown", "remove", "gone"}
      BY <1>0, <2>4 DEF Calm, Shell
    <3>3. state[job] = "RUNNING" => ~child[job].alive
      BY <1>0, <2>2, <3>1 DEF Reported, Runs
    <3>4. state[job] \in {"RUNNING", "DONE"}
      BY <1>0, <2>3, <2>4 DEF Calm, Shell, SoundTypes, FileTypes
    <3>5. QED
      BY <2>2, <3>1, <3>2, <3>3, <3>4 DEF Finishing, Past
  <2>5. QED
    BY <2>1, <2>3, <2>4 DEF Begins, FirstStep
<1>3. Phase'
  BY <1>1, <1>2, <1>0 DEF Phase, Calm, Begins
<1>4. \A r \in Token : Shell(r)'
  BY <1>1, <1>2, <1>0 DEF Calm, Shell
<1>5. Starting'
  BY <1>1, <1>2, <1>0 DEF Starting, Begins, Past
<1>6. Cleaning'
  BY <1>1, <1>2, <1>0 DEF Calm, Cleaning, Begins
<1>7. ~Orphaned' => ~Orphaned
  BY <1>1, <1>2, <1>0 DEF Calm, Orphaned, Live, Shell
<1>8. ~Orphaned' => Strangers'
  BY <1>1, <1>2, <1>0, <1>7 DEF Calm, Strangers, Clean, Orphaned, Live, Shell, Starting
<1>9. ~Orphaned' => OwnJob'
  BY <1>1, <1>2, <1>0, <1>7 DEF Calm, OwnJob, Begins
<1>10. QED
  BY <1>3, <1>4, <1>5, <1>6, <1>8, <1>9 DEF Calm

LEMMA StopItCalm ==
  ASSUME SoundTypes, SoundTypes', Calm, StopIt PROVE Calm'
<1>0. job \in Token /\ job # 0 /\ ha = "watch" /\ script["ghost"] = NoScript
  BY SoundScriptConstants DEF StopIt, Calm, Phase, SoundTypes, HomeTypes, Token
<1>1. UNCHANGED <<used, owner, state, stop_file, cache, sub, child, device>>
  BY DEF StopIt, files, shells
<1>2. /\ job' = job /\ Begins("stop") /\ script'["fg"].at = "touch" /\ sub[job] # "none"
  <2>1. job' = job /\ Begins("stop")
    BY <1>0, FgBegins DEF StopIt, SoundTypes, HomeTypes
  <2>2. sub[job] # "none"
    BY <1>0 DEF Calm, Starting, Shell
  <2>3. QED
    BY <2>1, <2>2 DEF Begins, FirstStep
<1>3. Phase'
  BY <1>1, <1>2, <1>0 DEF Phase, Calm, Begins
<1>4. \A r \in Token : Shell(r)'
  BY <1>1, <1>2, <1>0 DEF Calm, Shell
<1>5. Starting'
  BY <1>1, <1>2, <1>0 DEF Calm, Starting, Begins
<1>6. Cleaning'
  BY <1>1, <1>2, <1>0 DEF Calm, Cleaning, Begins
<1>7. ~Orphaned' => ~Orphaned
  BY <1>1, <1>2, <1>0 DEF Calm, Orphaned, Live, Shell
<1>8. ~Orphaned' => Strangers'
  BY <1>1, <1>2, <1>0, <1>7 DEF Calm, Strangers, Clean, Orphaned, Live, Shell, Starting
<1>9. ~Orphaned' => OwnJob'
  BY <1>1, <1>2, <1>0, <1>7 DEF Calm, OwnJob, Begins
<1>10. QED
  BY <1>3, <1>4, <1>5, <1>6, <1>8, <1>9 DEF Calm

LEMMA StoppedCalm ==
  ASSUME SoundTypes, SoundTypes', Calm, Stopped PROVE Calm'
<1>0. job \in Token /\ job # 0 /\ ha = "stop" /\ script["ghost"] = NoScript
  BY SoundScriptConstants DEF Stopped, Calm, Phase, SoundTypes, HomeTypes, Token
<1>1. UNCHANGED <<used, owner, state, stop_file, cache, sub, child, device>>
  BY DEF Stopped, files, shells
<1>2. /\ job' = job /\ Begins("cleanup") /\ script'["fg"].at = "check"
      /\ sub[job] # "none" /\ (job \notin Downloads /\ ~Orphaned => sub[job] = "gone")
  <2>1. answer = "ok"
    BY <1>0 DEF Stopped, Calm, Phase
  <2>2. job' = job /\ Begins("cleanup")
    BY <1>0, <2>1, FgBegins DEF Stopped, SoundTypes, HomeTypes
  <2>3. sub[job] # "none"
    BY <1>0 DEF Calm, Starting
  <2>4. ASSUME job \notin Downloads, ~Orphaned PROVE sub[job] = "gone"
    <3>1. sub[job] \in Past /\ ~child[job].alive
      BY <1>0, <2>1, <2>4 DEF Calm, Starting, OwnJob
    <3>2. ~Finishing(job)
      BY <1>0, <2>2 DEF Begins
    <3>3. QED
      BY <3>1, <3>2 DEF Past, Finishing
  <2>5. QED
    BY <2>2, <2>3, <2>4 DEF Begins, FirstStep
<1>3. Phase'
  BY <1>1, <1>2, <1>0 DEF Phase, Calm, Begins
<1>4. \A r \in Token : Shell(r)'
  BY <1>1, <1>2, <1>0 DEF Calm, Shell
<1>5. Starting'
  BY <1>1, <1>2, <1>0 DEF Calm, Starting, Begins
<1>6. Cleaning'
  BY <1>1, <1>2, <1>0 DEF Calm, Cleaning, Begins
<1>7. ~Orphaned' => ~Orphaned
  BY <1>1, <1>2, <1>0 DEF Calm, Orphaned, Live, Shell
<1>8. ~Orphaned' => Strangers'
  BY <1>1, <1>2, <1>0, <1>7 DEF Calm, Strangers, Clean, Orphaned, Live, Shell, Starting
<1>9. ~Orphaned' => OwnJob'
  BY <1>1, <1>2, <1>0, <1>7 DEF Calm, OwnJob, Begins
<1>10. QED
  BY <1>3, <1>4, <1>5, <1>6, <1>8, <1>9 DEF Calm

LEMMA CleanedCalm ==
  ASSUME SoundTypes, SoundTypes', Calm, Cleaned PROVE Calm'
<1>0. job \in Token /\ job # 0 /\ ha = "cleanup" /\ script["ghost"] = NoScript
  BY SoundScriptConstants DEF Cleaned, Calm, Phase, SoundTypes, HomeTypes, Token
<1>1. UNCHANGED <<used, owner, state, stop_file, cache, sub, child, device>>
  BY DEF Cleaned, files, shells
<1>2. /\ ha' = "idle" /\ job' = 0 /\ answer' = "none" /\ UNCHANGED script /\ answer = "ok"
  BY <1>0 DEF Cleaned, Release, Calm, Phase
<1>3. Phase'
  BY <1>1, <1>2, <1>0 DEF Phase, Calm, NoScript, SoundTypes, HomeTypes
<1>4. \A r \in Token : Shell(r)'
  BY <1>1, <1>2, <1>0 DEF Calm, Shell
<1>5. Starting'
  BY <1>1, <1>2, <1>0 DEF Calm, Starting, Shell, Past, NoScript
<1>6. Cleaning'
  BY <1>1, <1>2, <1>0 DEF Calm, Cleaning, Clean, Shell, Live
<1>7. ~Orphaned' => ~Orphaned
  <2>1. ASSUME NEW d \in (Token \cap Downloads) \ {job}, state[d] # "none" \/ sub[d] \in Live PROVE Orphaned'
    <3>1. d # job' /\ state'[d] = state[d] /\ sub'[d] = sub[d]
      BY <1>0, <1>1, <1>2 DEF Token
    <3>2. QED
      BY <2>1, <3>1 DEF Orphaned
  <2>2. QED
    BY <2>1 DEF Orphaned
<1>8. ~Orphaned' => Strangers'
  <2> SUFFICES ASSUME ~Orphaned' PROVE Clean(job) /\ Strangers
    BY <1>0, <1>1, <1>2 DEF Strangers, Clean
  <2>1. Strangers
    BY <1>7 DEF Calm
  <2>2. CASE job \in Downloads
    <3>1. state[job] = "none" /\ sub[job] \notin Live
      BY <1>0, <1>1, <1>2, <2>2 DEF Orphaned
    <3>2. QED
      BY <1>0, <1>2, <2>1, <3>1 DEF Calm, Cleaning
  <2>3. CASE job \notin Downloads
    BY <1>0, <1>2, <1>7, <2>1, <2>3 DEF Calm, OwnJob
  <2>4. QED
    BY <2>2, <2>3
<1>9. ~Orphaned' => OwnJob'
  BY <1>1, <1>2, <1>0, <1>7 DEF Calm, OwnJob, Strangers, Clean, Past, Shell, Starting, NoScript
<1>10. QED
  BY <1>3, <1>4, <1>5, <1>6, <1>8, <1>9 DEF Calm

-----------------------------------------------------------------------------
(* The theorems.                                                           *)

LEMMA InitSoundTypes == Init => SoundTypes
<1> SUFFICES ASSUME Init PROVE SoundTypes
  OBVIOUS
<1> USE SoundScriptConstants DEF Init
<1>1. HomeTypes
  <2>1. watched \in BOOLEAN
    OBVIOUS
  <2>2. job \in 0..Tokens /\ used \in 0..Tokens /\ lost \in 0..MaxLost /\ kills \in 0..MaxKills
    OBVIOUS
  <2>3. QED
    BY <2>1, <2>2 DEF HomeTypes
<1>2. FileTypes
  BY DEF FileTypes, NoOwner, Programs
<1>3. ShellTypes
  BY DEF ShellTypes, Walk, NoChild, Programs
<1>4. script \in ScriptSet
  BY NoScriptType DEF ScriptSet
<1>5. QED
  BY <1>1, <1>2, <1>3, <1>4 DEF SoundTypes

LEMMA StepSoundTypes == SoundTypes /\ [Next]_vars => SoundTypes'
<1> SUFFICES ASSUME SoundTypes, [Next]_vars PROVE SoundTypes'
  OBVIOUS
<1>1. CASE UNCHANGED vars
  BY <1>1 DEF vars, home, files, shells, bounds, SoundTypes, HomeTypes, FileTypes, ShellTypes
<1>2. CASE Play \/ Home \/ StopIt \/ Lose
  BY <1>2, PlayTypes, StartedTypes, PolledTypes, StoppedTypes, CleanedTypes, StopItTypes,
     LoseTypes DEF Home
<1>3. ASSUME NEW s \in {"fg", "ghost"}, Script(s) PROVE SoundTypes'
  BY <1>3, CheckOwnerTypes, RemoveStaleOwnerTypes, CheckDeviceTypes, ForkTypes,
     AwaitRecordTypes, TouchStopTypes, KillOwnedTypes, RemoveOwnerTypes, CheckUnownedTypes,
     RemoveFilesTypes DEF Script
<1>4. ASSUME NEW t \in Token, Subshell(t) \/ ProgramEnds(t) \/ SubshellKilled(t) PROVE SoundTypes'
  BY <1>4, StartProgramTypes, RecordOwnerTypes, RecordStateTypes, LookForStopTypes,
     WaitedTypes, FinishStateTypes, FinishOwnerTypes, FinishFilesTypes, ProgramEndsTypes,
     SubshellKilledTypes DEF Subshell
<1>5. QED
  BY <1>1, <1>2, <1>3, <1>4 DEF Next

LEMMA InitCalm == Init => Calm
<1> SUFFICES ASSUME Init PROVE Calm
  OBVIOUS
<1> USE SoundScriptConstants DEF Init
<1>1. Phase
  BY DEF Phase
<1>2. \A t \in Token : Shell(t)
  BY DEF Shell, NoChild, NoOwner, Token
<1>3. Starting /\ Cleaning /\ OwnJob
  BY DEF Starting, Cleaning, OwnJob
<1>4. Strangers
  BY DEF Strangers, Clean
<1>5. QED
  BY <1>1, <1>2, <1>3, <1>4 DEF Calm

LEMMA StepCalm ==
  ASSUME ~Slow, SoundTypes, SoundTypes', Calm, ~Orphaned, Undisturbed, [Next]_vars
  PROVE  Calm' \/ ~Undisturbed'
<1>1. CASE UNCHANGED vars
  BY <1>1 DEF vars, home, files, shells, bounds, Calm, Phase, Shell, Starting, Cleaning, Clean,
              Orphaned, Strangers, OwnJob
<1>2. CASE Play \/ Home \/ StopIt
  BY <1>2, PlayCalm, StartedCalm, PolledCalm, StopItCalm, StoppedCalm, CleanedCalm DEF Home
<1>3. CASE Lose
  BY <1>3, SoundScriptConstants DEF Lose, Undisturbed
<1>4. ASSUME NEW s \in {"fg", "ghost"}, Script(s) PROVE Calm'
  BY <1>4, CheckOwnerCalm, RemoveStaleOwnerCalm, CheckDeviceCalm, ForkCalm, AwaitRecordCalm,
     TouchStopCalm, KillOwnedCalm, RemoveOwnerCalm, CheckUnownedCalm, RemoveFilesCalm DEF Script
<1>5. ASSUME NEW t \in Token, Subshell(t) \/ ProgramEnds(t) PROVE Calm'
  BY <1>5, StartProgramCalm, RecordOwnerCalm, RecordStateCalm, LookForStopCalm, WaitedCalm,
     FinishStateCalm, FinishOwnerCalm, FinishFilesCalm, ProgramEndsCalm DEF Subshell
<1>6. ASSUME NEW t \in Token, SubshellKilled(t) PROVE ~Undisturbed'
  BY <1>6, SoundScriptConstants DEF SubshellKilled, Undisturbed
<1>7. QED
  BY <1>1, <1>2, <1>3, <1>4, <1>5, <1>6 DEF Next

\* What was disturbed stays so: the bounds only go down.
LEMMA DisturbedStays == SoundTypes /\ ~Undisturbed /\ [Next]_vars => ~Undisturbed'
<1> SUFFICES ASSUME SoundTypes, ~Undisturbed, [Next]_vars PROVE ~Undisturbed'
  OBVIOUS
<1>1. lost' = lost \/ lost' = lost - 1
  BY DEF Next, vars, bounds, Play, Home, Started, Polled, Stopped, Cleaned, StopIt, Lose,
     Script, Subshell, scriptKept, subKept,
     CheckOwner, RemoveStaleOwner, CheckDevice, Fork, AwaitRecord, TouchStop, KillOwned,
     RemoveOwner, CheckUnowned, RemoveFiles, StartProgram, RecordOwner, RecordState,
     LookForStop, Waited, FinishState, FinishOwner, FinishFiles, ProgramEnds, SubshellKilled
<1>2. kills' = kills \/ kills' = kills - 1
  BY DEF Next, vars, bounds, Play, Home, Started, Polled, Stopped, Cleaned, StopIt, Lose,
     Script, Subshell, scriptKept, subKept,
     CheckOwner, RemoveStaleOwner, CheckDevice, Fork, AwaitRecord, TouchStop, KillOwned,
     RemoveOwner, CheckUnowned, RemoveFiles, StartProgram, RecordOwner, RecordState,
     LookForStop, Waited, FinishState, FinishOwner, FinishFiles, ProgramEnds, SubshellKilled
<1>3. QED
  BY <1>1, <1>2, SoundScriptConstants DEF Undisturbed, SoundTypes, HomeTypes

\* One script of the job in hand, orphans or not; and an orphan remains: its state
\* file is the business of no script, and its subshell ends by writing DONE.
LEMMA StepOneScript ==
  ASSUME SoundTypes, SoundTypes', OneScript, Undisturbed, [Next]_vars
  PROVE  (OneScript' /\ (Orphaned => Orphaned')) \/ ~Undisturbed'
<1>1. CASE UNCHANGED vars
  BY <1>1 DEF vars, home, files, shells, OneScript, Orphaned
<1>2. CASE Lose
  BY <1>2, SoundScriptConstants DEF Lose, Undisturbed
<1>3. CASE Play
  <2>1. job' = used' /\ used' = used + 1 /\ UNCHANGED <<state, sub>>
    BY <1>3 DEF Play, files, shells
  <2>2. script'["fg"].token = job' /\ answer' = "none" /\ script'["ghost"] = NoScript
    BY <1>3, <2>1, RunMeans DEF Play, OneScript, SoundTypes, HomeTypes
  <2>3. \A t \in Token : t > used' => t > used
    BY <2>1 DEF SoundTypes, HomeTypes, Token
  <2>4. OneScript'
    BY <2>1, <2>2, <2>3 DEF OneScript, SoundTypes, HomeTypes
  <2>5. \A t \in Token : t = job' => sub[t] = "none" /\ state[t] = "none"
    BY <2>1 DEF OneScript, SoundTypes, HomeTypes
  <2>6. Orphaned => Orphaned'
    BY <2>1, <2>5 DEF Orphaned, Live
  <2>7. QED
    BY <2>4, <2>6
<1>4. CASE Home \/ StopIt
  <2>1. job' \in {job, 0} /\ UNCHANGED <<used, state, sub>>
    BY <1>4 DEF Home, StopIt, Started, Polled, Stopped, Cleaned, Release, files, shells
  <2>2. /\ script'["ghost"] = NoScript
        /\ \/ script'["fg"].token = job' /\ answer' = "none"
           \/ script'["fg"] = NoScript
    <3>1. CASE ~(\E op \in {"stop", "cleanup"} : Run(op))
      BY <1>4, <3>1 DEF Home, StopIt, Started, Polled, Stopped, Cleaned, Release, OneScript
    <3>2. ASSUME NEW op \in {"stop", "cleanup"}, Run(op)
          PROVE  script'["ghost"] = NoScript /\ script'["fg"].token = job' /\ answer' = "none"
      BY <3>2, RunMeans DEF OneScript, SoundTypes, HomeTypes
    <3>3. QED
      BY <3>1, <3>2
  <2>3. OneScript'
    BY <2>1, <2>2, SoundScriptConstants DEF OneScript, SoundTypes, HomeTypes
  <2>4. Orphaned => Orphaned'
    BY <2>1, SoundScriptConstants DEF Orphaned, Token
  <2>5. QED
    BY <2>3, <2>4
<1>5. ASSUME NEW s \in {"fg", "ghost"}, Script(s) PROVE OneScript' /\ (Orphaned => Orphaned')
  <2>1. script[s].op # "none" /\ UNCHANGED <<job, used>>
    BY <1>5 DEF Script, At, scriptKept, CheckOwner, RemoveStaleOwner, CheckDevice, Fork, AwaitRecord,
       TouchStop, KillOwned, RemoveOwner, CheckUnowned, RemoveFiles
  <2>2. s = "fg" /\ script["fg"] # NoScript
    BY <2>1 DEF OneScript, NoScript
  <2>3. script["fg"].token = job /\ answer = "none" /\ script["ghost"] = NoScript
    BY <2>2 DEF OneScript
  <2>5. PICK at \in Places, reply \in {"ok", "busy", "failed"} : Goto(s, at) \/ Exit(s, reply)
    BY <1>5 DEF Script, Places, CheckOwner, RemoveStaleOwner, CheckDevice, Fork, AwaitRecord,
       TouchStop, KillOwned, RemoveOwner, CheckUnowned, RemoveFiles
  <2>6. /\ script'["ghost"] = NoScript
        /\ \/ script'["fg"].token = job /\ answer' = "none"
           \/ script'["fg"] = NoScript
    BY <2>2, <2>3, <2>5, GotoMeans, ExitMeans
  <2>7. \A t \in Token \ {job} : sub'[t] = sub[t] /\ state'[t] = state[t]
    BY <1>5, <2>2, <2>3 DEF Script, CheckOwner, RemoveStaleOwner, CheckDevice, Fork, AwaitRecord,
       TouchStop, KillOwned, RemoveOwner, CheckUnowned, RemoveFiles, files, SoundTypes,
       FileTypes, ShellTypes
  <2>8. OneScript'
    BY <2>1, <2>6, <2>7 DEF OneScript, SoundTypes, HomeTypes, Token
  <2>9. Orphaned => Orphaned'
    BY <2>1, <2>7 DEF Orphaned
  <2>10. QED
    BY <2>8, <2>9
<1>6. ASSUME NEW t \in Token, Subshell(t) \/ ProgramEnds(t) PROVE OneScript' /\ (Orphaned => Orphaned')
  <2>1. UNCHANGED <<job, used, script, answer>>
    BY <1>6 DEF Subshell, subKept, home, StartProgram, RecordOwner, RecordState, LookForStop, Waited,
       FinishState, FinishOwner, FinishFiles, ProgramEnds
  <2>2. /\ \A r \in Token \ {t} : sub'[r] = sub[r] /\ state'[r] = state[r]
        /\ sub'[t] # sub[t] \/ state'[t] # state[t] => sub[t] # "none"
    BY <1>6 DEF Subshell, Move, files, StartProgram, RecordOwner, RecordState, LookForStop, Waited,
       FinishState, FinishOwner, FinishFiles, ProgramEnds, SoundTypes, FileTypes, ShellTypes
  <2>3. state[t] # "none" \/ sub[t] \in Live => state'[t] # "none" \/ sub'[t] \in Live
    BY <1>6 DEF Subshell, Move, files, StartProgram, RecordOwner, RecordState, LookForStop, Waited,
       FinishState, FinishOwner, FinishFiles, ProgramEnds, SoundTypes, FileTypes, ShellTypes, Live
  <2>4. OneScript'
    BY <2>1, <2>2 DEF OneScript
  <2>5. Orphaned => Orphaned'
    BY <2>1, <2>2, <2>3 DEF Orphaned
  <2>6. QED
    BY <2>4, <2>5
<1>7. ASSUME NEW t \in Token, SubshellKilled(t) PROVE ~Undisturbed'
  BY <1>7, SoundScriptConstants DEF SubshellKilled, Undisturbed
<1>8. QED
  BY <1>1, <1>2, <1>3, <1>4, <1>5, <1>6, <1>7 DEF Next

\* The types of the module hold in every reachable state.
THEOREM ScriptTypesHold == Spec => []TypeOK
<1>1. SoundTypes => TypeOK
  BY DEF SoundTypes, HomeTypes, FileTypes, ShellTypes, ScriptSet, TypeOK, Programs, Walk
<1>2. QED
  BY InitSoundTypes, StepSoundTypes, <1>1, PTL DEF Spec

\* The inductive invariant, for a hub on which a subshell never takes longer than
\* start waits for it (sound.sh:73-78).
THEOREM SoundInvariant ==
  ASSUME ~Slow PROVE Spec => []SoundInv
<1>1. Init => SoundInv
  BY InitSoundTypes, InitCalm DEF SoundInv, OneScript, Init
<1>2. SoundInv /\ [Next]_vars => SoundInv'
  BY StepSoundTypes, StepOneScript, StepCalm, DisturbedStays DEF SoundInv
<1>3. QED
  BY <1>1, <1>2, PTL DEF Spec

LEMMA Unorphaned == NoneOrphaned => ~Orphaned
BY DEF NoneOrphaned, Orphaned, Live

\* A sound that plays is the job of Home Assistant.
THEOREM AlertIsOwned ==
  ASSUME ~Slow PROVE Spec => []OwnedSound
<1>1. SoundInv => OwnedSound
  <2> SUFFICES ASSUME SoundInv, Undisturbed, NoneOrphaned, device # 0, device # job PROVE FALSE
    BY DEF OwnedSound
  <2>1. device \in Token
    BY SoundScriptConstants DEF SoundInv, SoundTypes, ShellTypes, Token
  <2>2. sub[device] \in {"record", "report", "look", "wait"}
    BY <2>1, Unorphaned DEF SoundInv, Calm, Shell
  <2>3. Clean(device)
    BY <2>1, Unorphaned DEF SoundInv, Calm, Strangers
  <2>4. QED
    BY <2>2, <2>3 DEF Clean
<1>2. QED
  BY SoundInvariant, <1>1, PTL

\* Once nothing runs, no file of any alert is left on the hub.
THEOREM FilesAreRemoved ==
  ASSUME ~Slow PROVE Spec => []NothingLeft
<1>1. SoundInv => NothingLeft
  <2> SUFFICES ASSUME SoundInv, Undisturbed, NoneOrphaned, ha = "idle",
                      \A t \in Token : sub[t] \in {"none", "gone"}
               PROVE  owner = NoOwner /\ \A t \in Token : state[t] = "none" /\ ~stop_file[t] /\ ~cache[t]
    BY DEF NothingLeft
  <2>1. job = 0
    BY Unorphaned DEF SoundInv, Calm, Phase
  <2>2. \A t \in Token : Clean(t)
    BY <2>1, Unorphaned DEF SoundInv, Calm, Strangers, Token
  <2>3. owner.token \notin Token
    BY Unorphaned DEF SoundInv, Calm, Shell, Live
  <2>4. owner = NoOwner
    BY <2>3, SoundScriptConstants DEF SoundInv, SoundTypes, FileTypes, Token
  <2>5. QED
    BY <2>2, <2>4 DEF Clean
<1>2. QED
  BY SoundInvariant, <1>1, PTL

-----------------------------------------------------------------------------
(* The end that status reports of a stored alert is the exit of its player, *)
(* whatever is lost or killed, and however slow the subshell is.           *)

Early == {"owner", "disown", "device", "fork"}

\* Which scripts may run beside one another.
Link ==
  /\ (ha = "idle" <=> job = 0) /\ job <= used
  /\ \A s \in {"fg", "ghost"} : script[s] # NoScript =>
       script[s].op # "none" /\ script[s].token \in 1..used
  /\ script["fg"] # NoScript => /\ script["fg"].op = ha /\ script["fg"].token = job
                                /\ answer = "none"
  /\ script["ghost"] # NoScript /\ script["ghost"].token = job =>
       /\ ha # "watch"
       /\ ha = "start" => script["fg"] = NoScript /\ answer = "failed"
       /\ script["ghost"].op = "cleanup" => ha = "cleanup"

\* A script that has not forked yet finds no subshell of its token.
Unforked ==
  /\ \A s \in {"fg", "ghost"} :
       script[s].op = "start" /\ script[s].at \in Early => sub[script[s].token] = "none"
  /\ \A t \in Token : t > used => sub[t] = "none"

\* A start that was acknowledged has left its state file.
Told ==
  /\ ha = "start" /\ script["fg"] # NoScript /\ script["fg"].at = "wait" => state[job] # "none"
  /\ (ha = "start" /\ answer = "ok") \/ ha = "watch" => state[job] # "none"

\* What the state file of a stored alert says of its player.
Stored(t) ==
  t \notin Downloads =>
    /\ sub[t] \in {"none", "begin"} => child[t].program = "none" /\ ~child[t].alive
    /\ sub[t] \notin {"none", "begin", "gone"} => child[t].program = "aplay"
    /\ child[t].program # "wget" /\ state[t] # "DOWNLOADING"
    /\ sub[t] \in {"done", "disown", "remove"} => ~child[t].alive
    /\ state[t] = "RUNNING" => child[t].program = "aplay"
    /\ state[t] = "DONE" => ~child[t].alive /\ sub[t] \in {"disown", "remove", "gone"}

WatchInv == Link /\ Unforked /\ Told /\ \A t \in Token : Stored(t)


\* What a step of script s does to it.
Advances(s, at) ==
  /\ script'[s].op = script[s].op /\ script'[s].token = script[s].token
  /\ script'[s].at = at /\ answer' = answer
Leaves(s, reply) == script'[s] = NoScript /\ answer' = IF s = "fg" THEN reply ELSE answer

\* A step of a script keeps Link.
LEMMA ScriptLink ==
  ASSUME SoundTypes, WatchInv, NEW s \in {"fg", "ghost"}, script[s].op # "none",
         UNCHANGED <<ha, job, used>>,
         NEW at \in Places, NEW reply, Goto(s, at) \/ Exit(s, reply)
  PROVE  Link' /\ script[s] # NoScript /\ script[s].token \in Token
<1>1. script[s] # NoScript
  BY DEF NoScript
<1>2. script[s].token \in Token
  BY <1>1, SoundScriptConstants DEF WatchInv, Link, Token, SoundTypes, HomeTypes
<1>3. CASE Goto(s, at)
  <2>1. /\ script'[s].op = script[s].op /\ script'[s].token = script[s].token /\ answer' = answer
        /\ \A r \in {"fg", "ghost"} \ {s} : script'[r] = script[r]
    BY <1>3, GotoMeans
  <2>2. QED
    BY <1>1, <1>2, <2>1 DEF WatchInv, Link
<1>4. CASE Exit(s, reply)
  <2>1. /\ script'[s] = NoScript /\ answer' = (IF s = "fg" THEN reply ELSE answer)
        /\ \A r \in {"fg", "ghost"} \ {s} : script'[r] = script[r]
    BY <1>4, ExitMeans
  <2>2. CASE s = "fg"
    BY <1>1, <1>2, <2>1, <2>2 DEF WatchInv, Link
  <2>3. CASE s = "ghost"
    BY <1>1, <1>2, <2>1, <2>3 DEF WatchInv, Link
  <2>4. QED
    BY <2>2, <2>3
<1>5. QED
  BY <1>1, <1>2, <1>3, <1>4

LEMMA CheckOwnerWatch ==
  ASSUME SoundTypes, SoundTypes', WatchInv, NEW s \in {"fg", "ghost"}, CheckOwner(s) PROVE WatchInv'
<1>1. UNCHANGED <<ha, job, used, state, sub, child>> /\ script[s].op = "start" /\ script[s].at = "owner"
  BY DEF CheckOwner, At, scriptKept, files
<1>2. Goto(s, "device") \/ Goto(s, "disown") \/ Exit(s, "failed")
  BY DEF CheckOwner
<1>3. Link' /\ script[s] # NoScript /\ script[s].token \in Token
  BY <1>1, <1>2, ScriptLink DEF Places
<1>4. /\ \A r \in {"fg", "ghost"} \ {s} : script'[r] = script[r]
      /\ \/ Advances(s, "device")
         \/ Advances(s, "disown")
         \/ Leaves(s, "failed")
  BY <1>1, <1>2, GotoMeans, ExitMeans DEF Places, Advances, Leaves
<1>5. TRUE
  OBVIOUS
<1>6. Unforked'
  BY <1>1, <1>3, <1>4, <1>5 DEF Advances, Leaves, WatchInv, Link, Unforked, Early, NoScript,
     SoundTypes, HomeTypes
<1>7. Told'
  BY <1>1, <1>3, <1>4, <1>5 DEF Advances, Leaves, WatchInv, Link, Told, Stored, Unforked,
     NoScript, SoundTypes,
     HomeTypes
<1>8. \A t \in Token : Stored(t)'
  BY <1>1, <1>3, <1>4, <1>5 DEF Advances, Leaves, WatchInv, Stored, Unforked, Early
<1>9. QED
  BY <1>3, <1>6, <1>7, <1>8 DEF WatchInv

LEMMA RemoveStaleOwnerWatch ==
  ASSUME SoundTypes, SoundTypes', WatchInv, NEW s \in {"fg", "ghost"}, RemoveStaleOwner(s)
  PROVE  WatchInv'
<1>1. UNCHANGED <<ha, job, used, state, sub, child>> /\ script[s].op = "start" /\ script[s].at = "disown"
  BY DEF RemoveStaleOwner, At, scriptKept, files
<1>2. Goto(s, "device")
  BY DEF RemoveStaleOwner
<1>3. Link' /\ script[s] # NoScript /\ script[s].token \in Token
  BY <1>1, <1>2, ScriptLink DEF Places
<1>4. /\ \A r \in {"fg", "ghost"} \ {s} : script'[r] = script[r]
      /\ \/ Advances(s, "device")
  BY <1>1, <1>2, GotoMeans, ExitMeans DEF Places, Advances, Leaves
<1>5. TRUE
  OBVIOUS
<1>6. Unforked'
  BY <1>1, <1>3, <1>4, <1>5 DEF Advances, Leaves, WatchInv, Link, Unforked, Early, NoScript,
     SoundTypes, HomeTypes
<1>7. Told'
  BY <1>1, <1>3, <1>4, <1>5 DEF Advances, Leaves, WatchInv, Link, Told, Stored, Unforked,
     NoScript, SoundTypes,
     HomeTypes
<1>8. \A t \in Token : Stored(t)'
  BY <1>1, <1>3, <1>4, <1>5 DEF Advances, Leaves, WatchInv, Stored, Unforked, Early
<1>9. QED
  BY <1>3, <1>6, <1>7, <1>8 DEF WatchInv

LEMMA CheckDeviceWatch ==
  ASSUME SoundTypes, SoundTypes', WatchInv, NEW s \in {"fg", "ghost"}, CheckDevice(s)
  PROVE  WatchInv'
<1>1. UNCHANGED <<ha, job, used, state, sub, child>> /\ script[s].op = "start" /\ script[s].at = "device"
  BY DEF CheckDevice, At, scriptKept, files
<1>2. Goto(s, "fork") \/ Exit(s, "busy")
  BY DEF CheckDevice
<1>3. Link' /\ script[s] # NoScript /\ script[s].token \in Token
  BY <1>1, <1>2, ScriptLink DEF Places
<1>4. /\ \A r \in {"fg", "ghost"} \ {s} : script'[r] = script[r]
      /\ \/ Advances(s, "fork")
         \/ Leaves(s, "busy")
  BY <1>1, <1>2, GotoMeans, ExitMeans DEF Places, Advances, Leaves
<1>5. TRUE
  OBVIOUS
<1>6. Unforked'
  BY <1>1, <1>3, <1>4, <1>5 DEF Advances, Leaves, WatchInv, Link, Unforked, Early, NoScript,
     SoundTypes, HomeTypes
<1>7. Told'
  BY <1>1, <1>3, <1>4, <1>5 DEF Advances, Leaves, WatchInv, Link, Told, Stored, Unforked,
     NoScript, SoundTypes,
     HomeTypes
<1>8. \A t \in Token : Stored(t)'
  BY <1>1, <1>3, <1>4, <1>5 DEF Advances, Leaves, WatchInv, Stored, Unforked, Early
<1>9. QED
  BY <1>3, <1>6, <1>7, <1>8 DEF WatchInv

LEMMA ForkWatch ==
  ASSUME SoundTypes, SoundTypes', WatchInv, NEW s \in {"fg", "ghost"}, Fork(s) PROVE WatchInv'
<1>1. UNCHANGED <<ha, job, used, child>> /\ script[s].op = "start" /\ script[s].at = "fork"
  BY DEF Fork, At, scriptKept, files
<1>2. Goto(s, "wait")
  BY DEF Fork
<1>3. Link' /\ script[s] # NoScript /\ script[s].token \in Token
  BY <1>1, <1>2, ScriptLink DEF Places
<1>4. /\ \A r \in {"fg", "ghost"} \ {s} : script'[r] = script[r]
      /\ \/ Advances(s, "wait")
  BY <1>1, <1>2, GotoMeans, ExitMeans DEF Places, Advances, Leaves
<1>5. /\ state'[script[s].token] = "PENDING" /\ sub'[script[s].token] = "begin"
      /\ \A t \in Token \ {script[s].token} : state'[t] = state[t] /\ sub'[t] = sub[t]
  BY <1>3 DEF Fork, SoundTypes, FileTypes, ShellTypes
<1>6. Unforked'
  <2>1. ASSUME NEW r \in {"fg", "ghost"} \ {s}, script[r].op = "start" 
        PROVE script[r].token \in Token \ {script[s].token}
    <3>1. script[r] # NoScript
      BY <2>1 DEF NoScript
    <3>2. script[r].token \in Token
      BY <3>1, SoundScriptConstants DEF WatchInv, Link, Token, SoundTypes, HomeTypes
    <3>3. script[r].token # script[s].token
      BY <1>1, <1>3, <2>1, <3>1 DEF WatchInv, Link
    <3>4. QED
      BY <3>2, <3>3
  <2>2. \A r \in {"fg", "ghost"} : script'[r].op = "start" /\ script'[r].at \in Early
                                    => sub'[script'[r].token] = "none"
    BY <1>4, <1>5, <2>1 DEF Advances, Leaves, WatchInv, Unforked, Early
  <2>3. script[s].token <= used
    BY <1>3 DEF WatchInv, Link, SoundTypes, HomeTypes
  <2>4. \A t \in Token : t > used' => sub'[t] = "none"
    BY <1>1, <1>3, <1>5, <2>3 DEF WatchInv, Unforked, SoundTypes, HomeTypes, Token
  <2>5. QED
    BY <2>2, <2>4 DEF Unforked
<1>7. Told'
  <2>1. ha # "idle" => job \in Token
    BY SoundScriptConstants DEF WatchInv, Link, Token, SoundTypes, HomeTypes
  <2>2. state[job] # "none" /\ job \in Token => state'[job] # "none"
    BY <1>3, <1>5
  <2>3. CASE s = "fg"
    <3>1. script[s].token = job /\ ha = "start" /\ answer = "none" /\ answer' = answer
      BY <1>1, <1>3, <1>4, <2>3 DEF Advances, Leaves, WatchInv, Link
    <3>2. QED
      BY <1>1, <1>5, <3>1 DEF Told
  <2>4. CASE s = "ghost"
    BY <1>1, <1>4, <2>1, <2>2, <2>4 DEF Advances, Leaves, WatchInv, Told
  <2>5. QED
    BY <2>3, <2>4
<1>8. \A t \in Token : Stored(t)'
  BY <1>1, <1>3, <1>4, <1>5 DEF Advances, Leaves, WatchInv, Stored, Unforked, Early
<1>9. QED
  BY <1>3, <1>6, <1>7, <1>8 DEF WatchInv

LEMMA AwaitRecordWatch ==
  ASSUME SoundTypes, SoundTypes', WatchInv, NEW s \in {"fg", "ghost"}, AwaitRecord(s)
  PROVE  WatchInv'
<1>1. UNCHANGED <<ha, job, used, state, sub, child>> /\ script[s].op = "start" /\ script[s].at = "wait"
  BY DEF AwaitRecord, At, scriptKept, files
<1>2. Exit(s, "ok") \/ Exit(s, "failed")
  BY DEF AwaitRecord
<1>3. Link' /\ script[s] # NoScript /\ script[s].token \in Token
  BY <1>1, <1>2, ScriptLink DEF Places
<1>4. /\ \A r \in {"fg", "ghost"} \ {s} : script'[r] = script[r]
      /\ \/ Leaves(s, "ok")
         \/ Leaves(s, "failed")
  BY <1>1, <1>2, GotoMeans, ExitMeans DEF Places, Advances, Leaves
<1>5. TRUE
  OBVIOUS
<1>6. Unforked'
  BY <1>1, <1>3, <1>4, <1>5 DEF Advances, Leaves, WatchInv, Link, Unforked, Early, NoScript,
     SoundTypes, HomeTypes
<1>7. Told'
  BY <1>1, <1>3, <1>4, <1>5 DEF Advances, Leaves, WatchInv, Link, Told, Stored, Unforked,
     NoScript, SoundTypes,
     HomeTypes
<1>8. \A t \in Token : Stored(t)'
  BY <1>1, <1>3, <1>4, <1>5 DEF Advances, Leaves, WatchInv, Stored, Unforked, Early
<1>9. QED
  BY <1>3, <1>6, <1>7, <1>8 DEF WatchInv

LEMMA TouchStopWatch ==
  ASSUME SoundTypes, SoundTypes', WatchInv, NEW s \in {"fg", "ghost"}, TouchStop(s) PROVE WatchInv'
<1>1. UNCHANGED <<ha, job, used, state, sub, child>> /\ script[s].op = "stop" /\ script[s].at = "touch"
  BY DEF TouchStop, At, scriptKept, files
<1>2. Goto(s, "kill")
  BY DEF TouchStop
<1>3. Link' /\ script[s] # NoScript /\ script[s].token \in Token
  BY <1>1, <1>2, ScriptLink DEF Places
<1>4. /\ \A r \in {"fg", "ghost"} \ {s} : script'[r] = script[r]
      /\ \/ Advances(s, "kill")
  BY <1>1, <1>2, GotoMeans, ExitMeans DEF Places, Advances, Leaves
<1>5. TRUE
  OBVIOUS
<1>6. Unforked'
  BY <1>1, <1>3, <1>4, <1>5 DEF Advances, Leaves, WatchInv, Link, Unforked, Early, NoScript,
     SoundTypes, HomeTypes
<1>7. Told'
  BY <1>1, <1>3, <1>4, <1>5 DEF Advances, Leaves, WatchInv, Link, Told, Stored, Unforked,
     NoScript, SoundTypes,
     HomeTypes
<1>8. \A t \in Token : Stored(t)'
  BY <1>1, <1>3, <1>4, <1>5 DEF Advances, Leaves, WatchInv, Stored, Unforked, Early
<1>9. QED
  BY <1>3, <1>6, <1>7, <1>8 DEF WatchInv

LEMMA KillOwnedWatch ==
  ASSUME SoundTypes, SoundTypes', WatchInv, NEW s \in {"fg", "ghost"}, KillOwned(s) PROVE WatchInv'
<1>1. UNCHANGED <<ha, job, used, state, sub>> /\ script[s].op = "stop" /\ script[s].at = "kill"
  BY DEF KillOwned, At, scriptKept, files
<1>2. Goto(s, "disown")
  BY DEF KillOwned
<1>3. Link' /\ script[s] # NoScript /\ script[s].token \in Token
  BY <1>1, <1>2, ScriptLink DEF Places
<1>4. /\ \A r \in {"fg", "ghost"} \ {s} : script'[r] = script[r]
      /\ \/ Advances(s, "disown")
  BY <1>1, <1>2, GotoMeans, ExitMeans DEF Places, Advances, Leaves
<1>5. \A t \in Token : child'[t].program = child[t].program /\ (child'[t].alive => child[t].alive)
  <2>1. CASE owner.token = script[s].token /\ OwnerRuns
    <3>1. ChildEnds(script[s].token, FALSE)
      BY <2>1 DEF KillOwned
    <3>2. QED
      BY <1>3, <3>1, ChildEndsMeans
  <2>2. CASE ~(owner.token = script[s].token /\ OwnerRuns)
    BY <2>2 DEF KillOwned
  <2>3. QED
    BY <2>1, <2>2
<1>6. Unforked'
  BY <1>1, <1>3, <1>4, <1>5 DEF Advances, Leaves, WatchInv, Link, Unforked, Early, NoScript,
     SoundTypes, HomeTypes
<1>7. Told'
  BY <1>1, <1>3, <1>4, <1>5 DEF Advances, Leaves, WatchInv, Link, Told, Stored, Unforked,
     NoScript, SoundTypes,
     HomeTypes
<1>8. \A t \in Token : Stored(t)'
  BY <1>1, <1>3, <1>4, <1>5 DEF Advances, Leaves, WatchInv, Stored, Unforked, Early
<1>9. QED
  BY <1>3, <1>6, <1>7, <1>8 DEF WatchInv

LEMMA RemoveOwnerWatch ==
  ASSUME SoundTypes, SoundTypes', WatchInv, NEW s \in {"fg", "ghost"}, RemoveOwner(s)
  PROVE  WatchInv'
<1>1. UNCHANGED <<ha, job, used, state, sub, child>> /\ script[s].op = "stop" /\ script[s].at = "disown"
  BY DEF RemoveOwner, At, scriptKept, files
<1>2. Exit(s, "ok")
  BY DEF RemoveOwner
<1>3. Link' /\ script[s] # NoScript /\ script[s].token \in Token
  BY <1>1, <1>2, ScriptLink DEF Places
<1>4. /\ \A r \in {"fg", "ghost"} \ {s} : script'[r] = script[r]
      /\ \/ Leaves(s, "ok")
  BY <1>1, <1>2, GotoMeans, ExitMeans DEF Places, Advances, Leaves
<1>5. TRUE
  OBVIOUS
<1>6. Unforked'
  BY <1>1, <1>3, <1>4, <1>5 DEF Advances, Leaves, WatchInv, Link, Unforked, Early, NoScript,
     SoundTypes, HomeTypes
<1>7. Told'
  BY <1>1, <1>3, <1>4, <1>5 DEF Advances, Leaves, WatchInv, Link, Told, Stored, Unforked,
     NoScript, SoundTypes,
     HomeTypes
<1>8. \A t \in Token : Stored(t)'
  BY <1>1, <1>3, <1>4, <1>5 DEF Advances, Leaves, WatchInv, Stored, Unforked, Early
<1>9. QED
  BY <1>3, <1>6, <1>7, <1>8 DEF WatchInv

LEMMA CheckUnownedWatch ==
  ASSUME SoundTypes, SoundTypes', WatchInv, NEW s \in {"fg", "ghost"}, CheckUnowned(s)
  PROVE  WatchInv'
<1>1. UNCHANGED <<ha, job, used, state, sub, child>> /\ script[s].op = "cleanup" /\ script[s].at = "check"
  BY DEF CheckUnowned, At, scriptKept, files
<1>2. Goto(s, "remove") \/ Exit(s, "ok")
  BY DEF CheckUnowned
<1>3. Link' /\ script[s] # NoScript /\ script[s].token \in Token
  BY <1>1, <1>2, ScriptLink DEF Places
<1>4. /\ \A r \in {"fg", "ghost"} \ {s} : script'[r] = script[r]
      /\ \/ Advances(s, "remove")
         \/ Leaves(s, "ok")
  BY <1>1, <1>2, GotoMeans, ExitMeans DEF Places, Advances, Leaves
<1>5. TRUE
  OBVIOUS
<1>6. Unforked'
  BY <1>1, <1>3, <1>4, <1>5 DEF Advances, Leaves, WatchInv, Link, Unforked, Early, NoScript,
     SoundTypes, HomeTypes
<1>7. Told'
  BY <1>1, <1>3, <1>4, <1>5 DEF Advances, Leaves, WatchInv, Link, Told, Stored, Unforked,
     NoScript, SoundTypes,
     HomeTypes
<1>8. \A t \in Token : Stored(t)'
  BY <1>1, <1>3, <1>4, <1>5 DEF Advances, Leaves, WatchInv, Stored, Unforked, Early
<1>9. QED
  BY <1>3, <1>6, <1>7, <1>8 DEF WatchInv

LEMMA RemoveFilesWatch ==
  ASSUME SoundTypes, SoundTypes', WatchInv, NEW s \in {"fg", "ghost"}, RemoveFiles(s)
  PROVE  WatchInv'
<1>1. UNCHANGED <<ha, job, used, sub, child>> /\ script[s].op = "cleanup" /\ script[s].at = "remove"
  BY DEF RemoveFiles, At, scriptKept, files
<1>2. Exit(s, "ok")
  BY DEF RemoveFiles
<1>3. Link' /\ script[s] # NoScript /\ script[s].token \in Token
  BY <1>1, <1>2, ScriptLink DEF Places
<1>4. /\ \A r \in {"fg", "ghost"} \ {s} : script'[r] = script[r]
      /\ \/ Leaves(s, "ok")
  BY <1>1, <1>2, GotoMeans, ExitMeans DEF Places, Advances, Leaves
<1>5. /\ state'[script[s].token] = "none"
      /\ \A t \in Token \ {script[s].token} : state'[t] = state[t]
  BY <1>3 DEF RemoveFiles, SoundTypes, FileTypes
<1>6. Unforked'
  BY <1>1, <1>3, <1>4, <1>5 DEF Advances, Leaves, WatchInv, Link, Unforked, Early, NoScript,
     SoundTypes, HomeTypes
<1>7. Told'
  <2>1. ha # "idle" => job \in Token
    BY SoundScriptConstants DEF WatchInv, Link, Token, SoundTypes, HomeTypes
  <2>2. s = "fg" \/ script[s].token = job => ha = "cleanup"
    BY <1>1, <1>3 DEF WatchInv, Link
  <2>3. CASE ha = "cleanup"
    BY <1>1, <2>3 DEF Told
  <2>4. CASE s = "ghost" /\ script[s].token # job
    BY <1>1, <1>4, <1>5, <2>1, <2>4 DEF Advances, Leaves, WatchInv, Told
  <2>5. QED
    BY <2>2, <2>3, <2>4
<1>8. \A t \in Token : Stored(t)'
  BY <1>1, <1>3, <1>4, <1>5 DEF Advances, Leaves, WatchInv, Stored, Unforked, Early
<1>9. QED
  BY <1>3, <1>6, <1>7, <1>8 DEF WatchInv

LEMMA StartProgramWatch ==
  ASSUME SoundTypes, SoundTypes', WatchInv, NEW t \in Token, StartProgram(t) PROVE WatchInv'
<1>1. UNCHANGED <<ha, job, used, answer, script, state>>
  BY DEF StartProgram, subKept, home, files
<1>2. /\ sub[t] = "begin" /\ sub'[t] = "record" /\ \A r \in Token \ {t} : sub'[r] = sub[r] /\ child'[r] = child[r]
      /\ t \notin Downloads => child'[t].program = "aplay"
  BY DEF StartProgram, Move, SoundTypes, FileTypes, ShellTypes
<1>3. Link'
  BY <1>1 DEF WatchInv, Link
<1>4. Unforked'
  <2>1. ASSUME NEW r \in Token, sub[r] = "none" PROVE sub'[r] = "none"
    BY <1>1, <1>2, <2>1
  <2>2. ASSUME NEW s \in {"fg", "ghost"}, script[s].op = "start" PROVE script[s].token \in Token
    BY <2>2, SoundScriptConstants DEF WatchInv, Link, NoScript, Token, SoundTypes, HomeTypes
  <2>3. QED
    BY <1>1, <2>1, <2>2 DEF WatchInv, Unforked
<1>5. Told'
  <2>1. ha # "idle" => job \in Token
    BY SoundScriptConstants DEF WatchInv, Link, Token, SoundTypes, HomeTypes
  <2>2. QED
    BY <1>1, <1>2, <2>1 DEF WatchInv, Told
<1>6. \A r \in Token : Stored(r)'
  BY <1>1, <1>2 DEF WatchInv, Stored
<1>7. QED
  BY <1>3, <1>4, <1>5, <1>6 DEF WatchInv

LEMMA RecordOwnerWatch ==
  ASSUME SoundTypes, SoundTypes', WatchInv, NEW t \in Token, RecordOwner(t) PROVE WatchInv'
<1>1. UNCHANGED <<ha, job, used, answer, script, state, child>>
  BY DEF RecordOwner, subKept, home, files
<1>2. sub[t] = "record" /\ sub'[t] = "report" /\ \A r \in Token \ {t} : sub'[r] = sub[r]
  BY DEF RecordOwner, Move, SoundTypes, FileTypes, ShellTypes
<1>3. Link'
  BY <1>1 DEF WatchInv, Link
<1>4. Unforked'
  <2>1. ASSUME NEW r \in Token, sub[r] = "none" PROVE sub'[r] = "none"
    BY <1>1, <1>2, <2>1
  <2>2. ASSUME NEW s \in {"fg", "ghost"}, script[s].op = "start" PROVE script[s].token \in Token
    BY <2>2, SoundScriptConstants DEF WatchInv, Link, NoScript, Token, SoundTypes, HomeTypes
  <2>3. QED
    BY <1>1, <2>1, <2>2 DEF WatchInv, Unforked
<1>5. Told'
  <2>1. ha # "idle" => job \in Token
    BY SoundScriptConstants DEF WatchInv, Link, Token, SoundTypes, HomeTypes
  <2>2. QED
    BY <1>1, <1>2, <2>1 DEF WatchInv, Told
<1>6. \A r \in Token : Stored(r)'
  BY <1>1, <1>2 DEF WatchInv, Stored
<1>7. QED
  BY <1>3, <1>4, <1>5, <1>6 DEF WatchInv

LEMMA RecordStateWatch ==
  ASSUME SoundTypes, SoundTypes', WatchInv, NEW t \in Token, RecordState(t) PROVE WatchInv'
<1>1. UNCHANGED <<ha, job, used, answer, script, child>>
  BY DEF RecordState, subKept, home, files
<1>2. /\ sub[t] = "report" /\ sub'[t] = "look" /\ \A r \in Token \ {t} : sub'[r] = sub[r] /\ state'[r] = state[r]
      /\ state'[t] = (IF child[t].program = "wget" THEN "DOWNLOADING" ELSE "RUNNING")
  BY DEF RecordState, Move, SoundTypes, FileTypes, ShellTypes
<1>3. Link'
  BY <1>1 DEF WatchInv, Link
<1>4. Unforked'
  <2>1. ASSUME NEW r \in Token, sub[r] = "none" PROVE sub'[r] = "none"
    BY <1>1, <1>2, <2>1
  <2>2. ASSUME NEW s \in {"fg", "ghost"}, script[s].op = "start" PROVE script[s].token \in Token
    BY <2>2, SoundScriptConstants DEF WatchInv, Link, NoScript, Token, SoundTypes, HomeTypes
  <2>3. QED
    BY <1>1, <2>1, <2>2 DEF WatchInv, Unforked
<1>5. Told'
  <2>1. ha # "idle" => job \in Token
    BY SoundScriptConstants DEF WatchInv, Link, Token, SoundTypes, HomeTypes
  <2>2. QED
    BY <1>1, <1>2, <2>1 DEF WatchInv, Told
<1>6. \A r \in Token : Stored(r)'
  BY <1>1, <1>2 DEF WatchInv, Stored
<1>7. QED
  BY <1>3, <1>4, <1>5, <1>6 DEF WatchInv

LEMMA LookForStopWatch ==
  ASSUME SoundTypes, SoundTypes', WatchInv, NEW t \in Token, LookForStop(t) PROVE WatchInv'
<1>1. UNCHANGED <<ha, job, used, answer, script, state>>
  BY DEF LookForStop, subKept, home, files
<1>2. /\ sub[t] = "look" /\ sub'[t] = "wait" /\ \A r \in Token \ {t} : sub'[r] = sub[r]
      /\ \A r \in Token : child'[r].program = child[r].program /\ (child'[r].alive => child[r].alive)
  <2>1. sub[t] = "look" /\ sub'[t] = "wait" /\ \A r \in Token \ {t} : sub'[r] = sub[r]
    BY DEF LookForStop, Move, SoundTypes, ShellTypes
  <2>2. CASE ChildEnds(t, FALSE)
    BY <2>1, <2>2, ChildEndsMeans
  <2>3. CASE UNCHANGED <<child, device>>
    BY <2>1, <2>3
  <2>4. QED
    BY <2>2, <2>3 DEF LookForStop
<1>3. Link'
  BY <1>1 DEF WatchInv, Link
<1>4. Unforked'
  <2>1. ASSUME NEW r \in Token, sub[r] = "none" PROVE sub'[r] = "none"
    BY <1>1, <1>2, <2>1
  <2>2. ASSUME NEW s \in {"fg", "ghost"}, script[s].op = "start" PROVE script[s].token \in Token
    BY <2>2, SoundScriptConstants DEF WatchInv, Link, NoScript, Token, SoundTypes, HomeTypes
  <2>3. QED
    BY <1>1, <2>1, <2>2 DEF WatchInv, Unforked
<1>5. Told'
  <2>1. ha # "idle" => job \in Token
    BY SoundScriptConstants DEF WatchInv, Link, Token, SoundTypes, HomeTypes
  <2>2. QED
    BY <1>1, <1>2, <2>1 DEF WatchInv, Told
<1>6. \A r \in Token : Stored(r)'
  BY <1>1, <1>2 DEF WatchInv, Stored
<1>7. QED
  BY <1>3, <1>4, <1>5, <1>6 DEF WatchInv

LEMMA WaitedWatch ==
  ASSUME SoundTypes, SoundTypes', WatchInv, NEW t \in Token, Waited(t) PROVE WatchInv'
<1>1. UNCHANGED <<ha, job, used, answer, script, state, child>>
  BY DEF Waited, subKept, home, files
<1>2. /\ sub[t] = "wait" /\ ~child[t].alive /\ \A r \in Token \ {t} : sub'[r] = sub[r]
      /\ sub'[t] \in {"begin", "done"} /\ (child[t].program # "wget" => sub'[t] = "done")
  BY DEF Waited, Move, SoundTypes, FileTypes, ShellTypes
<1>3. Link'
  BY <1>1 DEF WatchInv, Link
<1>4. Unforked'
  <2>1. ASSUME NEW r \in Token, sub[r] = "none" PROVE sub'[r] = "none"
    BY <1>1, <1>2, <2>1
  <2>2. ASSUME NEW s \in {"fg", "ghost"}, script[s].op = "start" PROVE script[s].token \in Token
    BY <2>2, SoundScriptConstants DEF WatchInv, Link, NoScript, Token, SoundTypes, HomeTypes
  <2>3. QED
    BY <1>1, <2>1, <2>2 DEF WatchInv, Unforked
<1>5. Told'
  <2>1. ha # "idle" => job \in Token
    BY SoundScriptConstants DEF WatchInv, Link, Token, SoundTypes, HomeTypes
  <2>2. QED
    BY <1>1, <1>2, <2>1 DEF WatchInv, Told
<1>6. \A r \in Token : Stored(r)'
  BY <1>1, <1>2 DEF WatchInv, Stored
<1>7. QED
  BY <1>3, <1>4, <1>5, <1>6 DEF WatchInv

LEMMA FinishStateWatch ==
  ASSUME SoundTypes, SoundTypes', WatchInv, NEW t \in Token, FinishState(t) PROVE WatchInv'
<1>1. UNCHANGED <<ha, job, used, answer, script, child>>
  BY DEF FinishState, subKept, home, files
<1>2. /\ sub[t] = "done" /\ sub'[t] = "disown" /\ state'[t] = "DONE"
      /\ \A r \in Token \ {t} : sub'[r] = sub[r] /\ state'[r] = state[r]
  BY DEF FinishState, Move, SoundTypes, FileTypes, ShellTypes
<1>3. Link'
  BY <1>1 DEF WatchInv, Link
<1>4. Unforked'
  <2>1. ASSUME NEW r \in Token, sub[r] = "none" PROVE sub'[r] = "none"
    BY <1>1, <1>2, <2>1
  <2>2. ASSUME NEW s \in {"fg", "ghost"}, script[s].op = "start" PROVE script[s].token \in Token
    BY <2>2, SoundScriptConstants DEF WatchInv, Link, NoScript, Token, SoundTypes, HomeTypes
  <2>3. QED
    BY <1>1, <2>1, <2>2 DEF WatchInv, Unforked
<1>5. Told'
  <2>1. ha # "idle" => job \in Token
    BY SoundScriptConstants DEF WatchInv, Link, Token, SoundTypes, HomeTypes
  <2>2. QED
    BY <1>1, <1>2, <2>1 DEF WatchInv, Told
<1>6. \A r \in Token : Stored(r)'
  BY <1>1, <1>2 DEF WatchInv, Stored
<1>7. QED
  BY <1>3, <1>4, <1>5, <1>6 DEF WatchInv

LEMMA FinishOwnerWatch ==
  ASSUME SoundTypes, SoundTypes', WatchInv, NEW t \in Token, FinishOwner(t) PROVE WatchInv'
<1>1. UNCHANGED <<ha, job, used, answer, script, state, child>>
  BY DEF FinishOwner, subKept, home, files
<1>2. sub[t] = "disown" /\ sub'[t] = "remove" /\ \A r \in Token \ {t} : sub'[r] = sub[r]
  BY DEF FinishOwner, Move, SoundTypes, FileTypes, ShellTypes
<1>3. Link'
  BY <1>1 DEF WatchInv, Link
<1>4. Unforked'
  <2>1. ASSUME NEW r \in Token, sub[r] = "none" PROVE sub'[r] = "none"
    BY <1>1, <1>2, <2>1
  <2>2. ASSUME NEW s \in {"fg", "ghost"}, script[s].op = "start" PROVE script[s].token \in Token
    BY <2>2, SoundScriptConstants DEF WatchInv, Link, NoScript, Token, SoundTypes, HomeTypes
  <2>3. QED
    BY <1>1, <2>1, <2>2 DEF WatchInv, Unforked
<1>5. Told'
  <2>1. ha # "idle" => job \in Token
    BY SoundScriptConstants DEF WatchInv, Link, Token, SoundTypes, HomeTypes
  <2>2. QED
    BY <1>1, <1>2, <2>1 DEF WatchInv, Told
<1>6. \A r \in Token : Stored(r)'
  BY <1>1, <1>2 DEF WatchInv, Stored
<1>7. QED
  BY <1>3, <1>4, <1>5, <1>6 DEF WatchInv

LEMMA FinishFilesWatch ==
  ASSUME SoundTypes, SoundTypes', WatchInv, NEW t \in Token, FinishFiles(t) PROVE WatchInv'
<1>1. UNCHANGED <<ha, job, used, answer, script, state, child>>
  BY DEF FinishFiles, subKept, home, files
<1>2. sub[t] = "remove" /\ sub'[t] = "gone" /\ \A r \in Token \ {t} : sub'[r] = sub[r]
  BY DEF FinishFiles, Move, SoundTypes, FileTypes, ShellTypes
<1>3. Link'
  BY <1>1 DEF WatchInv, Link
<1>4. Unforked'
  <2>1. ASSUME NEW r \in Token, sub[r] = "none" PROVE sub'[r] = "none"
    BY <1>1, <1>2, <2>1
  <2>2. ASSUME NEW s \in {"fg", "ghost"}, script[s].op = "start" PROVE script[s].token \in Token
    BY <2>2, SoundScriptConstants DEF WatchInv, Link, NoScript, Token, SoundTypes, HomeTypes
  <2>3. QED
    BY <1>1, <2>1, <2>2 DEF WatchInv, Unforked
<1>5. Told'
  <2>1. ha # "idle" => job \in Token
    BY SoundScriptConstants DEF WatchInv, Link, Token, SoundTypes, HomeTypes
  <2>2. QED
    BY <1>1, <1>2, <2>1 DEF WatchInv, Told
<1>6. \A r \in Token : Stored(r)'
  BY <1>1, <1>2 DEF WatchInv, Stored
<1>7. QED
  BY <1>3, <1>4, <1>5, <1>6 DEF WatchInv

LEMMA ProgramEndsWatch ==
  ASSUME SoundTypes, SoundTypes', WatchInv, NEW t \in Token, ProgramEnds(t) PROVE WatchInv'
<1>1. UNCHANGED <<ha, job, used, answer, script, state, sub>>
  BY DEF ProgramEnds, subKept, home, files
<1>2. \A r \in Token : child'[r].program = child[r].program /\ (child'[r].alive => child[r].alive)
  BY ChildEndsMeans DEF ProgramEnds
<1>3. Link'
  BY <1>1 DEF WatchInv, Link
<1>4. Unforked'
  <2>1. ASSUME NEW r \in Token, sub[r] = "none" PROVE sub'[r] = "none"
    BY <1>1, <1>2, <2>1
  <2>2. ASSUME NEW s \in {"fg", "ghost"}, script[s].op = "start" PROVE script[s].token \in Token
    BY <2>2, SoundScriptConstants DEF WatchInv, Link, NoScript, Token, SoundTypes, HomeTypes
  <2>3. QED
    BY <1>1, <2>1, <2>2 DEF WatchInv, Unforked
<1>5. Told'
  <2>1. ha # "idle" => job \in Token
    BY SoundScriptConstants DEF WatchInv, Link, Token, SoundTypes, HomeTypes
  <2>2. QED
    BY <1>1, <1>2, <2>1 DEF WatchInv, Told
<1>6. \A r \in Token : Stored(r)'
  BY <1>1, <1>2 DEF WatchInv, Stored
<1>7. QED
  BY <1>3, <1>4, <1>5, <1>6 DEF WatchInv

LEMMA SubshellKilledWatch ==
  ASSUME SoundTypes, SoundTypes', WatchInv, NEW t \in Token, SubshellKilled(t) PROVE WatchInv'
<1>1. UNCHANGED <<ha, job, used, answer, script, state, child>>
  BY DEF SubshellKilled, subKept, home, files
<1>2. sub[t] \notin {"none", "gone"} /\ sub'[t] = "gone" /\ \A r \in Token \ {t} : sub'[r] = sub[r]
  BY DEF SubshellKilled, Move, SoundTypes, FileTypes, ShellTypes
<1>3. Link'
  BY <1>1 DEF WatchInv, Link
<1>4. Unforked'
  <2>1. ASSUME NEW r \in Token, sub[r] = "none" PROVE sub'[r] = "none"
    BY <1>1, <1>2, <2>1
  <2>2. ASSUME NEW s \in {"fg", "ghost"}, script[s].op = "start" PROVE script[s].token \in Token
    BY <2>2, SoundScriptConstants DEF WatchInv, Link, NoScript, Token, SoundTypes, HomeTypes
  <2>3. QED
    BY <1>1, <2>1, <2>2 DEF WatchInv, Unforked
<1>5. Told'
  <2>1. ha # "idle" => job \in Token
    BY SoundScriptConstants DEF WatchInv, Link, Token, SoundTypes, HomeTypes
  <2>2. QED
    BY <1>1, <1>2, <2>1 DEF WatchInv, Told
<1>6. \A r \in Token : Stored(r)'
  BY <1>1, <1>2 DEF WatchInv, Stored
<1>7. QED
  BY <1>3, <1>4, <1>5, <1>6 DEF WatchInv

LEMMA PlayWatch ==
  ASSUME SoundTypes, SoundTypes', WatchInv, Play PROVE WatchInv'
<1>1. UNCHANGED <<state, sub, child>>
  BY DEF Play, files, shells
<1>2. /\ ha # "idle" => job \in Token /\ job # 0
      /\ ha = "idle" => job = 0
  BY SoundScriptConstants DEF WatchInv, Link, Token, SoundTypes, HomeTypes
<1>3. /\ job' = used + 1 /\ used' = used + 1 /\ used \in 0..Tokens /\ job' \in Token /\ job' # 0
      /\ ha' = "start" /\ answer' = "none" /\ script["fg"] = NoScript
      /\ script'["fg"] = [op |-> "start", token |-> job', at |-> FirstStep["start"]]
      /\ script'["ghost"] = script["ghost"]
  <2>1. /\ job' = used + 1 /\ used' = used + 1 /\ used \in 0..Tokens /\ job' \in Token /\ job' # 0
        /\ job' \in 0..Tokens
    BY SoundScriptConstants DEF Play, Token, SoundTypes, HomeTypes
  <2>2. QED
    BY <2>1, RunMeans DEF Play
<1>4. Link'
  <2>1. script["ghost"] # NoScript => script["ghost"].token \in 1..used
    BY DEF WatchInv, Link
  <2>2. script["ghost"] # NoScript => script["ghost"].token # job'
    BY <1>3, <2>1
  <2>3. QED
    BY <1>3, <2>1, <2>2 DEF WatchInv, Link, NoScript
<1>5. Unforked'
  <2>1. sub[job'] = "none"
    BY <1>3 DEF WatchInv, Unforked
  <2>2. QED
    BY <1>1, <1>3, <2>1 DEF WatchInv, Unforked, FirstStep, Early, Token
<1>6. Told'
  BY <1>3 DEF Told, FirstStep
<1>7. \A t \in Token : Stored(t)'
  BY <1>1 DEF WatchInv, Stored
<1>8. QED
  BY <1>4, <1>5, <1>6, <1>7 DEF WatchInv

LEMMA StartedWatch ==
  ASSUME SoundTypes, SoundTypes', WatchInv, Started PROVE WatchInv'
<1>1. UNCHANGED <<used, state, sub, child>>
  BY DEF Started, files, shells
<1>2. /\ ha # "idle" => job \in Token /\ job # 0
      /\ ha = "idle" => job = 0
  BY SoundScriptConstants DEF WatchInv, Link, Token, SoundTypes, HomeTypes
<1>3. /\ ha = "start"
      /\ \/ /\ ha' = "watch" /\ answer' = "none" /\ answer = "ok" /\ UNCHANGED <<job, script>>
         \/ /\ ha' = "idle" /\ job' = 0 /\ answer' = "none" /\ answer = "busy" /\ UNCHANGED script
         \/ /\ job' = job /\ ha' = "stop" /\ answer' = "none" /\ script["fg"] = NoScript
            /\ script'["fg"] = [op |-> "stop", token |-> job, at |-> FirstStep["stop"]]
            /\ script'["ghost"] = script["ghost"]
  BY RunMeans DEF Started, Release, SoundTypes, HomeTypes
<1>4. Link'
  BY <1>1, <1>2, <1>3 DEF WatchInv, Link, NoScript, SoundTypes, HomeTypes, Token
<1>5. Unforked'
  BY <1>1, <1>3 DEF WatchInv, Unforked, FirstStep
<1>6. Told'
  BY <1>1, <1>2, <1>3 DEF WatchInv, Link, Told, NoScript
<1>7. \A t \in Token : Stored(t)'
  BY <1>1 DEF WatchInv, Stored
<1>8. QED
  BY <1>4, <1>5, <1>6, <1>7 DEF WatchInv

LEMMA PolledWatch ==
  ASSUME SoundTypes, SoundTypes', WatchInv, Polled PROVE WatchInv'
<1>1. UNCHANGED <<used, state, sub, child>>
  BY DEF Polled, files, shells
<1>2. /\ ha # "idle" => job \in Token /\ job # 0
      /\ ha = "idle" => job = 0
  BY SoundScriptConstants DEF WatchInv, Link, Token, SoundTypes, HomeTypes
<1>3. /\ ha = "watch"
      /\ job' = job /\ ha' = "cleanup" /\ answer' = "none" /\ script["fg"] = NoScript
      /\ script'["fg"] = [op |-> "cleanup", token |-> job, at |-> FirstStep["cleanup"]]
      /\ script'["ghost"] = script["ghost"]
  BY RunMeans DEF Polled, SoundTypes, HomeTypes
<1>4. Link'
  BY <1>1, <1>2, <1>3 DEF WatchInv, Link, NoScript, SoundTypes, HomeTypes, Token
<1>5. Unforked'
  BY <1>1, <1>3 DEF WatchInv, Unforked
<1>6. Told'
  BY <1>1, <1>2, <1>3 DEF WatchInv, Link, Told, NoScript
<1>7. \A t \in Token : Stored(t)'
  BY <1>1 DEF WatchInv, Stored
<1>8. QED
  BY <1>4, <1>5, <1>6, <1>7 DEF WatchInv

LEMMA StopItWatch ==
  ASSUME SoundTypes, SoundTypes', WatchInv, StopIt PROVE WatchInv'
<1>1. UNCHANGED <<used, state, sub, child>>
  BY DEF StopIt, files, shells
<1>2. /\ ha # "idle" => job \in Token /\ job # 0
      /\ ha = "idle" => job = 0
  BY SoundScriptConstants DEF WatchInv, Link, Token, SoundTypes, HomeTypes
<1>3. /\ ha = "watch"
      /\ job' = job /\ ha' = "stop" /\ answer' = "none" /\ script["fg"] = NoScript
      /\ script'["fg"] = [op |-> "stop", token |-> job, at |-> FirstStep["stop"]]
      /\ script'["ghost"] = script["ghost"]
  BY RunMeans DEF StopIt, SoundTypes, HomeTypes
<1>4. Link'
  BY <1>1, <1>2, <1>3 DEF WatchInv, Link, NoScript, SoundTypes, HomeTypes, Token
<1>5. Unforked'
  BY <1>1, <1>3 DEF WatchInv, Unforked
<1>6. Told'
  BY <1>1, <1>2, <1>3 DEF WatchInv, Link, Told, NoScript
<1>7. \A t \in Token : Stored(t)'
  BY <1>1 DEF WatchInv, Stored
<1>8. QED
  BY <1>4, <1>5, <1>6, <1>7 DEF WatchInv

LEMMA StoppedWatch ==
  ASSUME SoundTypes, SoundTypes', WatchInv, Stopped PROVE WatchInv'
<1>1. UNCHANGED <<used, state, sub, child>>
  BY DEF Stopped, files, shells
<1>2. /\ ha # "idle" => job \in Token /\ job # 0
      /\ ha = "idle" => job = 0
  BY SoundScriptConstants DEF WatchInv, Link, Token, SoundTypes, HomeTypes
<1>3. /\ ha = "stop"
      /\ \/ /\ ha' = "idle" /\ job' = 0 /\ answer' = "none" /\ answer # "none" /\ UNCHANGED script
         \/ /\ job' = job /\ ha' = "cleanup" /\ answer' = "none" /\ script["fg"] = NoScript
            /\ script'["fg"] = [op |-> "cleanup", token |-> job, at |-> FirstStep["cleanup"]]
            /\ script'["ghost"] = script["ghost"]
  BY RunMeans DEF Stopped, Release, SoundTypes, HomeTypes
<1>4. Link'
  BY <1>1, <1>2, <1>3 DEF WatchInv, Link, NoScript, SoundTypes, HomeTypes, Token
<1>5. Unforked'
  BY <1>1, <1>3 DEF WatchInv, Unforked
<1>6. Told'
  BY <1>1, <1>2, <1>3 DEF WatchInv, Link, Told, NoScript
<1>7. \A t \in Token : Stored(t)'
  BY <1>1 DEF WatchInv, Stored
<1>8. QED
  BY <1>4, <1>5, <1>6, <1>7 DEF WatchInv

LEMMA CleanedWatch ==
  ASSUME SoundTypes, SoundTypes', WatchInv, Cleaned PROVE WatchInv'
<1>1. UNCHANGED <<used, state, sub, child>>
  BY DEF Cleaned, files, shells
<1>2. /\ ha # "idle" => job \in Token /\ job # 0
      /\ ha = "idle" => job = 0
  BY SoundScriptConstants DEF WatchInv, Link, Token, SoundTypes, HomeTypes
<1>3. /\ ha = "cleanup"
      /\ ha' = "idle" /\ job' = 0 /\ answer' = "none" /\ answer # "none" /\ UNCHANGED script
  BY DEF Cleaned, Release
<1>4. Link'
  BY <1>1, <1>2, <1>3 DEF WatchInv, Link, NoScript, SoundTypes, HomeTypes, Token
<1>5. Unforked'
  BY <1>1, <1>2, <1>3 DEF WatchInv, Unforked, NoScript
<1>6. Told'
  BY <1>1, <1>2, <1>3 DEF WatchInv, Link, Told, NoScript
<1>7. \A t \in Token : Stored(t)'
  BY <1>1 DEF WatchInv, Stored
<1>8. QED
  BY <1>4, <1>5, <1>6, <1>7 DEF WatchInv

LEMMA LoseWatch ==
  ASSUME SoundTypes, SoundTypes', WatchInv, Lose PROVE WatchInv'
<1>1. UNCHANGED <<ha, job, used, state, sub, child>>
  BY DEF Lose, files, shells
<1>2. /\ ha # "idle" => job \in Token /\ job # 0
      /\ ha = "idle" => job = 0
  BY SoundScriptConstants DEF WatchInv, Link, Token, SoundTypes, HomeTypes
<1>3. /\ script["fg"] # NoScript /\ script'["fg"] = NoScript /\ answer' = "failed"
      /\ script'["ghost"] = script["ghost"] \/ script'["ghost"] = script["fg"]
  BY DEF Lose, SoundTypes, ScriptSet
<1>4. Link'
  <2>1. script["fg"].op \in Ops
    BY DEF SoundTypes, ScriptSet
  <2>2. /\ ha \in {"start", "stop", "cleanup"} /\ script["fg"].op = ha /\ script["fg"].token = job
        /\ script["fg"].token \in 1..used
    BY <1>3, <2>1 DEF WatchInv, Link, Ops, SoundTypes, HomeTypes
  <2>3. QED
    BY <1>1, <1>2, <1>3, <2>2 DEF WatchInv, Link
<1>5. Unforked'
  BY <1>1, <1>2, <1>3 DEF WatchInv, Unforked, NoScript
<1>6. Told'
  BY <1>1, <1>2, <1>3 DEF WatchInv, Link, Told, NoScript
<1>7. \A t \in Token : Stored(t)'
  BY <1>1 DEF WatchInv, Stored
<1>8. QED
  BY <1>4, <1>5, <1>6, <1>7 DEF WatchInv

LEMMA InitWatch == Init => WatchInv
<1> SUFFICES ASSUME Init PROVE WatchInv
  OBVIOUS
<1> USE SoundScriptConstants DEF Init
<1>1. Link
  BY DEF Link
<1>2. Unforked
  BY DEF Unforked, NoScript
<1>3. Told
  BY DEF Told
<1>4. \A t \in Token : Stored(t)
  BY DEF Stored, NoChild
<1>5. QED
  BY <1>1, <1>2, <1>3, <1>4 DEF WatchInv

LEMMA StepWatch == SoundTypes /\ SoundTypes' /\ WatchInv /\ [Next]_vars => WatchInv'
<1> SUFFICES ASSUME SoundTypes, SoundTypes', WatchInv, [Next]_vars PROVE WatchInv'
  OBVIOUS
<1>1. CASE UNCHANGED vars
  BY <1>1 DEF vars, home, files, shells, WatchInv, Link, Unforked, Told, Stored
<1>2. CASE Play \/ Home \/ StopIt \/ Lose
  BY <1>2, PlayWatch, StartedWatch, PolledWatch, StopItWatch, StoppedWatch, CleanedWatch,
     LoseWatch DEF Home
<1>3. ASSUME NEW s \in {"fg", "ghost"}, Script(s) PROVE WatchInv'
  BY <1>3, CheckOwnerWatch, RemoveStaleOwnerWatch, CheckDeviceWatch, ForkWatch,
     AwaitRecordWatch, TouchStopWatch, KillOwnedWatch, RemoveOwnerWatch, CheckUnownedWatch,
     RemoveFilesWatch DEF Script
<1>4. ASSUME NEW t \in Token, Subshell(t) \/ ProgramEnds(t) \/ SubshellKilled(t) PROVE WatchInv'
  BY <1>4, StartProgramWatch, RecordOwnerWatch, RecordStateWatch, LookForStopWatch,
     WaitedWatch, FinishStateWatch, FinishOwnerWatch, FinishFilesWatch, ProgramEndsWatch,
     SubshellKilledWatch DEF Subshell
<1>5. QED
  BY <1>1, <1>2, <1>3, <1>4 DEF Next

\* A step out of the watch of a stored alert finds its player ended.
LEMMA StepCompletion ==
  SoundTypes /\ WatchInv /\ [Next]_vars =>
    (ha = "watch" /\ ha' = "cleanup" /\ job \notin Downloads => ~child[job].alive)
<1> SUFFICES ASSUME SoundTypes, WatchInv, [Next]_vars, ha = "watch", ha' = "cleanup", job \notin Downloads
             PROVE  ~child[job].alive
  OBVIOUS
<1>1. job \in Token
  BY SoundScriptConstants DEF WatchInv, Link, Token, SoundTypes, HomeTypes
<1>2. Reported(job)
  <2>1. ~UNCHANGED ha
    OBVIOUS
  <2>2. Play \/ Home \/ StopIt
    BY <2>1 DEF Next, vars, home, Lose, Script, Subshell, scriptKept, subKept, ProgramEnds,
       SubshellKilled,
       CheckOwner, RemoveStaleOwner, CheckDevice, Fork, AwaitRecord, TouchStop, KillOwned,
       RemoveOwner, CheckUnowned, RemoveFiles, StartProgram, RecordOwner, RecordState,
       LookForStop, Waited, FinishState, FinishOwner, FinishFiles
  <2>3. QED
    BY <2>2 DEF Play, Home, Started, Polled, Stopped, Cleaned, StopIt, Run
<1>3. state[job] # "none" /\ Stored(job)
  BY <1>1 DEF WatchInv, Told
<1>4. QED
  BY <1>2, <1>3 DEF Reported, Stored, Runs

\* The end of a stored alert that status reports is the exit of its player, with lost
\* connections, ghosts, killed and slow subshells.
THEOREM EndIsExit == Spec => CompletionIsExit
<1>1. SoundTypes /\ WatchInv /\ [Next]_vars => SoundTypes' /\ WatchInv'
  BY StepSoundTypes, StepWatch
<1>2. QED
  BY InitSoundTypes, InitWatch, <1>1, StepCompletion, PTL DEF Spec, CompletionIsExit
=============================================================================
