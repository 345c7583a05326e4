------------------------------ MODULE Checkpoint ------------------------------
(***************************************************************************)
(* Saving a learner, networks and replay memory, and restarting it from    *)
(* the files.                                                              *)
(*                                                                         *)
(* LearnerLoop takes a save for one step.  Here it is taken apart: the     *)
(* main thread replaces the files of the networks and of the scaling one   *)
(* after the other, copies the counters one by one, without dataset_mutex, *)
(* while handlers push episodes onto the data set and count them (in steps *)
(* of their own, too, but under the mutex); then it writes the episodes,   *)
(* and at last replaces the two files of the previous save.  The process   *)
(* may crash anywhere.                                                     *)
(*                                                                         *)
(* An episode is its number of transitions, a vector of parameters the     *)
(* number of updates it has had.                                           *)
(***************************************************************************)
EXTENDS Integers, Sequences, SequencesExt, FiniteSetsExt

CONSTANTS
  Handlers,   \* threads that push episodes
  Lengths,    \* numbers of transitions of an episode
  MaxTotObs,  \* maxTotObsNum_local
  nParams,    \* vectors with a file of their own: weights and moments of each network
  MaxPushed,  \* bound: episodes pushed
  MaxSteps,   \* bound: gradient steps, with a save in each
  MaxCrashes  \* bound: crashes

Free == "free"

ASSUME CheckpointAssumption ==
  /\ "main" \notin Handlers /\ Free \notin Handlers
  /\ Lengths \subseteq Nat \ {0} /\ MaxTotObs \in Nat \ {0}
  /\ nParams \in Nat \ {0}
  /\ MaxPushed \in Nat /\ MaxSteps \in Nat /\ MaxCrashes \in Nat

VARIABLES
  NDEBUG,        \* the build leaves assertions out
  episodes,      \* the data set
  nEpisodes,     \* counters.nEpisodes
  nTransitions,  \* counters.nTransitions
  nGradSteps,    \* counters.nGradSteps
  dataset_mutex, \* handler or "main" that holds it
  hpc, hndata,   \* next operation of a handler, and its episode
  mpc,           \* next operation of the main thread
  params,        \* weights and moments of the networks
  nSaved,        \* how many of them the save has written
  nStored,       \* what save has read: episodes, observations
  backup,        \* the backup files of the replay memory
  files,         \* its files that a restart reads
  paramFiles,    \* and those of the networks
  pushed, crashes

memVars  == <<episodes, nEpisodes, nTransitions>>
hVars    == <<hpc, hndata, pushed>>
saveVars == <<nStored, backup>>
netVars  == <<NDEBUG, params, nSaved, paramFiles>>
vars == <<memVars, nGradSteps, dataset_mutex, hVars, mpc, saveVars, files, netVars, crashes>>

NoFile    == [present |-> FALSE]
EmptyFile == [present |-> TRUE, empty |-> TRUE]
Total(s) == FoldSeq(LAMBDA n, sum : n + sum, 0, s)

------------------------------------------------------------------------------
(* pushBackEpisode, under dataset_mutex                                    *)

Push(h, ndata) ==
  /\ hpc[h] = "idle" /\ mpc # "dead" /\ pushed < MaxPushed
  /\ episodes' = Append(episodes, ndata)
  /\ hndata' = [hndata EXCEPT ![h] = ndata]
  /\ hpc' = [hpc EXCEPT ![h] = "countEpisode"]
  /\ pushed' = pushed + 1
  /\ UNCHANGED <<nEpisodes, nTransitions, nGradSteps, mpc, saveVars, files, netVars, crashes>>

\* Mutant of LockAndPush: the data set is not locked.
PushUnlocked(h, ndata) == Push(h, ndata) /\ UNCHANGED dataset_mutex

LockAndPush(h, ndata) ==
  /\ dataset_mutex = Free
  /\ dataset_mutex' = h
  /\ Push(h, ndata)

CountEpisode(h) ==
  /\ hpc[h] = "countEpisode"
  /\ nEpisodes' = nEpisodes + 1
  /\ hpc' = [hpc EXCEPT ![h] = "countTransitions"]
  /\ UNCHANGED <<episodes, nTransitions, nGradSteps, dataset_mutex, hndata, pushed, mpc,
                 saveVars, files, netVars, crashes>>

CountTransitions(h) ==
  /\ hpc[h] = "countTransitions"
  /\ nTransitions' = nTransitions + hndata[h]
  /\ hpc' = [hpc EXCEPT ![h] = "idle"]
  /\ hndata' = [hndata EXCEPT ![h] = 0]
  /\ dataset_mutex' = Free
  /\ UNCHANGED <<episodes, nEpisodes, nGradSteps, pushed, mpc, saveVars, files, netVars, crashes>>

------------------------------------------------------------------------------
(* A gradient step: applyEpisodesRemovalAlgo, then save                    *)

MainGoto(from, to) == mpc = from /\ mpc' = to

LockForRemoval ==
  /\ MainGoto("step", "removal")
  /\ episodes # <<>> /\ nGradSteps < MaxSteps
  /\ dataset_mutex = Free /\ dataset_mutex' = "main"
  /\ UNCHANGED <<memVars, nGradSteps, hVars, saveVars, files, netVars, crashes>>

\* Mutant of Removable: episodes are counted, not their transitions.
RemovableMany(i) == Len(episodes) > 1

Removable(i) == nTransitions - (episodes[i] + 1) > MaxTotObs

\* Sorting may bring any episode to the back.
removeBackEpisode(i) ==
  /\ mpc = "removal" /\ Removable(i)
  /\ episodes' = RemoveAt(episodes, i)
  /\ nEpisodes' = nEpisodes - 1
  /\ nTransitions' = nTransitions - episodes[i]
  /\ UNCHANGED <<nGradSteps, dataset_mutex, hVars, mpc, saveVars, files, netVars, crashes>>

RemovalDone ==
  /\ MainGoto("removal", "openParams")
  /\ \E i \in DOMAIN episodes : ~Removable(i)
  /\ dataset_mutex' = Free
  /\ UNCHANGED <<memVars, nGradSteps, hVars, saveVars, files, netVars, crashes>>

\* Network::save writes a backup and copies it onto the file, which is emptied, then filled.

OpenParams ==
  /\ MainGoto("openParams", "fillParams")
  /\ paramFiles' = [paramFiles EXCEPT ![nSaved + 1] = EmptyFile]
  /\ UNCHANGED <<NDEBUG, memVars, nGradSteps, dataset_mutex, hVars, params, nSaved, saveVars,
                 files, crashes>>

FillParams ==
  /\ MainGoto("fillParams", IF nSaved + 1 = nParams THEN "openScaling" ELSE "openParams")
  /\ paramFiles' = [paramFiles EXCEPT ![nSaved + 1] =
                      [present |-> TRUE, updates |-> params[nSaved + 1]]]
  /\ nSaved' = (nSaved + 1) % nParams
  /\ UNCHANGED <<NDEBUG, memVars, nGradSteps, dataset_mutex, hVars, params, saveVars,
                 files, crashes>>

ReadEpisodes ==
  /\ MainGoto("readEpisodes", "readTransitions")
  /\ nStored' = [nStored EXCEPT !.eps = nEpisodes]
  /\ UNCHANGED <<memVars, nGradSteps, dataset_mutex, hVars, backup, files, netVars, crashes>>

ReadTransitions ==
  /\ MainGoto("readTransitions", "writeStatus")
  /\ nStored' = [nStored EXCEPT !.obs = nTransitions]
  /\ UNCHANGED <<memVars, nGradSteps, dataset_mutex, hVars, backup, files, netVars, crashes>>

WriteStatus ==
  /\ MainGoto("writeStatus", "writeData")
  /\ backup' = [backup EXCEPT !.status =
                  [present |-> TRUE, nStoredEps |-> nStored.eps, nStoredObs |-> nStored.obs,
                   nGradSteps |-> nGradSteps + 1]]
  /\ UNCHANGED <<memVars, nGradSteps, dataset_mutex, hVars, nStored, files, netVars, crashes>>

\* Mutants of Written: all episodes there are when the file is written, or one
\* too few.
WrittenAll == episodes
WrittenLess == SubSeq(episodes, 1, nStored.eps - 1)

\* The first nStoredEpisodes of the vector: others are only added behind them.
Written == SubSeq(episodes, 1, nStored.eps)

WriteData ==
  /\ MainGoto("writeData", "openStatus")
  /\ backup' = [backup EXCEPT !.data = [present |-> TRUE, eps |-> Written]]
  /\ UNCHANGED <<memVars, nGradSteps, dataset_mutex, hVars, nStored, files, netVars, crashes>>

\* copyFile opens its destination for writing, which empties it, then fills it.
Copy(file, from, full, to, content) ==
  \/ /\ MainGoto(from, full)
     /\ files' = [files EXCEPT ![file] = EmptyFile]
     /\ UNCHANGED <<memVars, nGradSteps, dataset_mutex, hVars, saveVars, netVars, crashes>>
  \/ /\ MainGoto(full, to)
     /\ files' = [files EXCEPT ![file] = content]
     /\ UNCHANGED <<memVars, nGradSteps, dataset_mutex, hVars, saveVars, netVars, crashes>>

CopyScaling == Copy("scaling", "openScaling", "fillScaling", "readEpisodes", [present |-> TRUE])
CopyFiles == \/ Copy("status", "openStatus", "fillStatus", "openData", backup.status)
             \/ Copy("data", "openData", "fillData", "complete", backup.data)

\* The gradients are applied to the networks.
globalGradCounterUpdate ==
  /\ MainGoto("complete", "step")
  /\ nGradSteps' = nGradSteps + 1
  /\ params' = [i \in 1 .. nParams |-> params[i] + 1]
  /\ UNCHANGED <<NDEBUG, memVars, dataset_mutex, hVars, nSaved, saveVars, files, paramFiles,
                 crashes>>

------------------------------------------------------------------------------
(* Crash and restart                                                       *)

Readable(f) == f.present /\ "empty" \notin DOMAIN f

\* A missing file of the replay memory means that it starts afresh, with the networks
\* that there are.  Empty files of networks and scaling abort, and so does a data file of
\* fewer episodes than the status file announces; of more episodes than that the first
\* ones are read.  That nothing was read from the status file is only asserted.
FreshStart == [ok |-> TRUE, eps |-> <<>>, nEps |-> 0, nObs |-> 0, steps |-> 0]
Announced == files.status.nStoredEps
Found == IF Readable(files.data) THEN files.data.eps ELSE <<>>

\* Mutant of FirstFound: all the episodes of the file are read.
AllFound == Found

FirstFound == SubSeq(Found, 1, Announced)

LoadedMemory ==
  CASE ~files.status.present \/ ~files.data.present -> FreshStart
    [] files.status.present /\ files.data.present /\ ~Readable(files.status) /\ NDEBUG ->
         FreshStart
    [] files.status.present /\ files.data.present /\ Readable(files.status)
         /\ Len(Found) >= Announced ->
         [ok |-> TRUE, eps |-> FirstFound, nEps |-> Announced,
          nObs |-> files.status.nStoredObs, steps |-> files.status.nGradSteps]
    [] OTHER -> [FreshStart EXCEPT !.ok = FALSE]

ParamsReadable == files.scaling # EmptyFile /\ \A i \in 1 .. nParams : paramFiles[i] # EmptyFile
Loaded == IF ParamsReadable THEN LoadedMemory ELSE [FreshStart EXCEPT !.ok = FALSE]

\* Mutant of LoadedParams: the moments are not read.
LoadedWeights == [i \in 1 .. nParams |->
  IF i = 1 /\ paramFiles[i].present /\ Readable(paramFiles[i]) THEN paramFiles[i].updates ELSE 0]

\* Network::restart leaves what has no file as it was initialized.
LoadedParams == [i \in 1 .. nParams |->
  IF paramFiles[i].present /\ Readable(paramFiles[i]) THEN paramFiles[i].updates ELSE 0]

CrashAndRestart ==
  /\ mpc # "dead" /\ crashes < MaxCrashes
  /\ crashes' = crashes + 1
  /\ episodes' = Loaded.eps
  /\ nEpisodes' = Loaded.nEps /\ nTransitions' = Loaded.nObs
  /\ nGradSteps' = Loaded.steps
  /\ params' = LoadedParams /\ nSaved' = 0
  /\ dataset_mutex' = Free
  /\ hpc' = [h \in Handlers |-> "idle"] /\ hndata' = [h \in Handlers |-> 0]
  /\ mpc' = IF Loaded.ok THEN "step" ELSE "dead"
  /\ nStored' = [eps |-> 0, obs |-> 0]
  /\ UNCHANGED <<NDEBUG, backup, files, paramFiles, pushed>>

Init ==
  /\ NDEBUG \in BOOLEAN
  /\ episodes = <<>> /\ nEpisodes = 0 /\ nTransitions = 0 /\ nGradSteps = 0
  /\ dataset_mutex = Free
  /\ hpc = [h \in Handlers |-> "idle"] /\ hndata = [h \in Handlers |-> 0]
  /\ mpc = "step"
  /\ nStored = [eps |-> 0, obs |-> 0]
  /\ params = [i \in 1 .. nParams |-> 0] /\ nSaved = 0
  /\ backup = [status |-> NoFile, data |-> NoFile]
  /\ files = [status |-> NoFile, data |-> NoFile, scaling |-> NoFile]
  /\ paramFiles = [i \in 1 .. nParams |-> NoFile]
  /\ pushed = 0 /\ crashes = 0

Next ==
  \/ \E h \in Handlers :
       \/ \E ndata \in Lengths : LockAndPush(h, ndata)
       \/ CountEpisode(h) \/ CountTransitions(h)
  \/ LockForRemoval \/ RemovalDone
  \/ \E i \in DOMAIN episodes : removeBackEpisode(i)
  \/ OpenParams \/ FillParams \/ CopyScaling
  \/ ReadEpisodes \/ ReadTransitions \/ WriteStatus \/ WriteData \/ CopyFiles
  \/ globalGradCounterUpdate
  \/ CrashAndRestart

Spec == Init /\ [][Next]_vars

------------------------------------------------------------------------------
(* Properties                                                              *)

Status == [present : {TRUE}, nStoredEps : Nat, nStoredObs : Nat, nGradSteps : Nat]
Data   == [present : {TRUE}, eps : Seq(Lengths)]
Params == [present : {TRUE}, updates : Nat]

\* Every variable has its type.
TypeOK ==
  /\ NDEBUG \in BOOLEAN
  /\ episodes \in Seq(Lengths) /\ nEpisodes \in Nat /\ nTransitions \in Nat
  /\ nGradSteps \in Nat
  /\ dataset_mutex \in Handlers \cup {"main", Free}
  /\ hpc \in [Handlers -> {"idle", "countEpisode", "countTransitions"}]
  /\ hndata \in [Handlers -> Lengths \cup {0}]
  /\ mpc \in {"step", "removal", "openParams", "fillParams", "openScaling", "fillScaling",
              "readEpisodes", "readTransitions", "writeStatus", "writeData", "openStatus",
              "fillStatus", "openData", "fillData", "complete", "dead"}
  /\ params \in [1 .. nParams -> Nat] /\ nSaved \in 0 .. nParams - 1
  /\ nStored \in [eps : Nat, obs : Nat]
  /\ backup.status \in {NoFile} \cup Status /\ backup.data \in {NoFile} \cup Data
  /\ files.status \in {NoFile, EmptyFile} \cup Status
  /\ files.data \in {NoFile, EmptyFile} \cup Data
  /\ files.scaling \in {NoFile, EmptyFile, [present |-> TRUE]}
  /\ paramFiles \in [1 .. nParams -> {NoFile, EmptyFile} \cup Params]
  /\ pushed \in Nat /\ crashes \in Nat

\* pushBackEpisode and removeBackEpisode assert that nEpisodes is the size of
\* the data set when they find it unlocked: also after a restart from files of
\* two different saves.
EpisodesCounted == dataset_mutex = Free => nEpisodes = Len(episodes)

SaveWritten == mpc \in {"openStatus", "fillStatus", "openData", "fillData", "complete"}

\* The two files of a save tell of the same episodes, whatever the handlers
\* added while it was written.
BackupsAgree ==
  SaveWritten => Len(backup.data.eps) = backup.status.nStoredEps

\* Of the transitions that a save writes, those of the last episode at most are
\* missing in its counter (and none, if the counters were read under the mutex);
\* a restart passes the error on, so that this is said of the first process.
ObservationsSaved ==
  SaveWritten /\ crashes = 0 =>
    backup.status.nStoredObs >= Total(Front(backup.data.eps))

\* A crash keeps the learner from being restarted only while the files of the last save
\* are being replaced, each on its own.
RestartSucceeds ==
  [][mpc' = "dead" =>
       mpc \in {"fillParams", "fillScaling", "fillStatus", "openData", "fillData", "dead"}]_vars

\* The networks are saved before the counter of steps: whatever files a restart finds
\* together, they lack no update that has been counted, but the one of the step in which
\* they were saved.
UpdatesKept == \A i \in 1 .. nParams : params[i] + crashes >= nGradSteps
==============================================================================
