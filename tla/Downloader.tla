----------------------------- MODULE Downloader -----------------------------
(***************************************************************************)
(* downloadMongoDbWithVersionInfo (mongodb-downloader/src/index.ts) and    *)
(* withLock (src/with-lock.ts): processes that want the same version of    *)
(* the server share a directory; .artifact_info says that it is complete.  *)
(* useLockfile is set.  An extraction stands for both of its attempts on   *)
(* macOS (index.ts:242), which write the same files.                       *)
(***************************************************************************)
EXTENDS Naturals, FiniteSets

CONSTANTS
  Procs,          \* processes that download the same version
  MaxCrashes,     \* bound: how often a process is killed
  None, Dead      \* no process; a process that was killed

ASSUME ProcsAssumption == {None, Dead} \cap Procs = {} /\ None # Dead
ASSUME BoundAssumption == MaxCrashes \in Nat

VARIABLES
  marker,         \* .artifact_info: missing, being written, or whole
  files,          \* what was extracted into the directory
  lock,           \* the holder of the lock file
  stale,          \* it was not refreshed for `stale` milliseconds
  pc,             \* where the download of each process is
  outcome,        \* what its caller has been told
  crashes,
  overslept       \* ghost: has a process slept through `stale` with the lock?

dirVars  == <<marker, files>>
lockVars == <<lock, stale>>
envVars  == <<crashes, overslept>>
vars     == <<dirVars, lockVars, pc, outcome, envVars>>

Content == {"none", "partial", "whole"}

(* Between acquiring the lock and releasing it.                            *)
InCallback == {"check", "lookup", "extract", "mark", "marking", "release"}

Init ==
  /\ marker = "none"
  /\ files = "none"
  /\ lock = None
  /\ stale = FALSE
  /\ pc = [p \in Procs |-> "idle"]
  /\ outcome = [p \in Procs |-> "none"]
  /\ crashes = 0
  /\ overslept = FALSE

-----------------------------------------------------------------------------
(* Deviations a small slip in the code would give; no Spec uses them.      *)
NoSecondCheck     == FALSE
NeverStale        == FALSE
AlwaysStale       == TRUE
ReleasedUndefined == FALSE

(* getCurrentDownloadedFile: a marker that cannot be parsed is no marker.  *)
Downloaded      == marker = "whole"
DownloadedByNow == Downloaded

(* A lock is taken over once it is stale (line 33 of with-lock.ts).        *)
MayTakeOver == lock = Dead \/ stale

(* What release() leaves.                                                  *)
Released == None

Goto(p, l) == pc' = [pc EXCEPT ![p] = l]

(* The caller is told, unless withLock has rejected already.               *)
Tell(p, r) ==
  outcome' = [outcome EXCEPT ![p] = IF @ = "none" THEN r ELSE @]

Extracting == {p \in Procs : pc[p] = "extract"}

-----------------------------------------------------------------------------
(* The check before the lock (line 115).                                   *)
Call(p) ==
  /\ pc[p] = "idle"
  /\ IF Downloaded
     THEN Goto(p, "idle") /\ outcome' = [outcome EXCEPT ![p] = "ok"]
     ELSE /\ Goto(p, "lock")
          /\ outcome' = [outcome EXCEPT ![p] = "none"]
  /\ UNCHANGED <<dirVars, lockVars, envVars>>

Acquire(p) ==
  /\ pc[p] = "lock"
  /\ lock = None \/ MayTakeOver
  /\ lock' = p
  /\ stale' = FALSE
  /\ Goto(p, "check")
  /\ UNCHANGED <<dirVars, outcome, envVars>>

(* The directory cannot be written, or the retries are used up.            *)
GiveUp(p) ==
  /\ pc[p] = "lock"
  /\ Goto(p, "idle")
  /\ Tell(p, "error")
  /\ UNCHANGED <<dirVars, lockVars, envVars>>

(* The check behind the lock (line 129).                                   *)
Check(p) ==
  /\ pc[p] = "check"
  /\ IF DownloadedByNow
     THEN Goto(p, "release") /\ Tell(p, "ok")
     ELSE Goto(p, "lookup") /\ UNCHANGED outcome
  /\ UNCHANGED <<dirVars, lockVars, envVars>>

(* The URL was looked up and answers: its files are written over what is   *)
(* there.                                                                  *)
StartExtract(p) ==
  /\ pc[p] = "lookup"
  /\ files' = "partial"
  /\ Goto(p, "extract")
  /\ UNCHANGED <<marker, lockVars, outcome, envVars>>

(* All is written; whole, unless another process is writing the same files.*)
FinishExtract(p) ==
  /\ pc[p] = "extract"
  /\ files' = IF Extracting = {p} THEN "whole" ELSE "partial"
  /\ Goto(p, "mark")
  /\ UNCHANGED <<marker, lockVars, outcome, envVars>>

(* The lookup, the download or the extraction fails.                       *)
Fail(p) ==
  /\ pc[p] \in {"lookup", "extract", "mark", "marking"}
  /\ Goto(p, "release")
  /\ Tell(p, "error")
  /\ UNCHANGED <<dirVars, lockVars, envVars>>

(* fs.writeFile of the marker empties the file before it writes it.        *)
StartMark(p) ==
  /\ pc[p] = "mark"
  /\ marker' = "partial"
  /\ Goto(p, "marking")
  /\ UNCHANGED <<files, lockVars, outcome, envVars>>

FinishMark(p) ==
  /\ pc[p] = "marking"
  /\ marker' = "whole"
  /\ Goto(p, "release")
  /\ Tell(p, "ok")
  /\ UNCHANGED <<files, lockVars, envVars>>

(* release() removes the lock file; one that was taken over from a process *)
(* that has not noticed it yet, too.                                       *)
Release(p) ==
  /\ pc[p] = "release"
  /\ Goto(p, "idle")
  /\ IF outcome[p] # "aborted"
     THEN lock' = Released /\ stale' = FALSE
     ELSE UNCHANGED lockVars
  /\ UNCHANGED <<dirVars, outcome, envVars>>

-----------------------------------------------------------------------------
(* A killed process leaves everything as it is; it may be started again.   *)
Crash(p) ==
  /\ crashes < MaxCrashes
  /\ pc[p] # "idle"
  /\ Goto(p, "idle")
  /\ outcome' = [outcome EXCEPT ![p] = "none"]
  /\ lock' = IF lock = p THEN Dead ELSE lock
  /\ crashes' = crashes + 1
  /\ UNCHANGED <<dirVars, stale, overslept>>

(* The holder does not run for longer than `stale` ...                     *)
Oversleep(p) ==
  /\ lock = p
  /\ pc[p] \in InCallback
  /\ stale' = TRUE
  /\ overslept' = TRUE
  /\ UNCHANGED <<dirVars, lock, pc, outcome, crashes>>

(* ... and refreshes the lock if it still has it.                          *)
Refresh(p) ==
  /\ lock = p
  /\ stale
  /\ stale' = FALSE
  /\ UNCHANGED <<dirVars, lock, pc, outcome, envVars>>

(* onCompromised: withLock rejects, and the callback, which ignores its    *)
(* signal (index.ts:127), goes on.                                         *)
Compromised(p) ==
  /\ pc[p] \in InCallback
  /\ lock # p
  /\ outcome[p] = "none"
  /\ outcome' = [outcome EXCEPT ![p] = "aborted"]
  /\ UNCHANGED <<dirVars, lockVars, pc, envVars>>

-----------------------------------------------------------------------------
Work(p) ==
  \/ Check(p) \/ StartExtract(p) \/ FinishExtract(p) \/ Fail(p)
  \/ StartMark(p) \/ FinishMark(p) \/ Release(p)

Next ==
  \E p \in Procs :
    \/ Call(p) \/ Acquire(p) \/ GiveUp(p) \/ Work(p)
    \/ Crash(p) \/ Oversleep(p) \/ Refresh(p) \/ Compromised(p)

Spec == Init /\ [][Next]_vars

(* Processes run; one that waits polls the lock file again and again, often *)
(* enough to see it free before its retries are used up.                    *)
FairSpec == Spec /\ \A p \in Procs : WF_vars(Work(p)) /\ SF_vars(Acquire(p))

-----------------------------------------------------------------------------
(* Every variable has a value of its kind.                                 *)
TypeOK ==
  /\ marker \in Content /\ files \in Content
  /\ lock \in Procs \cup {None, Dead}
  /\ stale \in BOOLEAN
  /\ pc \in [Procs -> {"idle", "lock"} \cup InCallback]
  /\ outcome \in [Procs -> {"none", "ok", "error", "aborted"}]
  /\ crashes \in 0..MaxCrashes
  /\ overslept \in BOOLEAN

(* "Acquire an advisory lock [...] and hold it for the duration of the     *)
(* callback." (with-lock.ts:5): nobody else runs its callback meanwhile.   *)
HeldForCallback ==
  \A p, q \in Procs : pc[p] \in InCallback /\ pc[q] \in InCallback => p = q

(* The same as long as no holder slept through `stale`, as a suspended     *)
(* machine makes it do.                                                    *)
HeldWhileAwake == ~overslept => HeldForCallback

(* .artifact_info is what makes later calls use the directory: once it can *)
(* be read the directory is complete, whatever was killed, failed or ran   *)
(* at the same time before, as long as no holder slept through `stale`.    *)
MarkedIsWhole == ~overslept /\ marker = "whole" => files = "whole"

(* A directory that was handed out is never written to again, as long as   *)
(* no holder of the lock slept through `stale`.                            *)
HandedOutIsFinal ==
  [][~overslept /\ (\E p \in Procs : outcome[p] = "ok") => UNCHANGED dirVars]_vars

(* The downloader implements Publication until a holder of the lock sleeps  *)
(* through `stale`: the directory is published by its marker.               *)
Publishing ==
  INSTANCE Publication WITH Users <- Procs, content <- files,
                            published <- marker = "whole", told <- outcome

PublishesOnce ==
  /\ Publishing!Init
  /\ [][overslept' \/ [Publishing!Next]_(Publishing!vars)]_vars

(* Who waits for the lock gets it, or finds out why not, even if its holder*)
(* was killed.                                                             *)
WaitEnds == \A p \in Procs : pc[p] = "lock" ~> pc[p] # "lock"
=============================================================================
