-------------------------- MODULE Downloader_proofs --------------------------
(***************************************************************************)
(* Proofs about Downloader for any number of processes and crashes.  All   *)
(* of them are about runs in which no holder slept through `stale`: then   *)
(* only a killed holder loses its lock.                                    *)
(***************************************************************************)
EXTENDS Downloader, TLAPS

Writing == {"lookup", "extract", "mark", "marking"}

(* Who runs its callback holds the lock.                                   *)
Held(p) == pc[p] \in InCallback => lock = p

(* Who writes found no marker, and extracted all before it writes one.     *)
Progress(p) ==
  /\ pc[p] \in Writing => marker # "whole"
  /\ pc[p] \in {"mark", "marking"} => files = "whole"

Awake ==
  /\ ~stale
  /\ \A p \in Procs : Held(p) /\ Progress(p)
  /\ marker = "whole" => files = "whole"

(* A caller is told once, and that all is well only beside a marker.        *)
Told(p) ==
  /\ pc[p] \in {"lock", "check"} \cup Writing => outcome[p] = "none"
  /\ outcome[p] = "ok" => marker = "whole"

Honest == \A p \in Procs : Told(p)

IInv == TypeOK /\ (~overslept => Awake /\ Honest)

-----------------------------------------------------------------------------
LEMMA GotoType ==
  ASSUME TypeOK, NEW p \in Procs, NEW l \in {"idle", "lock"} \cup InCallback, Goto(p, l)
  PROVE  /\ pc' \in [Procs -> {"idle", "lock"} \cup InCallback]
         /\ \A q \in Procs : pc'[q] = IF q = p THEN l ELSE pc[q]
BY DEF TypeOK, Goto

LEMMA TellType ==
  ASSUME TypeOK, NEW p \in Procs, NEW r \in {"none", "ok", "error", "aborted"}, Tell(p, r)
  PROVE  /\ outcome' \in [Procs -> {"none", "ok", "error", "aborted"}]
         /\ \A q \in Procs : outcome'[q] = IF q = p /\ outcome[q] = "none"
                                          THEN r ELSE outcome[q]
BY DEF TypeOK, Tell

LEMMA TypeStep == ASSUME TypeOK, [Next]_vars PROVE TypeOK'
<1> USE ProcsAssumption, BoundAssumption DEF InCallback, Content, dirVars, lockVars, envVars
<1>1. ASSUME NEW p \in Procs, Call(p) PROVE TypeOK'
  <2>1. pc' \in [Procs -> {"idle", "lock"} \cup InCallback]
    BY <1>1, GotoType DEF Call
  <2>2. outcome' \in [Procs -> {"none", "ok", "error", "aborted"}]
    BY <1>1 DEF Call, TypeOK
  <2> QED
    BY <1>1, <2>1, <2>2 DEF Call, TypeOK
<1>2. ASSUME NEW p \in Procs, Acquire(p) PROVE TypeOK'
  BY <1>2, GotoType DEF Acquire, TypeOK
<1>3. ASSUME NEW p \in Procs, GiveUp(p) PROVE TypeOK'
  BY <1>3, GotoType, TellType DEF GiveUp, TypeOK
<1>4. ASSUME NEW p \in Procs, Check(p) PROVE TypeOK'
  BY <1>4, GotoType, TellType DEF Check, TypeOK
<1>5. ASSUME NEW p \in Procs, StartExtract(p) PROVE TypeOK'
  BY <1>5, GotoType DEF StartExtract, TypeOK
<1>6. ASSUME NEW p \in Procs, FinishExtract(p) PROVE TypeOK'
  BY <1>6, GotoType DEF FinishExtract, TypeOK
<1>7. ASSUME NEW p \in Procs, Fail(p) PROVE TypeOK'
  BY <1>7, GotoType, TellType DEF Fail, TypeOK
<1>8. ASSUME NEW p \in Procs, StartMark(p) PROVE TypeOK'
  BY <1>8, GotoType DEF StartMark, TypeOK
<1>9. ASSUME NEW p \in Procs, FinishMark(p) PROVE TypeOK'
  BY <1>9, GotoType, TellType DEF FinishMark, TypeOK
<1>10. ASSUME NEW p \in Procs, Release(p) PROVE TypeOK'
  BY <1>10, GotoType DEF Release, Released, TypeOK
<1>11. ASSUME NEW p \in Procs, Crash(p) PROVE TypeOK'
  <2>1. pc' \in [Procs -> {"idle", "lock"} \cup InCallback]
    BY <1>11, GotoType DEF Crash
  <2>2. outcome' \in [Procs -> {"none", "ok", "error", "aborted"}]
    BY <1>11 DEF Crash, TypeOK
  <2>3. crashes' \in 0..MaxCrashes
    BY <1>11 DEF Crash, TypeOK
  <2> QED
    BY <1>11, <2>1, <2>2, <2>3 DEF Crash, TypeOK
<1>12. ASSUME NEW p \in Procs, Oversleep(p) \/ Refresh(p) PROVE TypeOK'
  BY <1>12 DEF Oversleep, Refresh, TypeOK
<1>13. ASSUME NEW p \in Procs, Compromised(p) PROVE TypeOK'
  BY <1>13 DEF Compromised, TypeOK
<1>14. CASE UNCHANGED vars
  BY <1>14 DEF vars, TypeOK
<1> QED
  BY <1>1, <1>2, <1>3, <1>4, <1>5, <1>6, <1>7, <1>8, <1>9, <1>10, <1>11, <1>12,
     <1>13, <1>14 DEF Next, Work

-----------------------------------------------------------------------------
LEMMA AwakeStep == ASSUME TypeOK, Awake, ~overslept', [Next]_vars PROVE Awake'
<1> USE ProcsAssumption
    DEF InCallback, Writing, Held, Progress, Awake, dirVars, lockVars, envVars
<1>1. ASSUME NEW p \in Procs, Call(p) PROVE Awake'
  <2>1. PICK l \in {"idle", "lock"} : Goto(p, l)
    BY <1>1 DEF Call
  <2>2. \A q \in Procs : pc'[q] = IF q = p THEN l ELSE pc[q]
    BY <2>1, GotoType
  <2> QED
    BY <1>1, <2>2 DEF Call
<1>2. ASSUME NEW p \in Procs, Acquire(p) PROVE Awake'
  <2>1. \A q \in Procs : pc'[q] = IF q = p THEN "check" ELSE pc[q]
    BY <1>2, GotoType DEF Acquire
  <2>2. lock \notin Procs /\ lock' = p /\ ~stale' /\ UNCHANGED dirVars
    BY <1>2 DEF Acquire, MayTakeOver
  <2> QED
    BY <2>1, <2>2
<1>3. ASSUME NEW p \in Procs, GiveUp(p) PROVE Awake'
  <2>1. \A q \in Procs : pc'[q] = IF q = p THEN "idle" ELSE pc[q]
    BY <1>3, GotoType DEF GiveUp
  <2> QED
    BY <1>3, <2>1 DEF GiveUp
<1>4. ASSUME NEW p \in Procs, Check(p) PROVE Awake'
  <2>1. PICK l \in {"release", "lookup"} :
          Goto(p, l) /\ (l = "lookup" => marker # "whole")
    BY <1>4 DEF Check, DownloadedByNow, Downloaded
  <2>2. \A q \in Procs : pc'[q] = IF q = p THEN l ELSE pc[q]
    BY <2>1, GotoType
  <2> QED
    BY <1>4, <2>1, <2>2 DEF Check
<1>5. ASSUME NEW p \in Procs, StartExtract(p) PROVE Awake'
  <2>1. \A q \in Procs : pc'[q] = IF q = p THEN "extract" ELSE pc[q]
    BY <1>5, GotoType DEF StartExtract
  <2> QED
    BY <1>5, <2>1 DEF StartExtract
<1>6. ASSUME NEW p \in Procs, FinishExtract(p) PROVE Awake'
  <2>1. \A q \in Procs : pc'[q] = IF q = p THEN "mark" ELSE pc[q]
    BY <1>6, GotoType DEF FinishExtract
  <2>2. Extracting = {p}
    BY <1>6 DEF FinishExtract, Extracting
  <2> QED
    BY <1>6, <2>1, <2>2 DEF FinishExtract
<1>7. ASSUME NEW p \in Procs, Fail(p) PROVE Awake'
  <2>1. \A q \in Procs : pc'[q] = IF q = p THEN "release" ELSE pc[q]
    BY <1>7, GotoType DEF Fail
  <2> QED
    BY <1>7, <2>1 DEF Fail
<1>8. ASSUME NEW p \in Procs, StartMark(p) PROVE Awake'
  <2>1. \A q \in Procs : pc'[q] = IF q = p THEN "marking" ELSE pc[q]
    BY <1>8, GotoType DEF StartMark
  <2> QED
    BY <1>8, <2>1 DEF StartMark
<1>9. ASSUME NEW p \in Procs, FinishMark(p) PROVE Awake'
  <2>1. \A q \in Procs : pc'[q] = IF q = p THEN "release" ELSE pc[q]
    BY <1>9, GotoType DEF FinishMark
  <2> QED
    BY <1>9, <2>1 DEF FinishMark
<1>10. ASSUME NEW p \in Procs, Release(p) PROVE Awake'
  <2>1. \A q \in Procs : pc'[q] = IF q = p THEN "idle" ELSE pc[q]
    BY <1>10, GotoType DEF Release
  <2> QED
    BY <1>10, <2>1 DEF Release, Released
<1>11. ASSUME NEW p \in Procs, Crash(p) PROVE Awake'
  <2>1. \A q \in Procs : pc'[q] = IF q = p THEN "idle" ELSE pc[q]
    BY <1>11, GotoType DEF Crash
  <2> QED
    BY <1>11, <2>1 DEF Crash
<1>12. ASSUME NEW p \in Procs, Oversleep(p) PROVE Awake'
  BY <1>12 DEF Oversleep
<1>13. ASSUME NEW p \in Procs, Refresh(p) \/ Compromised(p) PROVE Awake'
  BY <1>13 DEF Refresh, Compromised
<1>14. CASE UNCHANGED vars
  BY <1>14 DEF vars
<1> QED
  BY <1>1, <1>2, <1>3, <1>4, <1>5, <1>6, <1>7, <1>8, <1>9, <1>10, <1>11, <1>12,
     <1>13, <1>14 DEF Next, Work

LEMMA HonestStep ==
  ASSUME TypeOK, Awake, Honest, ~overslept', [Next]_vars PROVE Honest'
<1> USE ProcsAssumption DEF InCallback, Writing, Honest, Told, dirVars
<1>1. ASSUME NEW p \in Procs, Call(p) PROVE Honest'
  <2>1. PICK l \in {"idle", "lock"} :
          /\ Goto(p, l)
          /\ \/ l = "idle" /\ marker = "whole" /\ outcome' = [outcome EXCEPT ![p] = "ok"]
             \/ l = "lock" /\ outcome' = [outcome EXCEPT ![p] = "none"]
    BY <1>1 DEF Call, Downloaded
  <2>2. \A q \in Procs : pc'[q] = IF q = p THEN l ELSE pc[q]
    BY <2>1, GotoType
  <2>3. \A q \in Procs : q # p => outcome'[q] = outcome[q]
    BY <2>1 DEF TypeOK
  <2>4. outcome'[p] = IF l = "idle" THEN "ok" ELSE "none"
    BY <2>1 DEF TypeOK
  <2>5. marker' = marker /\ (l = "idle" => marker = "whole")
    BY <1>1, <2>1 DEF Call
  <2> QED
    BY <2>2, <2>3, <2>4, <2>5
<1>2. ASSUME NEW p \in Procs, Acquire(p) PROVE Honest'
  <2>1. \A q \in Procs : pc'[q] = IF q = p THEN "check" ELSE pc[q]
    BY <1>2, GotoType DEF Acquire
  <2> QED
    BY <1>2, <2>1 DEF Acquire
<1>3. ASSUME NEW p \in Procs, GiveUp(p) \/ Fail(p) PROVE Honest'
  <2>1. PICK l \in {"idle", "release"} : Goto(p, l) /\ Tell(p, "error") /\ marker' = marker
    BY <1>3 DEF GiveUp, Fail
  <2>2. \A q \in Procs : pc'[q] = IF q = p THEN l ELSE pc[q]
    BY <2>1, GotoType
  <2> QED
    BY <2>1, <2>2, TellType
<1>4. ASSUME NEW p \in Procs, Check(p) PROVE Honest'
  <2>1. CASE marker = "whole"
    <3>1. Goto(p, "release") /\ Tell(p, "ok") /\ marker' = marker
      BY <1>4, <2>1 DEF Check, DownloadedByNow, Downloaded
    <3>2. \A q \in Procs : pc'[q] = IF q = p THEN "release" ELSE pc[q]
      BY <3>1, GotoType
    <3> QED
      BY <2>1, <3>1, <3>2, TellType
  <2>2. CASE marker # "whole"
    <3>1. Goto(p, "lookup") /\ UNCHANGED <<outcome, marker>> /\ pc[p] = "check"
      BY <1>4, <2>2 DEF Check, DownloadedByNow, Downloaded
    <3>2. \A q \in Procs : pc'[q] = IF q = p THEN "lookup" ELSE pc[q]
      BY <3>1, GotoType
    <3> QED
      BY <3>1, <3>2
  <2> QED
    BY <2>1, <2>2
<1>5. ASSUME NEW p \in Procs, StartExtract(p) \/ FinishExtract(p) PROVE Honest'
  <2>1. PICK l \in {"extract", "mark"} : Goto(p, l) /\ UNCHANGED <<marker, outcome>>
    BY <1>5 DEF StartExtract, FinishExtract
  <2>2. \A q \in Procs : pc'[q] = IF q = p THEN l ELSE pc[q]
    BY <2>1, GotoType
  <2>3. pc[p] \in Writing
    BY <1>5 DEF StartExtract, FinishExtract
  <2> QED
    BY <2>1, <2>2, <2>3
<1>6. ASSUME NEW p \in Procs, StartMark(p) PROVE Honest'
  <2>1. \A q \in Procs : pc'[q] = IF q = p THEN "marking" ELSE pc[q]
    BY <1>6, GotoType DEF StartMark
  <2>2. marker # "whole"
    BY <1>6 DEF StartMark, Awake, Progress
  <2> QED
    BY <1>6, <2>1, <2>2 DEF StartMark
<1>7. ASSUME NEW p \in Procs, FinishMark(p) PROVE Honest'
  <2>1. \A q \in Procs : pc'[q] = IF q = p THEN "release" ELSE pc[q]
    BY <1>7, GotoType DEF FinishMark
  <2>2. Tell(p, "ok") /\ marker' = "whole"
    BY <1>7 DEF FinishMark
  <2> QED
    BY <2>1, <2>2, TellType
<1>8. ASSUME NEW p \in Procs, Release(p) PROVE Honest'
  <2>1. \A q \in Procs : pc'[q] = IF q = p THEN "idle" ELSE pc[q]
    BY <1>8, GotoType DEF Release
  <2> QED
    BY <1>8, <2>1 DEF Release
<1>9. ASSUME NEW p \in Procs, Crash(p) PROVE Honest'
  <2>1. \A q \in Procs : pc'[q] = IF q = p THEN "idle" ELSE pc[q]
    BY <1>9, GotoType DEF Crash
  <2>2. \A q \in Procs : outcome'[q] = IF q = p THEN "none" ELSE outcome[q]
    BY <1>9 DEF Crash, TypeOK
  <2>3. marker' = marker
    BY <1>9 DEF Crash
  <2> QED
    BY <2>1, <2>2, <2>3
<1>10. ASSUME NEW p \in Procs, Oversleep(p) \/ Refresh(p) PROVE Honest'
  BY <1>10 DEF Oversleep, Refresh
<1>11. ASSUME NEW p \in Procs, Compromised(p) PROVE FALSE
  BY <1>11 DEF Compromised, Awake, Held
<1>12. CASE UNCHANGED vars
  BY <1>12 DEF vars
<1> QED
  BY <1>1, <1>2, <1>3, <1>4, <1>5, <1>6, <1>7, <1>8, <1>9, <1>10, <1>11, <1>12
  DEF Next, Work

(* The ghost is never cleared.                                              *)
LEMMA SleepIsKept == ASSUME [Next]_vars, ~overslept' PROVE ~overslept
BY DEF Next, Work, Call, Acquire, GiveUp, Check, StartExtract, FinishExtract, Fail,
       StartMark, FinishMark, Release, Crash, Oversleep, Refresh, Compromised,
       envVars, vars

LEMMA Invariance == Spec => []IInv
<1>1. Init => IInv
  <2> SUFFICES ASSUME Init PROVE IInv
    OBVIOUS
  <2>1. TypeOK
    <3>1. stale \in BOOLEAN /\ overslept \in BOOLEAN
      BY DEF Init
    <3>2. crashes \in 0..MaxCrashes
      BY BoundAssumption DEF Init
    <3> QED
      BY <3>1, <3>2 DEF Init, TypeOK, Content
  <2>2. Awake
    BY DEF Init, Awake, Held, Progress, InCallback, Writing
  <2>3. Honest
    BY DEF Init, Honest, Told
  <2> QED
    BY <2>1, <2>2, <2>3 DEF IInv
<1>2. IInv /\ [Next]_vars => IInv'
  <2> SUFFICES ASSUME IInv, [Next]_vars PROVE IInv'
    OBVIOUS
  <2>1. TypeOK'
    BY TypeStep DEF IInv
  <2>2. ~overslept' => ~overslept
    BY SleepIsKept
  <2> QED
    BY <2>1, <2>2, AwakeStep, HonestStep DEF IInv
<1> QED
  BY <1>1, <1>2, PTL DEF Spec

-----------------------------------------------------------------------------
(* Every variable has a value of its kind.                                 *)
THEOREM TypeCorrect == Spec => []TypeOK
<1>1. IInv => TypeOK
  BY DEF IInv
<1> QED
  BY <1>1, Invariance, PTL

(* withLock excludes: while no holder sleeps through `stale`, at most one  *)
(* process runs its callback, also when holders are killed and their locks *)
(* taken over.                                                             *)
THEOREM Exclusion == Spec => []HeldWhileAwake
<1>1. IInv => HeldWhileAwake
  BY DEF IInv, Awake, Held, HeldWhileAwake, HeldForCallback
<1> QED
  BY <1>1, Invariance, PTL

(* A readable .artifact_info means a complete directory.                   *)
THEOREM Complete == Spec => []MarkedIsWhole
<1>1. IInv => MarkedIsWhole
  BY DEF IInv, Awake, MarkedIsWhole
<1> QED
  BY <1>1, Invariance, PTL

-----------------------------------------------------------------------------
(* A step of the downloader is a step of Publication or changes nothing     *)
(* that Publication speaks of.                                              *)
LEMMA PublicationStep ==
  ASSUME TypeOK, Awake, Honest, ~overslept', [Next]_vars
  PROVE  [Publishing!Next]_(Publishing!vars)
<1> USE DEF Publishing!vars, Publishing!Next, dirVars
<1>1. ASSUME NEW p \in Procs, UNCHANGED dirVars,
             NEW r \in {"none", "ok", "error"}, r = "ok" => marker = "whole",
             \/ Tell(p, r)
             \/ outcome' = [outcome EXCEPT ![p] = r]
      PROVE  [Publishing!Next]_(Publishing!vars)
  <2>1. outcome' = outcome \/ outcome' = [outcome EXCEPT ![p] = r]
    BY <1>1 DEF Tell, TypeOK
  <2>2. CASE outcome' = outcome
    BY <1>1, <2>2
  <2>3. CASE outcome' = [outcome EXCEPT ![p] = r]
    <3>1. r \in {"none", "error"} \cup (IF marker = "whole" THEN {"ok"} ELSE {})
      BY <1>1
    <3>2. Publishing!Tell(p)
      BY <1>1, <2>3, <3>1 DEF Publishing!Tell
    <3> QED
      BY <3>2
  <2> QED
    BY <2>1, <2>2, <2>3
<1>2. ASSUME NEW p \in Procs, Call(p) PROVE [Publishing!Next]_(Publishing!vars)
  <2>1. PICK r \in {"none", "ok"} :
          outcome' = [outcome EXCEPT ![p] = r] /\ (r = "ok" => marker = "whole")
    BY <1>2 DEF Call, Downloaded
  <2>2. UNCHANGED dirVars
    BY <1>2 DEF Call
  <2> QED
    BY <1>1, <2>1, <2>2
<1>3. ASSUME NEW p \in Procs, GiveUp(p) \/ Fail(p)
      PROVE  [Publishing!Next]_(Publishing!vars)
  <2>1. Tell(p, "error") /\ UNCHANGED dirVars
    BY <1>3 DEF GiveUp, Fail
  <2> QED
    BY <1>1, <2>1
<1>4. ASSUME NEW p \in Procs, Check(p) PROVE [Publishing!Next]_(Publishing!vars)
  <2>1. \/ Tell(p, "ok") /\ marker = "whole" /\ UNCHANGED dirVars
        \/ UNCHANGED outcome /\ UNCHANGED dirVars
    BY <1>4 DEF Check, DownloadedByNow, Downloaded
  <2> QED
    BY <1>1, <2>1
<1>5. ASSUME NEW p \in Procs, StartExtract(p) \/ FinishExtract(p)
      PROVE  [Publishing!Next]_(Publishing!vars)
  <2>1. marker # "whole"
    BY <1>5 DEF StartExtract, FinishExtract, Awake, Progress, Writing, InCallback
  <2>2. Publishing!Prepare
    BY <1>5, <2>1 DEF StartExtract, FinishExtract, Publishing!Prepare
  <2> QED
    BY <2>2
<1>6. ASSUME NEW p \in Procs, StartMark(p) PROVE [Publishing!Next]_(Publishing!vars)
  <2>1. marker # "whole"
    BY <1>6 DEF StartMark, Awake, Progress, Writing, InCallback
  <2>2. UNCHANGED <<files, marker = "whole", outcome>>
    BY <1>6, <2>1 DEF StartMark
  <2> QED
    BY <2>2
<1>7. ASSUME NEW p \in Procs, FinishMark(p) PROVE [Publishing!Next]_(Publishing!vars)
  <2>1. marker # "whole" /\ files = "whole" /\ outcome[p] = "none"
    BY <1>7 DEF FinishMark, Awake, Progress, Honest, Told, Writing, InCallback
  <2>2. outcome' = [outcome EXCEPT ![p] = "ok"]
    BY <1>7, <2>1 DEF FinishMark, Tell, TypeOK
  <2>3. marker' = "whole" /\ UNCHANGED files
    BY <1>7 DEF FinishMark
  <2>4. Publishing!Publish(p)
    BY <2>1, <2>2, <2>3 DEF Publishing!Publish
  <2> QED
    BY <2>4
<1>8. ASSUME NEW p \in Procs, Crash(p) PROVE [Publishing!Next]_(Publishing!vars)
  <2>1. outcome' = [outcome EXCEPT ![p] = "none"] /\ UNCHANGED dirVars
    BY <1>8 DEF Crash
  <2> QED
    BY <1>1, <2>1
<1>9. ASSUME NEW p \in Procs, Acquire(p) \/ Release(p) \/ Oversleep(p) \/ Refresh(p)
      PROVE  [Publishing!Next]_(Publishing!vars)
  BY <1>9 DEF Acquire, Release, Oversleep, Refresh
<1>10. ASSUME NEW p \in Procs, Compromised(p) PROVE FALSE
  BY <1>10 DEF Compromised, Awake, Held
<1>11. CASE UNCHANGED vars
  BY <1>11 DEF vars
<1> QED
  BY <1>2, <1>3, <1>4, <1>5, <1>6, <1>7, <1>8, <1>9, <1>10, <1>11 DEF Next, Work

(* The downloader implements Publication for as long as no holder of the    *)
(* lock sleeps through `stale`: a directory is published once, whole, and   *)
(* nobody is told of it before.                                             *)
THEOREM Refinement == Spec => PublishesOnce
<1>1. Init => Publishing!Init
  BY DEF Init, Publishing!Init
<1>2. IInv /\ [Next]_vars =>
        [overslept' \/ [Publishing!Next]_(Publishing!vars)]_vars
  <2> SUFFICES ASSUME IInv, Next, ~overslept'
               PROVE  [Publishing!Next]_(Publishing!vars)
    OBVIOUS
  <2>1. ~overslept
    BY SleepIsKept
  <2> QED
    BY <2>1, PublicationStep DEF IInv
<1> QED
  BY <1>1, <1>2, Invariance, PTL DEF Spec, PublishesOnce

(* What was handed out to somebody is not written to again.                 *)
THEOREM Final == Spec => HandedOutIsFinal
<1>1. ASSUME IInv, Next, ~overslept, NEW u \in Procs, outcome[u] = "ok"
      PROVE  UNCHANGED dirVars
  <2>1. marker = "whole" /\ \A p \in Procs : pc[p] \notin Writing
    BY <1>1 DEF IInv, Awake, Honest, Told, Progress
  <2> QED
    BY <1>1, <2>1 DEF Next, Work, Call, Acquire, GiveUp, Check, StartExtract,
         FinishExtract, Fail, StartMark, FinishMark, Release, Crash, Oversleep,
         Refresh, Compromised, Writing
<1>2. IInv /\ [Next]_vars =>
        [~overslept /\ (\E p \in Procs : outcome[p] = "ok") => UNCHANGED dirVars]_vars
  <2> SUFFICES ASSUME IInv, Next, ~overslept, \E p \in Procs : outcome[p] = "ok"
               PROVE  UNCHANGED dirVars
    OBVIOUS
  <2> QED
    BY <1>1
<1> QED
  BY <1>2, Invariance, PTL DEF Spec, HandedOutIsFinal
=============================================================================
