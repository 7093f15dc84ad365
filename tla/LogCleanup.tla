----------------------------- MODULE LogCleanup -----------------------------
(***************************************************************************)
(* MongoLogManager (mongodb-log-writer/src/mongo-log-manager.ts): several  *)
(* processes share a directory of log files; each creates files and runs   *)
(* cleanupOldLogFiles, which awaits between any two file operations.       *)
(*                                                                         *)
(* A file's time stamp is the one inside its name (an ObjectId: seconds).  *)
(* The heap is a set: what heap-js pops is a file with the least stamp, any*)
(* of them when several have it.                                           *)
(***************************************************************************)
EXTENDS Naturals, FiniteSets

CONSTANTS
  Cleaners,   \* processes that run cleanupOldLogFiles
  Files,      \* names of log files with the manager's prefix
  Stamp,      \* Stamp[f]: the time stamp in the name of f
  Size,       \* Size[f]: its size
  Cutoff,     \* files with a smaller stamp are older than retentionDays
  MaxCount,   \* maxLogFileCount, 0 when unset
  MaxSize     \* retentionGB, 0 when unset

ASSUME FilesAssumption == IsFiniteSet(Files)
ASSUME StampAssumption == Stamp \in [Files -> Nat]
ASSUME SizeAssumption  == Size \in [Files -> Nat]
ASSUME LimitAssumption == Cutoff \in Nat /\ MaxCount \in Nat /\ MaxSize \in Nat

VARIABLES
  disk,       \* the files of the directory
  ever,       \* ghost: the files that were ever in it
  cleaner     \* the state of each cleanupOldLogFiles

vars == <<disk, ever, cleaner>>

HasCount == MaxCount > 0
HasSize  == MaxSize > 0
Old(f)   == Stamp[f] < Cutoff

(* The sum of the sizes is the number of units that the files are made of. *)
Units(S)     == UNION {{f} \X (1..Size[f]) : f \in S}
TotalSize(S) == Cardinality(Units(S))

(* todo are the directory entries still to come, heap and used are         *)
(* leastRecentFileHeap and usedStorageSize, file the operand of a pending  *)
(* file operation; outer keeps heap and used of the call that is retrying. *)
(* The ghost listed is what the last scan could see, {} once something cut *)
(* the cleanup short.                                                      *)
CleanerState ==
  [pc : {"start", "scan", "stat", "unlinkOld", "unlinkExcess", "trim",
         "unlinkSize", "done"},
   todo : SUBSET Files, heap : SUBSET Files, used : Nat,
   file : SUBSET Files, retriesLeft : {0, 1},
   outer : SUBSET [heap : SUBSET Files, used : Nat],
   listed : SUBSET Files]

Fresh == [pc |-> "start", todo |-> {}, heap |-> {}, used |-> 0, file |-> {},
          retriesLeft |-> 1, outer |-> {}, listed |-> {}]

Init ==
  /\ disk \in SUBSET Files
  /\ ever = disk
  /\ cleaner = [p \in Cleaners |-> Fresh]

-----------------------------------------------------------------------------
Set(p, c) == cleaner' = [cleaner EXCEPT ![p] = c]

(* cleanupOldLogFiles returns; the call that retried goes on with its own  *)
(* heap.                                                                   *)
Returned(c) ==
  IF c.outer = {} THEN [Fresh EXCEPT !.pc = "done", !.listed = c.listed]
  ELSE LET o == CHOOSE x \in c.outer : TRUE
       IN  [c EXCEPT !.pc = "trim", !.heap = o.heap, !.used = o.used,
                     !.outer = {}]

(* fs.opendir; without a directory there is nothing to do.                 *)
Open(p) ==
  LET c == cleaner[p] IN
  /\ c.pc = "start"
  /\ \/ Set(p, [c EXCEPT !.pc = "scan", !.todo = disk, !.listed = disk,
                         !.heap = {}, !.used = 0])
     \/ Set(p, [Returned(c) EXCEPT !.listed = {}])
  /\ UNCHANGED <<disk, ever>>

Oldest(heap) == {v \in heap : \A f \in heap : Stamp[v] <= Stamp[f]}

(* Deviations a small slip in the code would give; no Spec uses them.      *)
Newest(heap)          == {v \in heap : \A f \in heap : Stamp[v] >= Stamp[f]}
TooManyOffByOne(heap) == HasCount /\ Cardinality(heap) >= MaxCount
FitsAlways(used)      == used <= MaxSize + MaxSize
FreedAlways(c, f)     == IF HasSize THEN Size[f] ELSE 0

(* The loop deletes as soon as the heap exceeds the count (line 143).      *)
TooMany(heap) == HasCount /\ Cardinality(heap) > MaxCount
Victims(heap) == Oldest(heap)
Fits(used)    == used <= MaxSize

(* A recent file was seen: remember it, and if that makes too many take    *)
(* out the least recent one to delete it.                                  *)
Push(p, c, f, used) ==
  LET heap == c.heap \cup {f} IN
  \/ /\ ~HasCount /\ ~HasSize
     /\ Set(p, [c EXCEPT !.pc = "scan", !.file = {}])
  \/ /\ HasCount \/ HasSize
     /\ ~TooMany(heap)
     /\ Set(p, [c EXCEPT !.pc = "scan", !.file = {}, !.heap = heap,
                         !.used = used])
  \/ /\ TooMany(heap)
     /\ \E v \in Victims(heap) :
          Set(p, [c EXCEPT !.pc = "unlinkExcess", !.file = {v},
                           !.heap = heap \ {v}, !.used = used])

(* The next directory entry; one that is gone may or may not be reported.  *)
NextEntry(p) ==
  /\ cleaner[p].pc = "scan"
  /\ \E f \in cleaner[p].todo :
       LET c == [cleaner[p] EXCEPT !.todo = @ \ {f}] IN
       \/ /\ f \notin disk
          /\ Set(p, c)
       \/ /\ Old(f)
          /\ Set(p, [c EXCEPT !.pc = "unlinkOld", !.file = {f}])
       \/ /\ ~Old(f)
          /\ HasSize
          /\ Set(p, [c EXCEPT !.pc = "stat", !.file = {f}])
       \/ /\ ~Old(f)
          /\ ~HasSize
          /\ Push(p, c, f, 0)
  /\ UNCHANGED <<disk, ever>>

(* fs.stat; its failure is reported and the file left out of account.      *)
Stat(p) ==
  /\ cleaner[p].pc = "stat"
  /\ \E f \in cleaner[p].file :
       \/ /\ f \in disk
          /\ Push(p, cleaner[p], f, cleaner[p].used + Size[f])
       \/ Set(p, [cleaner[p] EXCEPT !.pc = "scan", !.file = {},
                                    !.listed = IF f \in disk THEN {} ELSE @])
  /\ UNCHANGED <<disk, ever>>

(* What an unlinked file takes off the account: files past retentionDays   *)
(* were never counted (line 120).                                          *)
Freed(c, f) == IF c.pc = "unlinkOld" \/ ~HasSize THEN 0 ELSE Size[f]

(* deleteFile: a file that is gone already is no error, any other failure  *)
(* is reported; the size is taken off either way (lines 148 and 176).      *)
Unlink(p) ==
  LET c == cleaner[p] IN
  /\ c.pc \in {"unlinkOld", "unlinkExcess", "unlinkSize"}
  /\ \E f \in c.file, fails \in BOOLEAN :
       /\ disk' = IF fails THEN disk ELSE disk \ {f}
       /\ Set(p, [c EXCEPT
            !.pc = IF c.pc = "unlinkSize" THEN "trim" ELSE "scan",
            !.file = {},
            !.used = @ - Freed(c, f),
            !.listed = IF fails /\ f \in disk THEN {} ELSE @])
  /\ UNCHANGED ever

(* The scan is over, or maxDurationMs is (line 104).                       *)
EndScan(p) ==
  LET c == cleaner[p] IN
  /\ c.pc = "scan"
  /\ Set(p, [c EXCEPT !.pc = "trim", !.todo = {},
                      !.listed = IF c.todo = {} THEN @ ELSE {}])
  /\ UNCHANGED <<disk, ever>>

(* Reading the directory failed because another process unlinked a file:   *)
(* clean up from the start, once, before going on.                         *)
ScanFails(p) ==
  LET c == cleaner[p] IN
  /\ c.pc = "scan"
  /\ ~ (c.todo \subseteq disk)
  /\ IF c.retriesLeft > 0
     THEN Set(p, [c EXCEPT !.pc = "start", !.retriesLeft = @ - 1, !.todo = {},
                           !.outer = {[heap |-> c.heap, used |-> c.used]}])
     ELSE Set(p, [c EXCEPT !.pc = "trim", !.todo = {}, !.listed = {}])
  /\ UNCHANGED <<disk, ever>>

(* The loop for retentionGB, least recent file first.                      *)
Trim(p) ==
  LET c == cleaner[p] IN
  /\ c.pc = "trim"
  /\ \/ /\ ~HasSize \/ c.heap = {} \/ Fits(c.used)
        /\ Set(p, Returned(c))
     \/ /\ HasSize      \* maxDurationMs is over (line 169)
        /\ Set(p, [Returned(c) EXCEPT !.listed = {}])
     \/ /\ HasSize
        /\ ~Fits(c.used)
        /\ \E v \in Victims(c.heap) :
             IF Size[v] = 0
             THEN Set(p, [c EXCEPT !.heap = @ \ {v}])
             ELSE Set(p, [c EXCEPT !.pc = "unlinkSize", !.file = {v},
                                   !.heap = @ \ {v}])
  /\ UNCHANGED <<disk, ever>>

(* createLogWriter of some process: a file of this moment, which a scan    *)
(* under way may still meet.                                               *)
CreateLog ==
  \E f \in Files \ ever :
    /\ \A g \in ever : Stamp[g] <= Stamp[f]
    /\ disk' = disk \cup {f}
    /\ ever' = ever \cup {f}
    /\ \E meets \in SUBSET {p \in Cleaners : cleaner[p].pc \in
                              {"scan", "stat", "unlinkOld", "unlinkExcess"}} :
         cleaner' = [p \in Cleaners |->
           IF p \in meets THEN [cleaner[p] EXCEPT !.todo = @ \cup {f}]
           ELSE cleaner[p]]

Clean(p) ==
  \/ Open(p) \/ NextEntry(p) \/ Stat(p) \/ Unlink(p) \/ EndScan(p)
  \/ ScanFails(p) \/ Trim(p)

Next == (\E p \in Cleaners : Clean(p)) \/ CreateLog

Spec == Init /\ [][Next]_vars

-----------------------------------------------------------------------------
(* Every variable has a value of its kind.                                 *)
TypeOK ==
  /\ disk \subseteq ever
  /\ ever \subseteq Files
  /\ cleaner \in [Cleaners -> CleanerState]

(* MaxCount files more recent than f are on the disk.                      *)
EnoughNewer(f) ==
  HasCount /\ \E T \in SUBSET {g \in disk : Stamp[g] > Stamp[f]} :
                Cardinality(T) = MaxCount

(* The files that are not older than f exceed the limit all by themselves. *)
OverLimit(f) ==
  HasSize /\ TotalSize({g \in ever : Stamp[g] >= Stamp[f]}) > MaxSize

(* "delete all but the most recent N files" (line 82), by however many     *)
(* processes at once and wherever they stop: when no two files have the    *)
(* same stamp, a recent file is missing only while the most recent files   *)
(* that the limits allow are still there.                                  *)
MissingIsExcess ==
  \A f \in ever \ disk : Old(f) \/ EnoughNewer(f) \/ OverLimit(f)

(* The same for the number of files alone.                                 *)
KeepsMostRecent ==
  HasCount /\ ~HasSize =>
    LET recent(S) == Cardinality({f \in S : ~Old(f)})
    IN  recent(disk) < recent(ever) => recent(disk) >= MaxCount

(* A cleanup that nothing cuts short leaves, of the files it could see, none *)
(* that is too old and no more than the limits allow, also when others       *)
(* deleted under its hands or its first scan had to be repeated.             *)
CompleteIsTidy ==
  \A p \in Cleaners :
    cleaner[p].pc = "done" =>
      LET left == disk \cap cleaner[p].listed IN
      /\ \A f \in left : ~Old(f)
      /\ HasCount => Cardinality(left) <= MaxCount
      /\ HasSize => TotalSize(left) <= MaxSize
=============================================================================
