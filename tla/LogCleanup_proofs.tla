-------------------------- MODULE LogCleanup_proofs --------------------------
(***************************************************************************)
(* Proofs about LogCleanup, for any number of processes and files and any  *)
(* combination of the limits on age, number and size, and about LogWriter, *)
(* for any number of entries and flushes.                                  *)
(***************************************************************************)
EXTENDS LogCleanup, LogWriter, Integers, FiniteSetTheorems, SequenceTheorems, TLAPS

(* File names are ObjectIds; RecentFilesStay is about files of different    *)
(* seconds (MCLogCleanupSameSecond shows why).                              *)
DistinctStamps == \A f, g \in Files : Stamp[f] = Stamp[g] => f = g

-----------------------------------------------------------------------------
(* Sums of sizes: as many as the units of the files together.              *)
Slice(f) == {f} \X (1..Size[f])

LEMMA SliceSize ==
  ASSUME NEW f \in Files
  PROVE  IsFiniteSet(Slice(f)) /\ Cardinality(Slice(f)) = Size[f]
<1>1. Size[f] \in Nat
  BY SizeAssumption
<1>2. IsFiniteSet(1..Size[f]) /\ Cardinality(1..Size[f]) = Size[f]
  BY <1>1, FS_Interval
<1>3. IsFiniteSet({f}) /\ Cardinality({f}) = 1
  BY FS_Singleton
<1> DEFINE one == {f}
           all == 1..Size[f]
<1> HIDE DEF one, all
<1>4. IsFiniteSet(one \X all) /\ Cardinality(one \X all) = Cardinality(one) * Cardinality(all)
  BY <1>2, <1>3, FS_Product DEF one, all
<1> QED
  BY <1>1, <1>2, <1>3, <1>4 DEF Slice, one, all

LEMMA UnitsFinite ==
  ASSUME NEW S \in SUBSET Files
  PROVE  IsFiniteSet(Units(S)) /\ TotalSize(S) \in Nat
<1> DEFINE slices == {Slice(f) : f \in S}
           g == [f \in S |-> Slice(f)]
<1>1. IsFiniteSet(S)
  BY FilesAssumption, FS_Subset
<1>2. g \in Surjection(S, slices)
  BY DEF Surjection
<1>3. IsFiniteSet(slices)
  BY <1>1, <1>2, FS_Surjection
<1>4. \A T \in slices : IsFiniteSet(T)
  BY SliceSize
<1>5. IsFiniteSet(UNION slices)
  BY <1>3, <1>4, FS_UNION
<1>6. Units(S) = UNION slices
  BY DEF Units, Slice
<1> QED
  BY <1>5, <1>6, FS_CardinalityType DEF TotalSize

LEMMA NoUnits == TotalSize({}) = 0
<1>1. Units({}) = {}
  BY DEF Units
<1> QED
  BY <1>1, FS_EmptySet DEF TotalSize

LEMMA SizeGrows ==
  ASSUME NEW T \in SUBSET Files, NEW S \in SUBSET T
  PROVE  TotalSize(S) <= TotalSize(T)
<1>1. Units(S) \subseteq Units(T)
  BY DEF Units
<1> QED
  BY <1>1, UnitsFinite, FS_Subset DEF TotalSize

LEMMA SizeOfOneMore ==
  ASSUME NEW S \in SUBSET Files, NEW f \in Files \ S
  PROVE  TotalSize(S \cup {f}) = TotalSize(S) + Size[f]
<1>1. Units(S \cup {f}) = Units(S) \cup Slice(f)
  BY DEF Units, Slice
<1>2. Units(S) \cap Slice(f) = {}
  BY DEF Units, Slice
<1>3. /\ Cardinality(Units(S) \cup Slice(f)) =
           Cardinality(Units(S)) + Cardinality(Slice(f)) - Cardinality(Units(S) \cap Slice(f))
  BY UnitsFinite, SliceSize, FS_Union
<1>4. Cardinality(Units(S)) \in Nat /\ Cardinality(Slice(f)) = Size[f] /\ Size[f] \in Nat
  BY UnitsFinite, SliceSize, SizeAssumption DEF TotalSize
<1>5. Cardinality(Units(S) \cap Slice(f)) = 0
  BY <1>2, FS_EmptySet
<1>6. Cardinality(Units(S) \cup Slice(f)) = Cardinality(Units(S)) + Size[f]
  BY <1>3, <1>4, <1>5
<1> QED
  BY <1>1, <1>6 DEF TotalSize

LEMMA SizeOfOneLess ==
  ASSUME NEW S \in SUBSET Files, NEW f \in S
  PROVE  TotalSize(S \ {f}) = TotalSize(S) - Size[f]
<1> DEFINE T == S \ {f}
<1>1. T \in SUBSET Files /\ f \in Files \ T /\ S = T \cup {f}
  OBVIOUS
<1>2. TotalSize(T \cup {f}) = TotalSize(T) + Size[f]
  BY <1>1, SizeOfOneMore
<1>3. TotalSize(T) \in Nat /\ Size[f] \in Nat
  BY <1>1, UnitsFinite, SizeAssumption
<1>4. TotalSize(T \cup {f}) = TotalSize(S)
  BY <1>1
<1> HIDE DEF T
<1> QED
  BY <1>2, <1>3, <1>4 DEF T

(* Empty files weigh nothing.                                               *)
LEMMA EmptyWeighNothing ==
  ASSUME NEW S \in SUBSET Files, NEW T, T \subseteq S \cup {f \in Files : Size[f] = 0}
  PROVE  TotalSize(T) <= TotalSize(S)
<1> DEFINE Z == {f \in Files : Size[f] = 0}
<1>1. Units(S \cup Z) = Units(S)
  BY DEF Units
<1>2. TotalSize(T) <= TotalSize(S \cup Z)
  BY SizeGrows
<1> QED
  BY <1>1, <1>2 DEF TotalSize

-----------------------------------------------------------------------------
(* The invariant, about one cleanup c in a directory D that had the files E. *)
Recent    == {f \in Files : ~Old(f)}
Empty     == {f \in Files : Size[f] = 0}
Weight(S) == IF HasSize THEN TotalSize(S) ELSE 0
Scanning  == {"scan", "stat", "unlinkOld", "unlinkExcess"}
Operating == {"stat", "unlinkOld", "unlinkExcess", "unlinkSize"}
Trimming  == {"trim", "unlinkSize"}

(* Each file is in one place.                                              *)
Places(c) ==
  /\ \A f, g \in c.file : f = g
  /\ c.pc \notin Operating => c.file = {}
  /\ c.pc \notin Scanning => c.todo = {}
  /\ c.file \cap c.heap = {} /\ c.todo \cap c.heap = {} /\ c.todo \cap c.file = {}

Known(c, E) ==
  /\ c.todo \subseteq E /\ c.listed \subseteq E
  /\ c.heap \subseteq E \cap Recent
  /\ c.file \subseteq E /\ \A f \in c.file : Old(f) <=> c.pc = "unlinkOld"
  /\ \A o \in c.outer : o.heap \subseteq E \cap Recent

(* What the account stands for: the heap, and what is being taken off.     *)
Counted(c) == c.heap \cup (IF c.pc \in {"unlinkExcess", "unlinkSize"} THEN c.file ELSE {})
Account(c) ==
  /\ c.used = Weight(Counted(c))
  /\ \A o \in c.outer : o.used = Weight(o.heap)

(* Whatever is about to be unlinked deserves it.                           *)
Operand(c) ==
  /\ c.pc \in {"unlinkExcess", "unlinkSize"} =>
       \A f \in c.file, h \in c.heap : Stamp[h] >= Stamp[f]
  /\ c.pc = "stat" => HasSize
  /\ c.pc = "unlinkExcess" => HasCount /\ Cardinality(c.heap) = MaxCount
  /\ c.pc = "unlinkSize" => HasSize /\ c.used > MaxSize

Room(c) == c.pc \in Scanning /\ HasCount => Cardinality(c.heap) <= MaxCount

(* Whatever the scan could see and is still there is yet to come, in the    *)
(* heap, or about to be deleted.                                            *)
Forgotten == IF HasCount \/ HasSize THEN {} ELSE Recent
Seen(c, D) ==
  c.pc \in Scanning =>
    D \cap c.listed \subseteq c.todo \cup c.heap \cup c.file \cup Forgotten

Counts(c, D) ==
  c.pc \in Trimming \cup {"done"} =>
    /\ D \cap c.listed \subseteq Recent
    /\ HasCount => Cardinality(D \cap c.listed) <= MaxCount

Light(c, D) == TotalSize(D \cap c.listed) <= MaxSize
Weighed(c, D) ==
  HasSize =>
    /\ c.pc \in Trimming =>
         D \cap c.listed \subseteq c.heap \cup c.file \cup Empty \/ Light(c, D)
    /\ c.pc = "done" => Light(c, D)

CleanerInv(c, D, E) ==
  /\ Places(c) /\ Known(c, E) /\ Account(c) /\ Operand(c) /\ Room(c)
  /\ Seen(c, D) /\ Counts(c, D) /\ Weighed(c, D)

CleanupInv == TypeOK /\ \A p \in Cleaners : CleanerInv(cleaner[p], disk, ever)

-----------------------------------------------------------------------------
LEMMA WeightType == ASSUME NEW S \in SUBSET Files PROVE Weight(S) \in Nat
BY UnitsFinite DEF Weight

(* A part of a set is not larger than the set.                             *)
LEMMA FewerFiles ==
  ASSUME NEW T \in SUBSET Files, NEW S \in SUBSET T
  PROVE  /\ IsFiniteSet(S) /\ Cardinality(S) \in Nat /\ Cardinality(T) \in Nat
         /\ Cardinality(S) <= Cardinality(T) /\ TotalSize(S) <= TotalSize(T)
<1>1. IsFiniteSet(T)
  BY FilesAssumption, FS_Subset
<1> QED
  BY <1>1, FS_Subset, FS_CardinalityType, SizeGrows

(* Others can only take away what a scan could see.                        *)
LEMMA StaysInOrder ==
  ASSUME NEW c \in CleanerState, NEW D, NEW E, CleanerInv(c, D, E),
         NEW F, NEW G, F \cap c.listed \subseteq D, E \subseteq G
  PROVE  CleanerInv(c, F, G)
<1>1. F \cap c.listed \subseteq D \cap c.listed /\ D \cap c.listed \in SUBSET Files
  BY DEF CleanerState
<1>2. /\ Cardinality(F \cap c.listed) <= Cardinality(D \cap c.listed)
      /\ Cardinality(F \cap c.listed) \in Nat /\ Cardinality(D \cap c.listed) \in Nat
      /\ TotalSize(F \cap c.listed) <= TotalSize(D \cap c.listed)
      /\ TotalSize(F \cap c.listed) \in Nat /\ TotalSize(D \cap c.listed) \in Nat
  BY <1>1, FewerFiles, UnitsFinite
<1>3. Known(c, G)
  BY DEF CleanerInv, Known
<1>4. Seen(c, F)
  BY <1>1 DEF CleanerInv, Seen
<1>5. Counts(c, F)
  BY <1>1, <1>2, LimitAssumption DEF CleanerInv, Counts
<1>6. Weighed(c, F)
  BY <1>1, <1>2, LimitAssumption DEF CleanerInv, Weighed, Light
<1> QED
  BY <1>3, <1>4, <1>5, <1>6 DEF CleanerInv

(* One cleanup goes on, to a state that is in order.                       *)
LEMMA StepInOrder ==
  ASSUME CleanupInv, NEW p \in Cleaners, NEW c \in CleanerState,
         CleanerInv(c, disk', ever'), disk' \subseteq disk, ever' = ever, Set(p, c)
  PROVE  CleanupInv'
<1>1. /\ cleaner' = [cleaner EXCEPT ![p] = c] /\ cleaner \in [Cleaners -> CleanerState]
      /\ disk' \subseteq ever' /\ ever' \subseteq Files
  BY DEF Set, CleanupInv, TypeOK
<1>2. ASSUME NEW q \in Cleaners PROVE CleanerInv(cleaner'[q], disk', ever')
  <2>1. CASE q = p
    BY <1>1, <2>1
  <2>2. CASE q # p
    <3>1. /\ cleaner'[q] = cleaner[q] /\ CleanerInv(cleaner[q], disk, ever)
          /\ cleaner[q] \in CleanerState
      BY <1>1, <2>2 DEF CleanupInv
    <3> QED
      BY <3>1, StaysInOrder
  <2> QED
    BY <2>1, <2>2
<1>3. cleaner' \in [Cleaners -> CleanerState]
  BY <1>1
<1> QED
  BY <1>1, <1>2, <1>3 DEF CleanupInv, TypeOK

(* A cleanup returns that has left no more than it may.                    *)
LEMMA ReturnInOrder ==
  ASSUME NEW c \in CleanerState, NEW D, NEW E, CleanerInv(c, D, E),
         c.pc \in {"start", "trim"}, NEW l \in SUBSET c.listed,
         D \cap l \subseteq Recent, HasCount => Cardinality(D \cap l) <= MaxCount,
         HasSize => TotalSize(D \cap l) <= MaxSize
  PROVE  /\ [Returned(c) EXCEPT !.listed = l] \in CleanerState
         /\ CleanerInv([Returned(c) EXCEPT !.listed = l], D, E)
<1> DEFINE r == [Returned(c) EXCEPT !.listed = l]
<1>1. /\ c.file = {} /\ c.todo = {} /\ c.listed \in SUBSET Files /\ c.listed \subseteq E
      /\ \A o \in c.outer : /\ o.used = Weight(o.heap) /\ o.heap \subseteq E \cap Recent
                            /\ o \in [heap : SUBSET Files, used : Nat]
  BY DEF CleanerInv, Places, Known, Account, Scanning, Operating, CleanerState
<1>2. /\ r \in CleanerState /\ r.pc \in {"trim", "done"} /\ r.file = {} /\ r.todo = {}
      /\ r.listed = l /\ r.used = Weight(r.heap) /\ r.heap \subseteq E \cap Recent
      /\ r.outer = {}
  <2>1. CASE c.outer = {}
    BY <1>1, <2>1, NoUnits DEF Returned, Fresh, CleanerState, Weight
  <2>2. CASE c.outer # {}
    <3> DEFINE o == CHOOSE x \in c.outer : TRUE
    <3>1. o \in c.outer
      BY <2>2
    <3>2. Returned(c) = [c EXCEPT !.pc = "trim", !.heap = o.heap, !.used = o.used, !.outer = {}]
      BY <2>2 DEF Returned
    <3>3. /\ o.used = Weight(o.heap) /\ o.heap \subseteq E \cap Recent
          /\ o.heap \in SUBSET Files /\ o.used \in Nat
      BY <1>1, <3>1
    <3> HIDE DEF o
    <3>4. r = [c EXCEPT !.pc = "trim", !.heap = o.heap, !.used = o.used, !.outer = {}, !.listed = l]
      BY <3>2
    <3> HIDE DEF r
    <3> QED
      BY <1>1, <3>3, <3>4 DEF CleanerState
  <2> QED
    BY <2>1, <2>2
<1> HIDE DEF r
<1>3. Places(r) /\ Known(r, E) /\ Operand(r) /\ Room(r) /\ Seen(r, D)
  BY <1>1, <1>2 DEF Places, Known, Operand, Room, Seen, Scanning, Operating
<1>4. Account(r)
  BY <1>2 DEF Account, Counted
<1>5. Counts(r, D) /\ Weighed(r, D)
  BY <1>2 DEF Counts, Weighed, Light
<1>6. CleanerInv(r, D, E)
  BY <1>3, <1>4, <1>5 DEF CleanerInv
<1> QED
  BY <1>2, <1>6 DEF r

(* One that has something cut short has nothing to answer for.             *)
LEMMA CutShort ==
  ASSUME NEW D
  PROVE  /\ D \cap {} \subseteq Recent
         /\ HasCount => Cardinality(D \cap {}) <= MaxCount
         /\ TotalSize(D \cap {}) <= MaxSize
<1>1. D \cap {} = {}
  OBVIOUS
<1> QED
  BY <1>1, NoUnits, FS_EmptySet, LimitAssumption

-----------------------------------------------------------------------------
LEMMA InOrderNow ==
  ASSUME CleanupInv, NEW p \in Cleaners
  PROVE  /\ cleaner[p] \in CleanerState /\ CleanerInv(cleaner[p], disk, ever)
         /\ disk \subseteq ever /\ ever \subseteq Files
BY DEF CleanupInv, TypeOK

LEMMA OpenKeeps == ASSUME CleanupInv, NEW p \in Cleaners, Open(p) PROVE CleanupInv'
<1> DEFINE c == cleaner[p]
<1>1. /\ c \in CleanerState /\ CleanerInv(c, disk, ever) /\ c.pc = "start"
      /\ disk \subseteq ever /\ ever \subseteq Files /\ disk' = disk /\ ever' = ever
  BY InOrderNow DEF Open
<1>2. CASE Set(p, [c EXCEPT !.pc = "scan", !.todo = disk, !.listed = disk,
                            !.heap = {}, !.used = 0])
  <2> DEFINE d == [c EXCEPT !.pc = "scan", !.todo = disk, !.listed = disk,
                            !.heap = {}, !.used = 0]
  <2>1. /\ d \in CleanerState /\ d.pc = "scan" /\ d.todo = disk /\ d.listed = disk
        /\ d.heap = {} /\ d.used = 0 /\ d.file = c.file /\ d.outer = c.outer
    BY <1>1 DEF CleanerState
  <2>2. Set(p, d)
    BY <1>2
  <2> HIDE DEF c, d
  <2>3. Places(d) /\ Known(d, ever) /\ Operand(d)
    BY <1>1, <2>1 DEF CleanerInv, Places, Known, Operand, Scanning, Operating
  <2>4. Account(d)
    BY <1>1, <2>1, NoUnits DEF CleanerInv, Account, Counted, Weight
  <2>5. Room(d) /\ Seen(d, disk) /\ Counts(d, disk) /\ Weighed(d, disk)
    BY <2>1, FS_EmptySet, LimitAssumption DEF Room, Seen, Counts, Weighed, Trimming
  <2>6. CleanerInv(d, disk, ever)
    BY <2>3, <2>4, <2>5 DEF CleanerInv
  <2> QED
    BY <1>1, <2>1, <2>2, <2>6, StepInOrder
<1>3. CASE Set(p, [Returned(c) EXCEPT !.listed = {}])
  <2> DEFINE d == [Returned(c) EXCEPT !.listed = {}]
  <2>1. d \in CleanerState /\ CleanerInv(d, disk, ever)
    BY <1>1, CutShort, ReturnInOrder
  <2> HIDE DEF d
  <2>2. Set(p, d)
    BY <1>3 DEF d
  <2> QED
    BY <1>1, <2>1, <2>2, StepInOrder
<1> QED
  BY <1>2, <1>3 DEF Open

LEMMA AddCount ==
  ASSUME NEW S, IsFiniteSet(S), NEW x
  PROVE  Cardinality(S \cup {x}) <= Cardinality(S) + 1
<1>1. Cardinality(S) \in Nat
  BY FS_CardinalityType
<1>2. CASE x \in S
  BY <1>1, <1>2, FS_AddElement
<1>3. CASE x \notin S
  <2>1. Cardinality(S \cup {x}) = IF x \in S THEN Cardinality(S) ELSE Cardinality(S) + 1
    BY FS_AddElement
  <2> QED
    BY <1>1, <1>3, <2>1
<1> QED
  BY <1>2, <1>3

(* c is about to put the recent file f into its heap.                       *)
Ready(c, f, D, E) ==
  /\ c \in CleanerState /\ c.pc \in {"scan", "stat"}
  /\ f \in E \cap Recent /\ f \notin c.heap /\ f \notin c.todo /\ c.todo \cap c.heap = {}
  /\ c.todo \subseteq E /\ c.listed \subseteq E /\ c.heap \subseteq E \cap Recent
  /\ \A o \in c.outer : o.heap \subseteq E \cap Recent /\ o.used = Weight(o.heap)
  /\ c.used = Weight(c.heap)
  /\ HasCount => Cardinality(c.heap) <= MaxCount
  /\ D \cap c.listed \subseteq c.todo \cup c.heap \cup {f} \cup Forgotten

(* The heap with one more recent file, and what is taken out again.        *)
LEMMA PushKeeps ==
  ASSUME CleanupInv, NEW p \in Cleaners, NEW c, NEW f, Ready(c, f, disk, ever),
         UNCHANGED <<disk, ever>>, Push(p, c, f, Weight(c.heap \cup {f}))
  PROVE  CleanupInv'
<1> DEFINE heap == c.heap \cup {f}
           used == Weight(heap)
<1>1. /\ disk \subseteq ever /\ ever \subseteq Files /\ f \in Files /\ heap \subseteq Files
      /\ c.heap \subseteq Files /\ heap \subseteq ever \cap Recent
      /\ IsFiniteSet(c.heap) /\ IsFiniteSet(heap)
      /\ Cardinality(c.heap) \in Nat /\ Cardinality(heap) \in Nat /\ used \in Nat
  <2>1. /\ disk \subseteq ever /\ ever \subseteq Files /\ f \in Files /\ heap \subseteq Files
        /\ c.heap \subseteq Files /\ heap \subseteq ever \cap Recent
    BY DEF CleanupInv, TypeOK, Ready, CleanerState
  <2> QED
    BY <2>1, FewerFiles, WeightType
<1>2. CASE ~HasCount /\ ~HasSize /\ Set(p, [c EXCEPT !.pc = "scan", !.file = {}])
  <2> DEFINE d == [c EXCEPT !.pc = "scan", !.file = {}]
  <2>1. /\ d \in CleanerState /\ d.pc = "scan" /\ d.file = {} /\ d.heap = c.heap
        /\ d.todo = c.todo /\ d.listed = c.listed /\ d.outer = c.outer /\ d.used = c.used
    BY DEF CleanerState, Ready
  <2> HIDE DEF d
  <2>2. Places(d) /\ Known(d, ever) /\ Operand(d) /\ Room(d)
    BY <2>1 DEF Ready, Places, Known, Operand, Room, Scanning, Operating
  <2>3. Account(d) /\ Counts(d, disk) /\ Weighed(d, disk)
    BY <2>1 DEF Ready, Account, Counted, Counts, Weighed, Trimming
  <2>4. Seen(d, disk)
    BY <1>2, <2>1 DEF Ready, Seen, Forgotten
  <2>5. CleanerInv(d, disk, ever)
    BY <2>2, <2>3, <2>4 DEF CleanerInv
  <2>6. Set(p, d)
    BY <1>2 DEF d
  <2> QED
    BY <2>1, <2>5, <2>6, StepInOrder
<1>3. CASE ~TooMany(heap) /\ Set(p, [c EXCEPT !.pc = "scan", !.file = {}, !.heap = heap,
                                             !.used = used])
  <2> DEFINE d == [c EXCEPT !.pc = "scan", !.file = {}, !.heap = heap, !.used = used]
  <2>1. Set(p, d)
    BY <1>3
  <2> HIDE DEF heap, used
  <2>2. /\ d \in CleanerState /\ d.pc = "scan" /\ d.file = {} /\ d.heap = heap
        /\ d.todo = c.todo /\ d.listed = c.listed /\ d.outer = c.outer /\ d.used = used
    BY <1>1 DEF CleanerState, Ready
  <2> HIDE DEF d
  <2>3. c.todo \cap heap = {} /\ disk \cap c.listed \subseteq c.todo \cup heap \cup Forgotten
    BY DEF Ready, heap
  <2>4. Places(d) /\ Known(d, ever) /\ Operand(d)
    BY <1>1, <2>2, <2>3 DEF Ready, Places, Known, Operand, Scanning, Operating
  <2>5. Account(d) /\ Counts(d, disk) /\ Weighed(d, disk)
    BY <2>2 DEF Ready, Account, Counted, Counts, Weighed, Trimming, used
  <2>6. Seen(d, disk)
    BY <2>2, <2>3 DEF Seen
  <2>7. Room(d)
    BY <1>1, <1>3, <2>2, LimitAssumption DEF Room, TooMany
  <2>8. CleanerInv(d, disk, ever)
    BY <2>4, <2>5, <2>6, <2>7 DEF CleanerInv
  <2> QED
    BY <2>1, <2>2, <2>8, StepInOrder
<1>4. ASSUME TooMany(heap), NEW v \in Victims(heap),
             Set(p, [c EXCEPT !.pc = "unlinkExcess", !.file = {v}, !.heap = heap \ {v},
                              !.used = used])
      PROVE  CleanupInv'
  <2> DEFINE less == heap \ {v}
             d == [c EXCEPT !.pc = "unlinkExcess", !.file = {v}, !.heap = less, !.used = used]
  <2>1. Set(p, d)
    BY <1>4
  <2>2. v \in heap /\ \A h \in heap : Stamp[v] <= Stamp[h]
    BY <1>4 DEF Victims, Oldest
  <2>3. HasCount /\ Cardinality(less) = MaxCount
    <3>1. Cardinality(heap) <= Cardinality(c.heap) + 1
      BY <1>1, AddCount
    <3>2. Cardinality(less) = Cardinality(heap) - 1
      BY <1>1, <2>2, FS_RemoveElement
    <3>3. HasCount /\ Cardinality(heap) > MaxCount
      BY <1>4 DEF TooMany
    <3>4. Cardinality(c.heap) <= MaxCount
      BY <3>3 DEF Ready
    <3> HIDE DEF heap, less
    <3> QED
      BY <1>1, <3>1, <3>2, <3>3, <3>4, LimitAssumption
  <2>4. less \cup {v} = heap /\ v \notin less /\ c.todo \cap heap = {}
        /\ disk \cap c.listed \subseteq c.todo \cup heap \cup Forgotten
    BY <2>2 DEF Ready
  <2> HIDE DEF heap, used, less
  <2>5. /\ d \in CleanerState /\ d.pc = "unlinkExcess" /\ d.file = {v} /\ d.heap = less
        /\ d.todo = c.todo /\ d.listed = c.listed /\ d.outer = c.outer /\ d.used = used
    BY <1>1, <2>2, <2>4 DEF CleanerState, Ready
  <2> HIDE DEF d
  <2>6. Places(d) /\ Known(d, ever)
    BY <1>1, <2>2, <2>4, <2>5 DEF Ready, Places, Known, Scanning, Operating, Recent
  <2>7. Account(d) /\ Counts(d, disk) /\ Weighed(d, disk)
    BY <2>4, <2>5 DEF Ready, Account, Counted, Counts, Weighed, Trimming, used
  <2>8. Operand(d) /\ Room(d)
    <3>1. \A h \in less : Stamp[h] >= Stamp[v]
      BY <1>1, <2>2, <2>4, StampAssumption
    <3> QED
      BY <2>3, <2>5, <3>1, LimitAssumption DEF Operand, Room
  <2>9. Seen(d, disk)
    BY <2>4, <2>5 DEF Seen
  <2>10. CleanerInv(d, disk, ever)
    BY <2>6, <2>7, <2>8, <2>9 DEF CleanerInv
  <2> QED
    BY <2>1, <2>5, <2>10, StepInOrder
<1> QED
  BY <1>2, <1>3, <1>4 DEF Push

LEMMA NextEntryKeeps ==
  ASSUME CleanupInv, NEW p \in Cleaners, NextEntry(p) PROVE CleanupInv'
<1> DEFINE b == cleaner[p]
<1>1. /\ b \in CleanerState /\ CleanerInv(b, disk, ever) /\ b.pc = "scan"
      /\ disk \subseteq ever /\ ever \subseteq Files /\ UNCHANGED <<disk, ever>>
  BY InOrderNow DEF NextEntry
<1>2. PICK f \in b.todo :
        LET c == [b EXCEPT !.todo = @ \ {f}] IN
        \/ f \notin disk /\ Set(p, c)
        \/ Old(f) /\ Set(p, [c EXCEPT !.pc = "unlinkOld", !.file = {f}])
        \/ ~Old(f) /\ HasSize /\ Set(p, [c EXCEPT !.pc = "stat", !.file = {f}])
        \/ ~Old(f) /\ ~HasSize /\ Push(p, c, f, 0)
  BY <1>1 DEF NextEntry
<1> DEFINE c == [b EXCEPT !.todo = @ \ {f}]
<1>3. /\ c \in CleanerState /\ c.pc = "scan" /\ c.heap = b.heap /\ c.outer = b.outer
      /\ c.used = b.used /\ c.todo = b.todo \ {f} /\ c.listed = b.listed /\ c.file = b.file
      /\ f \in Files
  BY <1>1 DEF CleanerState
<1>4. /\ b.file = {} /\ b.todo \cap b.heap = {} /\ f \in ever /\ f \notin b.heap
      /\ b.todo \subseteq ever /\ b.listed \subseteq ever /\ b.heap \subseteq ever \cap Recent
      /\ \A o \in b.outer : o.heap \subseteq ever \cap Recent /\ o.used = Weight(o.heap)
      /\ b.used = Weight(b.heap)
      /\ HasCount => Cardinality(b.heap) <= MaxCount
      /\ disk \cap b.listed \subseteq b.todo \cup b.heap \cup Forgotten
  BY <1>1, <1>2 DEF CleanerInv, Places, Known, Account, Counted, Room, Seen, Scanning, Operating
<1>5. CASE f \notin disk /\ Set(p, c)
  <2> HIDE DEF b, c
  <2>1. Places(c) /\ Known(c, ever) /\ Operand(c) /\ Room(c)
    BY <1>3, <1>4 DEF Places, Known, Operand, Room, Scanning, Operating
  <2>2. Account(c) /\ Counts(c, disk) /\ Weighed(c, disk)
    BY <1>3, <1>4 DEF Account, Counted, Counts, Weighed, Trimming
  <2>3. Seen(c, disk)
    BY <1>3, <1>4, <1>5 DEF Seen
  <2>4. CleanerInv(c, disk, ever)
    BY <2>1, <2>2, <2>3 DEF CleanerInv
  <2> QED
    BY <1>1, <1>3, <1>5, <2>4, StepInOrder
<1>6. ASSUME NEW pc, \/ pc = "unlinkOld" /\ Old(f)
                     \/ pc = "stat" /\ ~Old(f) /\ HasSize,
             Set(p, [c EXCEPT !.pc = pc, !.file = {f}])
      PROVE  CleanupInv'
  <2> DEFINE d == [c EXCEPT !.pc = pc, !.file = {f}]
  <2>1. Set(p, d)
    BY <1>6
  <2> HIDE DEF b, c
  <2>2. /\ d \in CleanerState /\ d.pc = pc /\ d.file = {f} /\ d.heap = c.heap
        /\ d.todo = c.todo /\ d.listed = c.listed /\ d.outer = c.outer /\ d.used = c.used
    BY <1>3, <1>6 DEF CleanerState
  <2> HIDE DEF d
  <2>3. Places(d) /\ Known(d, ever) /\ Operand(d) /\ Room(d)
    BY <1>3, <1>4, <1>6, <2>2 DEF Places, Known, Operand, Room, Scanning, Operating
  <2>4. Account(d) /\ Counts(d, disk) /\ Weighed(d, disk)
    BY <1>3, <1>4, <1>6, <2>2 DEF Account, Counted, Counts, Weighed, Trimming
  <2>5. Seen(d, disk)
    BY <1>3, <1>4, <1>6, <2>2 DEF Seen
  <2>6. CleanerInv(d, disk, ever)
    BY <2>3, <2>4, <2>5 DEF CleanerInv
  <2> QED
    BY <1>1, <2>1, <2>2, <2>6, StepInOrder
<1>7. CASE ~Old(f) /\ ~HasSize /\ Push(p, c, f, 0)
  <2>1. Ready(c, f, disk, ever)
    <3> HIDE DEF b, c
    <3> QED
      BY <1>2, <1>3, <1>4, <1>7 DEF Ready, Recent
  <2>2. Weight(c.heap \cup {f}) = 0
    BY <1>7 DEF Weight
  <2>3. Push(p, c, f, Weight(c.heap \cup {f}))
    BY <1>7, <2>2
  <2> HIDE DEF b, c
  <2> QED
    BY <1>1, <2>1, <2>3, PushKeeps
<1> QED
  BY <1>2, <1>5, <1>6, <1>7

LEMMA StatKeeps == ASSUME CleanupInv, NEW p \in Cleaners, Stat(p) PROVE CleanupInv'
<1> DEFINE c == cleaner[p]
<1>1. /\ c \in CleanerState /\ CleanerInv(c, disk, ever) /\ c.pc = "stat"
      /\ disk \subseteq ever /\ ever \subseteq Files /\ UNCHANGED <<disk, ever>>
  BY InOrderNow DEF Stat
<1>a. HasSize
  BY <1>1 DEF CleanerInv, Operand
<1>2. PICK f \in c.file :
       \/ f \in disk /\ Push(p, c, f, c.used + Size[f])
       \/ Set(p, [c EXCEPT !.pc = "scan", !.file = {},
                           !.listed = IF f \in disk THEN {} ELSE @])
  BY DEF Stat
<1>3. /\ c.file = {f} /\ f \in ever \cap Recent /\ f \notin c.heap /\ f \notin c.todo
      /\ c.todo \cap c.heap = {}
      /\ c.todo \subseteq ever /\ c.listed \subseteq ever /\ c.heap \subseteq ever \cap Recent
      /\ \A o \in c.outer : o.heap \subseteq ever \cap Recent /\ o.used = Weight(o.heap)
      /\ c.used = Weight(c.heap)
      /\ HasCount => Cardinality(c.heap) <= MaxCount
      /\ disk \cap c.listed \subseteq c.todo \cup c.heap \cup {f} \cup Forgotten
  <2>1. c.file = {f} /\ f \in ever /\ ~Old(f)
    BY <1>1, <1>2 DEF CleanerInv, Places, Known
  <2> QED
    BY <1>1, <2>1 DEF CleanerInv, Places, Known, Account, Counted, Room, Seen, Scanning, Recent
<1>4. ASSUME HasSize, Push(p, c, f, c.used + Size[f]) PROVE CleanupInv'
  <2>1. Ready(c, f, disk, ever)
    BY <1>1, <1>3 DEF Ready
  <2>2. c.heap \in SUBSET Files /\ f \in Files \ c.heap
    BY <1>1, <1>3 DEF CleanerState
  <2>3. Weight(c.heap \cup {f}) = c.used + Size[f]
    BY <1>3, <1>4, <2>2, SizeOfOneMore DEF Weight
  <2>4. Push(p, c, f, Weight(c.heap \cup {f}))
    BY <1>4, <2>3
  <2> HIDE DEF c
  <2> QED
    BY <1>1, <2>1, <2>4, PushKeeps
<1>5. CASE Set(p, [c EXCEPT !.pc = "scan", !.file = {},
                            !.listed = IF f \in disk THEN {} ELSE @])
  <2> DEFINE l == IF f \in disk THEN {} ELSE c.listed
             d == [c EXCEPT !.pc = "scan", !.file = {}, !.listed = l]
  <2>1. Set(p, d)
    BY <1>5
  <2>2. l \in SUBSET Files /\ l \subseteq c.listed
        /\ disk \cap l \subseteq c.todo \cup c.heap \cup Forgotten
    BY <1>1, <1>3 DEF CleanerState
  <2> HIDE DEF c, l
  <2>3. /\ d \in CleanerState /\ d.pc = "scan" /\ d.file = {} /\ d.heap = c.heap
        /\ d.todo = c.todo /\ d.listed = l /\ d.outer = c.outer /\ d.used = c.used
    BY <1>1, <2>2 DEF CleanerState
  <2> HIDE DEF d
  <2>4. Places(d) /\ Known(d, ever) /\ Operand(d) /\ Room(d)
    BY <1>3, <2>2, <2>3 DEF Places, Known, Operand, Room, Scanning, Operating
  <2>5. Account(d) /\ Counts(d, disk) /\ Weighed(d, disk) /\ Seen(d, disk)
    BY <1>3, <2>2, <2>3 DEF Account, Counted, Counts, Weighed, Seen, Trimming
  <2>6. CleanerInv(d, disk, ever)
    BY <2>4, <2>5 DEF CleanerInv
  <2> QED
    BY <1>1, <2>1, <2>3, <2>6, StepInOrder
<1> QED
  BY <1>a, <1>2, <1>4, <1>5

LEMMA UnlinkKeeps == ASSUME CleanupInv, NEW p \in Cleaners, Unlink(p) PROVE CleanupInv'
<1> DEFINE c == cleaner[p]
<1>1. /\ c \in CleanerState /\ CleanerInv(c, disk, ever)
      /\ c.pc \in {"unlinkOld", "unlinkExcess", "unlinkSize"}
      /\ disk \subseteq ever /\ ever \subseteq Files /\ ever' = ever
  BY InOrderNow DEF Unlink
<1>2. PICK f \in c.file, fails \in BOOLEAN :
       /\ disk' = IF fails THEN disk ELSE disk \ {f}
       /\ Set(p, [c EXCEPT
            !.pc = IF c.pc = "unlinkSize" THEN "trim" ELSE "scan",
            !.file = {},
            !.used = @ - Freed(c, f),
            !.listed = IF fails /\ f \in disk THEN {} ELSE @])
  BY DEF Unlink
<1> DEFINE l  == IF fails /\ f \in disk THEN {} ELSE c.listed
           pc == IF c.pc = "unlinkSize" THEN "trim" ELSE "scan"
           d  == [c EXCEPT !.pc = pc, !.file = {}, !.used = @ - Freed(c, f), !.listed = l]
<1>3. /\ c.file = {f} /\ f \in ever /\ f \notin c.heap /\ f \notin c.todo
      /\ c.todo \cap c.heap = {} /\ (c.pc = "unlinkSize" => c.todo = {})
      /\ c.todo \subseteq ever /\ c.listed \subseteq ever /\ c.heap \subseteq ever \cap Recent
      /\ \A o \in c.outer : o.heap \subseteq ever \cap Recent /\ o.used = Weight(o.heap)
      /\ c.used = Weight(Counted(c))
      /\ c.heap \in SUBSET Files /\ f \in Files
  BY <1>1, <1>2 DEF CleanerInv, Places, Known, Account, Scanning, CleanerState
<1>4. Set(p, d)
  BY <1>2
<1>5. /\ disk' \subseteq disk /\ l \in SUBSET Files /\ l \subseteq c.listed
      /\ disk' \cap l \subseteq (disk \cap c.listed) \ {f}
  <2>1. CASE fails
    BY <1>1, <1>2, <2>1 DEF CleanerState
  <2>2. CASE ~fails
    BY <1>1, <1>2, <2>2 DEF CleanerState
  <2> QED
    BY <2>1, <2>2
<1>6. c.used - Freed(c, f) = Weight(c.heap)
  <2>1. CASE c.pc = "unlinkOld"
    BY <1>3, <2>1, WeightType DEF Counted, Freed
  <2>2. CASE c.pc # "unlinkOld" /\ ~HasSize
    BY <1>3, <2>2 DEF Weight, Freed
  <2>3. CASE c.pc # "unlinkOld" /\ HasSize
    <3>1. Counted(c) = c.heap \cup {f} /\ f \in Files \ c.heap
      BY <1>1, <1>3, <2>3 DEF Counted
    <3>2. TotalSize(c.heap \cup {f}) = TotalSize(c.heap) + Size[f]
      BY <1>3, <3>1, SizeOfOneMore
    <3>3. TotalSize(c.heap) \in Nat /\ Size[f] \in Nat
      BY <1>3, UnitsFinite, SizeAssumption
    <3>4. c.used = TotalSize(c.heap) + Size[f]
      BY <1>3, <2>3, <3>1, <3>2 DEF Weight
    <3> HIDE DEF c
    <3> QED
      BY <2>3, <3>3, <3>4 DEF Weight, Freed
  <2> QED
    BY <2>1, <2>2, <2>3
<1> HIDE DEF c, l
<1>7. /\ d \in CleanerState /\ d.pc = pc /\ d.file = {} /\ d.heap = c.heap /\ d.todo = c.todo
      /\ d.listed = l /\ d.outer = c.outer /\ d.used = Weight(c.heap)
  BY <1>1, <1>3, <1>5, <1>6, WeightType DEF CleanerState
<1> HIDE DEF d
<1>8. Places(d) /\ Known(d, ever) /\ Account(d)
  BY <1>1, <1>3, <1>5, <1>7
     DEF Places, Known, Account, Counted, Scanning, Operating
<1>9. Operand(d) /\ Room(d)
  BY <1>1, <1>7, LimitAssumption DEF CleanerInv, Operand, Room, Scanning
<1>10. Seen(d, disk')
  BY <1>1, <1>3, <1>5, <1>7 DEF CleanerInv, Seen, Scanning
<1>11. Counts(d, disk') /\ Weighed(d, disk')
  <2>1. CASE c.pc = "unlinkSize"
    <3>1. disk' \cap l \subseteq disk \cap c.listed /\ disk \cap c.listed \in SUBSET Files
      BY <1>1, <1>5 DEF CleanerState
    <3>2. /\ Cardinality(disk' \cap l) <= Cardinality(disk \cap c.listed)
          /\ Cardinality(disk' \cap l) \in Nat /\ Cardinality(disk \cap c.listed) \in Nat
          /\ TotalSize(disk' \cap l) <= TotalSize(disk \cap c.listed)
          /\ TotalSize(disk' \cap l) \in Nat /\ TotalSize(disk \cap c.listed) \in Nat
      BY <3>1, FewerFiles, UnitsFinite
    <3>3. Counts(d, disk')
      BY <1>1, <1>7, <2>1, <3>1, <3>2, LimitAssumption DEF CleanerInv, Counts, Trimming
    <3>4. Weighed(d, disk')
      BY <1>1, <1>3, <1>5, <1>7, <2>1, <3>2, LimitAssumption
         DEF CleanerInv, Weighed, Trimming, Light
    <3> QED
      BY <3>3, <3>4
  <2>2. CASE c.pc # "unlinkSize"
    BY <1>7, <2>2 DEF Counts, Weighed, Trimming
  <2> QED
    BY <2>1, <2>2
<1>12. CleanerInv(d, disk', ever)
  BY <1>8, <1>9, <1>10, <1>11 DEF CleanerInv
<1> QED
  BY <1>1, <1>4, <1>5, <1>7, <1>12, StepInOrder

(* A scan is over that has met all the files it has to answer for, l.       *)
OverInOrder(c, l, D) ==
  /\ l \in SUBSET Files /\ l \subseteq c.listed
  /\ D \cap l \subseteq c.heap \cup Forgotten

LEMMA ScanOver ==
  ASSUME NEW c \in CleanerState, NEW D, NEW E, CleanerInv(c, D, E), c.pc = "scan",
         NEW l, OverInOrder(c, l, D)
  PROVE  /\ [c EXCEPT !.pc = "trim", !.todo = {}, !.listed = l] \in CleanerState
         /\ CleanerInv([c EXCEPT !.pc = "trim", !.todo = {}, !.listed = l], D, E)
<1> DEFINE d == [c EXCEPT !.pc = "trim", !.todo = {}, !.listed = l]
<1>1. /\ d \in CleanerState /\ d.pc = "trim" /\ d.file = c.file /\ d.heap = c.heap
      /\ d.todo = {} /\ d.listed = l /\ d.outer = c.outer /\ d.used = c.used
      /\ c.file = {} /\ c.heap \in SUBSET Files
  BY DEF CleanerInv, Places, Operating, CleanerState, OverInOrder
<1> HIDE DEF d
<1>2. Places(d) /\ Known(d, E) /\ Account(d) /\ Operand(d)
  BY <1>1 DEF CleanerInv, Places, Known, Account, Counted, Operand, Scanning, Operating,
              OverInOrder
<1>3. Room(d) /\ Seen(d, D)
  BY <1>1 DEF Room, Seen, Scanning
<1>4. D \cap l \subseteq c.heap \cup Forgotten /\ c.heap \subseteq Recent
      /\ (HasCount => Cardinality(c.heap) <= MaxCount)
  BY DEF CleanerInv, Known, Room, Scanning, OverInOrder
<1>5. Counts(d, D)
  <2>1. D \cap l \subseteq Recent
    BY <1>4 DEF Forgotten
  <2>2. ASSUME HasCount PROVE Cardinality(D \cap l) <= MaxCount
    <3>1. D \cap l \subseteq c.heap
      BY <1>4, <2>2 DEF Forgotten
    <3> QED
      BY <1>1, <1>4, <2>2, <3>1, FewerFiles, LimitAssumption
  <2> QED
    BY <1>1, <2>1, <2>2 DEF Counts
<1>6. Weighed(d, D)
  BY <1>1, <1>4 DEF Weighed, Forgotten
<1>7. CleanerInv(d, D, E)
  BY <1>2, <1>3, <1>5, <1>6 DEF CleanerInv
<1> QED
  BY <1>1, <1>7 DEF d

LEMMA EndScanKeeps == ASSUME CleanupInv, NEW p \in Cleaners, EndScan(p) PROVE CleanupInv'
<1> DEFINE c == cleaner[p]
           l == IF c.todo = {} THEN c.listed ELSE {}
           d == [c EXCEPT !.pc = "trim", !.todo = {}, !.listed = l]
<1>1. /\ c \in CleanerState /\ CleanerInv(c, disk, ever) /\ c.pc = "scan"
      /\ disk \subseteq ever /\ ever \subseteq Files /\ UNCHANGED <<disk, ever>>
  BY InOrderNow DEF EndScan
<1>2. Set(p, d)
  BY DEF EndScan
<1>3. OverInOrder(c, l, disk)
  BY <1>1 DEF CleanerInv, Seen, Scanning, Places, Operating, OverInOrder, CleanerState
<1> HIDE DEF c, l
<1>4. d \in CleanerState /\ CleanerInv(d, disk, ever)
  BY <1>1, <1>3, ScanOver
<1> HIDE DEF d
<1> QED
  BY <1>1, <1>2, <1>4, StepInOrder

LEMMA ScanFailsKeeps == ASSUME CleanupInv, NEW p \in Cleaners, ScanFails(p) PROVE CleanupInv'
<1> DEFINE c == cleaner[p]
<1>1. /\ c \in CleanerState /\ CleanerInv(c, disk, ever) /\ c.pc = "scan"
      /\ disk \subseteq ever /\ ever \subseteq Files /\ UNCHANGED <<disk, ever>>
  BY InOrderNow DEF ScanFails
<1>2. CASE c.retriesLeft > 0
  <2> DEFINE d == [c EXCEPT !.pc = "start", !.retriesLeft = @ - 1, !.todo = {},
                            !.outer = {[heap |-> c.heap, used |-> c.used]}]
  <2>1. Set(p, d)
    BY <1>2 DEF ScanFails
  <2>2. /\ c.file = {} /\ c.heap \subseteq ever \cap Recent /\ c.listed \subseteq ever
        /\ c.used = Weight(c.heap) /\ c.retriesLeft - 1 \in {0, 1}
    BY <1>1, <1>2 DEF CleanerInv, Places, Known, Account, Counted, Operating, CleanerState
  <2> DEFINE o == [heap |-> c.heap, used |-> c.used]
  <2>3. o \in [heap : SUBSET Files, used : Nat] /\ o.heap = c.heap /\ o.used = c.used
    BY <1>1 DEF CleanerState
  <2> HIDE DEF c, o
  <2>4. d \in CleanerState
    BY <1>1, <2>2, <2>3 DEF CleanerState
  <2>5. /\ d.pc = "start" /\ d.file = {} /\ d.heap = c.heap /\ d.todo = {}
        /\ d.listed = c.listed /\ d.outer = {o} /\ d.used = c.used
    BY <1>1, <2>2 DEF CleanerState, o
  <2> HIDE DEF d
  <2>6. Places(d) /\ Operand(d) /\ Room(d) /\ Seen(d, disk) /\ Counts(d, disk)
        /\ Weighed(d, disk)
    BY <2>5 DEF Places, Operand, Room, Seen, Counts, Weighed, Scanning, Operating, Trimming
  <2>7. Known(d, ever) /\ Account(d)
    BY <2>2, <2>3, <2>5 DEF Known, Account, Counted
  <2>8. CleanerInv(d, disk, ever)
    BY <2>6, <2>7 DEF CleanerInv
  <2> QED
    BY <1>1, <2>1, <2>4, <2>8, StepInOrder
<1>3. CASE ~(c.retriesLeft > 0)
  <2> DEFINE d == [c EXCEPT !.pc = "trim", !.todo = {}, !.listed = {}]
  <2>1. Set(p, d)
    BY <1>3 DEF ScanFails
  <2>2. OverInOrder(c, {}, disk)
    BY DEF OverInOrder
  <2> HIDE DEF c
  <2>3. d \in CleanerState /\ CleanerInv(d, disk, ever)
    BY <1>1, <2>2, ScanOver
  <2> HIDE DEF d
  <2> QED
    BY <1>1, <2>1, <2>3, StepInOrder
<1> QED
  BY <1>2, <1>3

LEMMA TrimKeeps == ASSUME CleanupInv, NEW p \in Cleaners, Trim(p) PROVE CleanupInv'
<1> DEFINE c == cleaner[p]
<1>1. /\ c \in CleanerState /\ CleanerInv(c, disk, ever) /\ c.pc = "trim"
      /\ disk \subseteq ever /\ ever \subseteq Files /\ UNCHANGED <<disk, ever>>
  BY InOrderNow DEF Trim
<1>2. /\ c.file = {} /\ c.todo = {} /\ c.used = Weight(c.heap) /\ c.used \in Nat
      /\ c.heap \in SUBSET Files /\ c.heap \subseteq ever \cap Recent /\ c.listed \subseteq ever
      /\ c.listed \in SUBSET Files /\ disk \cap c.listed \subseteq Recent
      /\ (HasCount => Cardinality(disk \cap c.listed) <= MaxCount)
      /\ (HasSize => \/ disk \cap c.listed \subseteq c.heap \cup Empty
                     \/ Light(c, disk))
      /\ \A o \in c.outer : o.heap \subseteq ever \cap Recent /\ o.used = Weight(o.heap)
  BY <1>1 DEF CleanerInv, Places, Known, Account, Counted, Counts, Weighed, Scanning,
              Operating, Trimming, CleanerState
<1>3. CASE (~HasSize \/ c.heap = {} \/ Fits(c.used)) /\ Set(p, Returned(c))
  <2>1. ASSUME HasSize PROVE Light(c, disk)
    <3>1. Weight(c.heap) <= MaxSize
      <4>1. CASE c.heap = {}
        BY <2>1, <4>1, NoUnits, LimitAssumption DEF Weight
      <4>2. CASE Fits(c.used)
        <5>1. c.used <= MaxSize
          BY <4>2 DEF Fits
        <5> QED
          BY <1>2, <5>1
      <4> QED
        BY <1>3, <2>1, <4>1, <4>2
    <3>2. CASE disk \cap c.listed \subseteq c.heap \cup Empty
      <4>1. TotalSize(disk \cap c.listed) <= TotalSize(c.heap)
        BY <1>2, <3>2, EmptyWeighNothing DEF Empty
      <4>2. disk \cap c.listed \in SUBSET Files
        BY <1>2
      <4>3. TotalSize(disk \cap c.listed) \in Nat /\ TotalSize(c.heap) \in Nat
        BY <1>2, <4>2, UnitsFinite
      <4> QED
        BY <2>1, <3>1, <4>1, <4>3, LimitAssumption DEF Light, Weight
    <3> QED
      BY <1>2, <2>1, <3>2
  <2> DEFINE d == [Returned(c) EXCEPT !.listed = c.listed]
  <2>2. d \in CleanerState /\ CleanerInv(d, disk, ever)
    BY <1>1, <1>2, <2>1, ReturnInOrder DEF Light
  <2>3. Returned(c) = d
    <3>1. CASE c.outer = {}
      BY <3>1 DEF Returned, Fresh
    <3>2. CASE c.outer # {}
      BY <1>1, <3>2 DEF Returned, CleanerState
    <3> QED
      BY <3>1, <3>2
  <2> HIDE DEF d
  <2>4. Set(p, d)
    BY <1>3, <2>3
  <2> QED
    BY <1>1, <2>2, <2>4, StepInOrder
<1>4. CASE Set(p, [Returned(c) EXCEPT !.listed = {}])
  <2> DEFINE d == [Returned(c) EXCEPT !.listed = {}]
  <2>1. d \in CleanerState /\ CleanerInv(d, disk, ever)
    BY <1>1, CutShort, ReturnInOrder
  <2> HIDE DEF d
  <2>2. Set(p, d)
    BY <1>4 DEF d
  <2> QED
    BY <1>1, <2>1, <2>2, StepInOrder
<1>5. ASSUME HasSize, ~Fits(c.used), NEW v \in Victims(c.heap)
      PROVE  /\ v \in c.heap /\ c.used > MaxSize
             /\ \A h \in c.heap : Stamp[h] >= Stamp[v]
  <2>1. v \in c.heap /\ \A h \in c.heap : Stamp[v] <= Stamp[h]
    BY <1>5 DEF Victims, Oldest
  <2> QED
    BY <1>2, <1>5, <2>1, StampAssumption, LimitAssumption DEF Fits
<1>6. ASSUME HasSize, ~Fits(c.used), NEW v \in Victims(c.heap), Size[v] = 0,
             Set(p, [c EXCEPT !.heap = @ \ {v}])
      PROVE  CleanupInv'
  <2> DEFINE d == [c EXCEPT !.heap = @ \ {v}]
  <2>1. Set(p, d)
    BY <1>6
  <2>2. v \in c.heap
    BY <1>5, <1>6
  <2>3. Weight(c.heap \ {v}) = c.used
    <3>1. TotalSize(c.heap \ {v}) = TotalSize(c.heap) - Size[v]
      BY <1>2, <2>2, SizeOfOneLess
    <3>2. TotalSize(c.heap) \in Nat
      BY <1>2, UnitsFinite
    <3> HIDE DEF c
    <3> QED
      BY <1>2, <1>6, <3>1, <3>2 DEF Weight
  <2> HIDE DEF c
  <2>4. /\ d \in CleanerState /\ d.pc = "trim" /\ d.file = {} /\ d.heap = c.heap \ {v}
        /\ d.todo = {} /\ d.listed = c.listed /\ d.outer = c.outer /\ d.used = c.used
    BY <1>1, <1>2 DEF CleanerState
  <2> HIDE DEF d
  <2>5. Places(d) /\ Known(d, ever) /\ Operand(d) /\ Room(d) /\ Seen(d, disk)
    BY <1>2, <2>4 DEF Places, Known, Operand, Room, Seen, Scanning, Operating
  <2>6. Account(d) /\ Counts(d, disk)
    BY <1>2, <2>3, <2>4 DEF Account, Counted, Counts
  <2>7. Weighed(d, disk)
    BY <1>2, <1>6, <2>4 DEF Weighed, Empty, Light
  <2>8. CleanerInv(d, disk, ever)
    BY <2>5, <2>6, <2>7 DEF CleanerInv
  <2> QED
    BY <1>1, <2>1, <2>4, <2>8, StepInOrder
<1>7. ASSUME HasSize, ~Fits(c.used), NEW v \in Victims(c.heap),
             Set(p, [c EXCEPT !.pc = "unlinkSize", !.file = {v}, !.heap = @ \ {v}])
      PROVE  CleanupInv'
  <2> DEFINE d == [c EXCEPT !.pc = "unlinkSize", !.file = {v}, !.heap = @ \ {v}]
  <2>1. Set(p, d)
    BY <1>7
  <2>2. v \in c.heap /\ c.used > MaxSize /\ \A h \in c.heap : Stamp[h] >= Stamp[v]
    BY <1>5, <1>7
  <2> HIDE DEF c
  <2>3. /\ d \in CleanerState /\ d.pc = "unlinkSize" /\ d.file = {v} /\ d.heap = c.heap \ {v}
        /\ d.todo = {} /\ d.listed = c.listed /\ d.outer = c.outer /\ d.used = c.used
    BY <1>1, <1>2, <2>2 DEF CleanerState
  <2> HIDE DEF d
  <2>4. Places(d) /\ Known(d, ever) /\ Operand(d) /\ Room(d) /\ Seen(d, disk)
    BY <1>2, <1>7, <2>2, <2>3 DEF Places, Known, Operand, Room, Seen, Scanning, Operating,
                                 Recent
  <2>5. Account(d) /\ Counts(d, disk)
    <3>1. Counted(d) = c.heap
      BY <2>2, <2>3 DEF Counted
    <3> QED
      BY <1>2, <2>3, <3>1 DEF Account, Counts
  <2>6. Weighed(d, disk)
    BY <1>2, <2>3 DEF Weighed, Light
  <2>7. CleanerInv(d, disk, ever)
    BY <2>4, <2>5, <2>6 DEF CleanerInv
  <2> QED
    BY <1>1, <2>1, <2>3, <2>7, StepInOrder
<1> QED
  BY <1>3, <1>4, <1>6, <1>7 DEF Trim

LEMMA CreateKeeps == ASSUME CleanupInv, CreateLog PROVE CleanupInv'
<1>1. PICK f \in Files \ ever, meets \in SUBSET Cleaners :
        /\ disk' = disk \cup {f} /\ ever' = ever \cup {f}
        /\ \A p \in meets : cleaner[p].pc \in Scanning
        /\ cleaner' = [p \in Cleaners |->
             IF p \in meets THEN [cleaner[p] EXCEPT !.todo = @ \cup {f}] ELSE cleaner[p]]
  BY DEF CreateLog, Scanning
<1>2. ASSUME NEW p \in Cleaners
      PROVE  cleaner'[p] \in CleanerState /\ CleanerInv(cleaner'[p], disk', ever')
  <2> DEFINE c == cleaner[p]
  <2>1. /\ c \in CleanerState /\ CleanerInv(c, disk, ever) /\ c.listed \subseteq ever
        /\ c.todo \subseteq ever /\ c.heap \subseteq ever /\ c.file \subseteq ever
    BY InOrderNow DEF CleanerInv, Known
  <2>2. CleanerInv(c, disk', ever')
    <3>1. disk' \cap c.listed \subseteq disk /\ ever \subseteq ever'
      BY <1>1, <2>1
    <3> HIDE DEF c
    <3> QED
      BY <2>1, <3>1, StaysInOrder
  <2>3. CASE p \notin meets
    BY <1>1, <2>1, <2>2, <2>3
  <2>4. CASE p \in meets
    <3> DEFINE d == [c EXCEPT !.todo = @ \cup {f}]
    <3>1. cleaner'[p] = d /\ c.pc \in Scanning
      BY <1>1, <2>4
    <3> HIDE DEF c
    <3>2. /\ d \in CleanerState /\ d.pc = c.pc /\ d.file = c.file /\ d.heap = c.heap
          /\ d.todo = c.todo \cup {f} /\ d.listed = c.listed /\ d.outer = c.outer
          /\ d.used = c.used /\ f \in ever'
      BY <1>1, <2>1 DEF CleanerState
    <3> HIDE DEF d
    <3>3. Places(d) /\ Known(d, ever')
      BY <1>1, <2>1, <2>2, <3>1, <3>2 DEF CleanerInv, Places, Known
    <3>4. Account(d) /\ Operand(d) /\ Room(d)
      BY <2>2, <3>2 DEF CleanerInv, Account, Counted, Operand, Room
    <3>5. Seen(d, disk')
      BY <2>2, <3>2 DEF CleanerInv, Seen
    <3>6. Counts(d, disk') /\ Weighed(d, disk')
      BY <3>1, <3>2 DEF Counts, Weighed, Scanning, Trimming
    <3>7. CleanerInv(d, disk', ever')
      BY <3>3, <3>4, <3>5, <3>6 DEF CleanerInv
    <3> QED
      BY <3>1, <3>2, <3>7
  <2> QED
    BY <2>3, <2>4
<1>3. cleaner' \in [Cleaners -> CleanerState]
  BY <1>1, <1>2
<1>4. disk' \subseteq ever' /\ ever' \subseteq Files
  BY <1>1 DEF CleanupInv, TypeOK
<1> QED
  BY <1>2, <1>3, <1>4 DEF CleanupInv, TypeOK

LEMMA InOrderAtFirst == Init => CleanupInv
<1> SUFFICES ASSUME Init PROVE CleanupInv
  OBVIOUS
<1>1. /\ Fresh \in CleanerState /\ Fresh.pc = "start" /\ Fresh.file = {} /\ Fresh.heap = {}
      /\ Fresh.todo = {} /\ Fresh.listed = {} /\ Fresh.outer = {} /\ Fresh.used = 0
  BY DEF Fresh, CleanerState
<1>2. disk \subseteq ever /\ ever \subseteq Files /\ cleaner = [p \in Cleaners |-> Fresh]
  BY DEF Init
<1> HIDE DEF Fresh
<1>3. Places(Fresh) /\ Known(Fresh, ever) /\ Operand(Fresh) /\ Room(Fresh)
  BY <1>1 DEF Places, Known, Operand, Room, Scanning, Operating
<1>4. Account(Fresh)
  BY <1>1, NoUnits DEF Account, Counted, Weight
<1>5. Seen(Fresh, disk) /\ Counts(Fresh, disk) /\ Weighed(Fresh, disk)
  BY <1>1 DEF Seen, Counts, Weighed, Scanning, Trimming
<1>6. CleanerInv(Fresh, disk, ever)
  BY <1>3, <1>4, <1>5 DEF CleanerInv
<1> QED
  BY <1>1, <1>2, <1>6 DEF CleanupInv, TypeOK

LEMMA CleanupInvKept == CleanupInv /\ [Next]_vars => CleanupInv'
<1> SUFFICES ASSUME CleanupInv, [Next]_vars PROVE CleanupInv'
  OBVIOUS
<1>1. CASE UNCHANGED vars
  BY <1>1 DEF vars, CleanupInv, TypeOK
<1>2. CASE CreateLog
  BY <1>2, CreateKeeps
<1>3. ASSUME NEW p \in Cleaners, Clean(p) PROVE CleanupInv'
  BY <1>3, OpenKeeps, NextEntryKeeps, StatKeeps, UnlinkKeeps, EndScanKeeps, ScanFailsKeeps,
     TrimKeeps DEF Clean
<1> QED
  BY <1>1, <1>2, <1>3 DEF Next

LEMMA AlwaysInOrder == Spec => []CleanupInv
BY InOrderAtFirst, CleanupInvKept, PTL DEF Spec

(* Every variable of the cleanup keeps its type.                           *)
THEOREM TypeCorrect == Spec => []TypeOK
<1>1. CleanupInv => TypeOK
  BY DEF CleanupInv
<1> QED
  BY <1>1, AlwaysInOrder, PTL

(* A cleanup that nothing cut short has left, of the files it could see,   *)
(* none past retentionDays, no more than maxLogFileCount and no more bytes *)
(* than retentionGB, whatever other processes delete and create meanwhile. *)
THEOREM CleanupIsTidy == Spec => []CompleteIsTidy
<1>1. CleanupInv => CompleteIsTidy
  <2> SUFFICES ASSUME CleanupInv, NEW p \in Cleaners, cleaner[p].pc = "done"
               PROVE  /\ \A f \in disk \cap cleaner[p].listed : ~Old(f)
                      /\ HasCount => Cardinality(disk \cap cleaner[p].listed) <= MaxCount
                      /\ HasSize => TotalSize(disk \cap cleaner[p].listed) <= MaxSize
    BY DEF CompleteIsTidy
  <2>1. Counts(cleaner[p], disk) /\ Weighed(cleaner[p], disk)
    BY DEF CleanupInv, CleanerInv
  <2> QED
    BY <2>1 DEF Counts, Weighed, Light, Recent
<1> QED
  BY <1>1, AlwaysInOrder, PTL

-----------------------------------------------------------------------------
(* The files that are not older than f.                                     *)
NotOlder(f) == {g \in ever : Stamp[g] >= Stamp[f]}

(* Files that are over the limit are so with older ones, and with new ones. *)
LEMMA OverLimitGrows ==
  ASSUME TypeOK, NEW f \in Files, NEW g \in Files, OverLimit(g), Stamp[g] >= Stamp[f]
  PROVE  OverLimit(f)
<1>1. NotOlder(g) \subseteq NotOlder(f) /\ NotOlder(f) \in SUBSET Files
  BY StampAssumption DEF NotOlder, TypeOK
<1>2. /\ TotalSize(NotOlder(g)) <= TotalSize(NotOlder(f))
      /\ TotalSize(NotOlder(g)) \in Nat /\ TotalSize(NotOlder(f)) \in Nat
  BY <1>1, FewerFiles, UnitsFinite
<1> QED
  BY <1>2, LimitAssumption DEF OverLimit, NotOlder

(* The core of the argument. If MaxCount files of ever more recent than v  *)
(* are known, then MaxCount such files are still on the disk: those known, *)
(* or, when one of them is missing, the ones that made it superfluous.     *)
LEMMA KnownIsEnough ==
  ASSUME TypeOK, MissingIsExcess, HasCount,
         NEW v \in Files, NEW H \in SUBSET ever, Cardinality(H) = MaxCount,
         \A h \in H : Stamp[h] > Stamp[v] /\ ~Old(h)
  PROVE  EnoughNewer(v) \/ OverLimit(v)
<1> USE StampAssumption, LimitAssumption
<1>1. CASE H \subseteq disk
  BY <1>1 DEF EnoughNewer
<1>2. CASE ~ (H \subseteq disk)
  <2>1. PICK h \in H : h \notin disk
    BY <1>2
  <2>2. h \in Files /\ (EnoughNewer(h) \/ OverLimit(h)) /\ Stamp[h] > Stamp[v]
    BY <2>1 DEF MissingIsExcess, TypeOK
  <2>3. CASE EnoughNewer(h)
    <3>1. PICK T \in SUBSET {g \in disk : Stamp[g] > Stamp[h]} : Cardinality(T) = MaxCount
      BY <2>3 DEF EnoughNewer
    <3>2. \A g \in T : g \in disk /\ Stamp[g] > Stamp[v]
      BY <2>2, <3>1 DEF TypeOK
    <3> QED
      BY <3>1, <3>2 DEF EnoughNewer
  <2>4. CASE OverLimit(h)
    BY <2>2, <2>4, OverLimitGrows
  <2> QED
    BY <2>2, <2>3, <2>4
<1> QED
  BY <1>1, <1>2

(* Deleting a file that may go keeps the property.                         *)
LEMMA DeletionIsSafe ==
  ASSUME TypeOK, MissingIsExcess, NEW v \in Files,
         Old(v) \/ EnoughNewer(v) \/ OverLimit(v), disk' = disk \ {v}, UNCHANGED ever
  PROVE  MissingIsExcess'
<1> USE StampAssumption, LimitAssumption
<1> SUFFICES ASSUME NEW f \in ever, f \notin disk', ~Old(f), ~OverLimit(f)
             PROVE  EnoughNewer(f)'
  BY DEF MissingIsExcess, Old, OverLimit
<1>0. f \in Files /\ disk \subseteq Files
  BY DEF TypeOK
<1>1. EnoughNewer(f)
  BY DEF MissingIsExcess
<1>2. PICK T \in SUBSET {g \in disk : Stamp[g] > Stamp[f]} : Cardinality(T) = MaxCount
  BY <1>1 DEF EnoughNewer
<1>3. CASE v \notin T
  BY <1>1, <1>2, <1>3 DEF EnoughNewer
<1>4. CASE v \in T
  <2>1. Stamp[v] > Stamp[f] /\ ~Old(v)
    BY <1>0, <1>4 DEF Old
  <2>2. ~OverLimit(v)
    BY <1>0, <2>1, OverLimitGrows
  <2>3. PICK U \in SUBSET {g \in disk : Stamp[g] > Stamp[v]} : Cardinality(U) = MaxCount
    BY <2>1, <2>2 DEF EnoughNewer
  <2>4. \A g \in U : g \in disk' /\ Stamp[g] > Stamp[f]
    BY <1>0, <2>1, <2>3
  <2> QED
    BY <1>1, <2>3, <2>4 DEF EnoughNewer
<1> QED
  BY <1>3, <1>4

(* A step that deletes nothing keeps the property.                         *)
LEMMA GrowthIsSafe ==
  ASSUME MissingIsExcess, NEW new \in SUBSET Files, ever \subseteq Files,
         disk' = disk \cup new, ever' = ever \cup new
  PROVE  MissingIsExcess'
<1> SUFFICES ASSUME NEW f \in ever, f \notin disk, ~Old(f)
             PROVE  EnoughNewer(f)' \/ OverLimit(f)'
  BY DEF MissingIsExcess, Old
<1>1. CASE EnoughNewer(f)
  <2>1. PICK T \in SUBSET {g \in disk : Stamp[g] > Stamp[f]} : Cardinality(T) = MaxCount
    BY <1>1 DEF EnoughNewer
  <2>2. T \in SUBSET {g \in disk' : Stamp[g] > Stamp[f]}
    BY <2>1
  <2> QED
    BY <1>1, <2>1, <2>2 DEF EnoughNewer
<1>2. CASE OverLimit(f)
  <2>1. NotOlder(f) \subseteq NotOlder(f)' /\ NotOlder(f)' \in SUBSET Files
    BY DEF NotOlder
  <2>2. /\ TotalSize(NotOlder(f)) <= TotalSize(NotOlder(f)')
        /\ TotalSize(NotOlder(f)) \in Nat /\ TotalSize(NotOlder(f)') \in Nat
    BY <2>1, FewerFiles, UnitsFinite
  <2>3. TotalSize(NotOlder(f)') > MaxSize
    BY <1>2, <2>2, LimitAssumption DEF OverLimit, NotOlder
  <2> QED
    BY <1>2, <2>3 DEF OverLimit, NotOlder
<1> QED
  BY <1>1, <1>2 DEF MissingIsExcess

(* Whatever a cleanup is about to unlink may go.                            *)
LEMMA UnlinkIsDeserved ==
  ASSUME DistinctStamps, CleanupInv, MissingIsExcess, NEW p \in Cleaners,
         NEW f \in cleaner[p].file,
         cleaner[p].pc \in {"unlinkOld", "unlinkExcess", "unlinkSize"}
  PROVE  f \in Files /\ (Old(f) \/ EnoughNewer(f) \/ OverLimit(f))
<1> DEFINE c == cleaner[p]
<1>1. c \in CleanerState /\ CleanerInv(c, disk, ever) /\ ever \subseteq Files /\ TypeOK
  BY InOrderNow DEF CleanupInv
<1>2. /\ f \in ever /\ f \notin c.heap /\ c.heap \subseteq ever /\ c.file = {f}
      /\ \A h \in c.heap : ~Old(h)
  BY <1>1 DEF CleanerInv, Known, Places, Recent
<1>3. CASE c.pc = "unlinkOld"
  BY <1>1, <1>2, <1>3 DEF CleanerInv, Known
<1>4. CASE c.pc = "unlinkExcess"
  <2>1. HasCount /\ Cardinality(c.heap) = MaxCount /\ \A h \in c.heap : Stamp[h] >= Stamp[f]
    BY <1>1, <1>2, <1>4 DEF CleanerInv, Operand
  <2>2. ASSUME NEW h \in c.heap PROVE Stamp[h] > Stamp[f]
    <3>1. h \in Files /\ f \in Files /\ h # f
      BY <1>1, <1>2
    <3>2. Stamp[h] # Stamp[f] /\ Stamp[h] \in Nat /\ Stamp[f] \in Nat
      BY <3>1, StampAssumption DEF DistinctStamps
    <3> QED
      BY <2>1, <3>2
  <2> HIDE DEF c
  <2> QED
    BY <1>1, <1>2, <2>1, <2>2, KnownIsEnough
<1>5. CASE c.pc = "unlinkSize"
  <2>1. HasSize /\ c.used > MaxSize /\ \A h \in c.heap : Stamp[h] >= Stamp[f]
    BY <1>1, <1>2, <1>5 DEF CleanerInv, Operand
  <2>2. c.used = TotalSize(c.heap \cup {f})
    BY <1>1, <1>2, <1>5, <2>1 DEF CleanerInv, Account, Counted, Weight
  <2>3. c.heap \cup {f} \subseteq NotOlder(f) /\ NotOlder(f) \in SUBSET Files
    BY <1>1, <1>2, <2>1, StampAssumption DEF NotOlder
  <2> HIDE DEF c
  <2>4. /\ TotalSize(c.heap \cup {f}) <= TotalSize(NotOlder(f))
        /\ TotalSize(c.heap \cup {f}) \in Nat /\ TotalSize(NotOlder(f)) \in Nat
    BY <2>3, FewerFiles, UnitsFinite
  <2> QED
    BY <1>1, <1>2, <2>1, <2>2, <2>4, LimitAssumption DEF OverLimit, NotOlder
<1> QED
  BY <1>1, <1>2, <1>3, <1>4, <1>5

LEMMA MissingIsExcessKept ==
  ASSUME DistinctStamps, CleanupInv, MissingIsExcess, [Next]_vars PROVE MissingIsExcess'
<1>1. ever \subseteq Files /\ TypeOK
  BY DEF CleanupInv, TypeOK
<1>2. CASE UNCHANGED <<disk, ever>>
  BY <1>2 DEF MissingIsExcess, EnoughNewer, OverLimit, Old
<1>3. CASE CreateLog
  <2>1. PICK f \in Files : disk' = disk \cup {f} /\ ever' = ever \cup {f}
    BY <1>3 DEF CreateLog
  <2> QED
    BY <1>1, <2>1, GrowthIsSafe
<1>4. ASSUME NEW p \in Cleaners, Unlink(p) PROVE MissingIsExcess'
  <2>1. /\ cleaner[p].pc \in {"unlinkOld", "unlinkExcess", "unlinkSize"} /\ UNCHANGED ever
        /\ \E f \in cleaner[p].file : disk' = disk \/ disk' = disk \ {f}
    BY <1>4 DEF Unlink
  <2>2. PICK f \in cleaner[p].file : disk' = disk \/ disk' = disk \ {f}
    BY <2>1
  <2>3. f \in Files /\ (Old(f) \/ EnoughNewer(f) \/ OverLimit(f))
    BY <2>1, UnlinkIsDeserved
  <2> QED
    BY <1>1, <1>2, <2>1, <2>2, <2>3, DeletionIsSafe
<1> QED
  BY <1>2, <1>3, <1>4
     DEF Next, Clean, vars, Open, NextEntry, Stat, EndScan, ScanFails, Trim

(* However many processes clean up at once and wherever each of them stops, *)
(* cleanupOldLogFiles never deletes a recent file unless maxLogFileCount    *)
(* more recent ones are there, or it and the more recent ones are together  *)
(* larger than retentionGB.                                                 *)
THEOREM RecentFilesStay == DistinctStamps => (Spec => []MissingIsExcess)
<1> SUFFICES ASSUME DistinctStamps PROVE Spec => []MissingIsExcess
  OBVIOUS
<1>1. Init => CleanupInv /\ MissingIsExcess
  BY InOrderAtFirst DEF Init, MissingIsExcess
<1>2. CleanupInv /\ MissingIsExcess /\ [Next]_vars => (CleanupInv /\ MissingIsExcess)'
  BY CleanupInvKept, MissingIsExcessKept
<1> QED
  BY <1>1, <1>2, PTL DEF Spec

(* "delete all but the most recent N files": when no two files have the     *)
(* same stamp, recent files are only missing while maxLogFileCount recent   *)
(* ones are there. It is what fails among files of one second.              *)
THEOREM MostRecentAreKept == DistinctStamps => (Spec => []KeepsMostRecent)
<1> SUFFICES ASSUME DistinctStamps PROVE Spec => []KeepsMostRecent
  OBVIOUS
<1>1. CleanupInv /\ MissingIsExcess => KeepsMostRecent
  <2> DEFINE recent(S) == {f \in S : ~Old(f)}
  <2> SUFFICES ASSUME CleanupInv, MissingIsExcess, HasCount, ~HasSize,
                      Cardinality(recent(disk)) < Cardinality(recent(ever))
               PROVE  Cardinality(recent(disk)) >= MaxCount
    BY DEF KeepsMostRecent
  <2>1. disk \subseteq ever /\ ever \subseteq Files
    BY DEF CleanupInv, TypeOK
  <2>2. recent(disk) \subseteq recent(ever) /\ recent(ever) \in SUBSET Files
    BY <2>1
  <2>3. Cardinality(recent(disk)) \in Nat
    BY <2>2, FewerFiles
  <2>4. PICK f \in ever \ disk : ~Old(f)
    <3>1. recent(disk) # recent(ever)
      BY <2>3
    <3> QED
      BY <2>2, <3>1
  <2>5. EnoughNewer(f)
    BY <2>4 DEF MissingIsExcess, OverLimit
  <2>6. PICK T \in SUBSET {g \in disk : Stamp[g] > Stamp[f]} : Cardinality(T) = MaxCount
    BY <2>5 DEF EnoughNewer
  <2>7. T \in SUBSET recent(disk)
    BY <2>1, <2>4, <2>6, StampAssumption, LimitAssumption DEF Old
  <2>8. recent(disk) \in SUBSET Files
    BY <2>2
  <2>9. Cardinality(T) <= Cardinality(recent(disk))
    BY <2>7, <2>8, FewerFiles
  <2> HIDE DEF recent
  <2> QED
    BY <2>3, <2>6, <2>9, LimitAssumption
<1>2. Spec => []MissingIsExcess
  BY RecentFilesStay
<1> QED
  BY <1>1, <1>2, AlwaysInOrder, PTL

-----------------------------------------------------------------------------
(* LogWriter.  The entries of the buffer are those that were logged and not *)
(* taken, in their order, with each flush behind what was logged before it. *)

WriterTypes ==
  /\ gzip \in BOOLEAN /\ invalid \subseteq LogEntries
  /\ logFile \in {"no", "file", "null"} /\ logged \in 0..MaxEntries
  /\ buffer \in Seq(LogEntries \cup Flushes)
  /\ over \in BOOLEAN
  /\ inGzip \in Seq(LogEntries) /\ inFile \in Seq(LogEntries)
  /\ ending \in {"no", "called", "target", "finished"}
  /\ flushed \in [Flushes -> {"no", "waiting", "resolved"}]
  /\ ahead \in [Flushes -> 0..MaxEntries]

Taken == Len(inFile) + Len(inGzip)

\* What was taken is in its place.
Placed ==
  /\ \A i \in 1..Len(inFile) : inFile[i] = i
  /\ \A i \in 1..Len(inGzip) : inGzip[i] = Len(inFile) + i

\* The entries of the buffer increase, and a flush that waits has those before it that
\* were logged before.
Queued ==
  /\ \A f \in Flushes : ahead[f] <= logged
  /\ \A i, j \in 1..Len(buffer) : i # j => buffer[i] # buffer[j]
  /\ \A i \in 1..Len(buffer) : buffer[i] \in LogEntries => buffer[i] <= logged
  /\ \A i, j \in 1..Len(buffer) :
       i < j /\ buffer[i] \in LogEntries /\ buffer[j] \in LogEntries => buffer[i] < buffer[j]
  /\ \A i \in 1..Len(buffer) : buffer[i] \in Flushes => flushed[buffer[i]] = "waiting"
  /\ \A i, j \in 1..Len(buffer) :
       buffer[i] \in Flushes /\ buffer[j] \in LogEntries /\ buffer[j] <= ahead[buffer[i]] => j < i

\* All that was logged was taken or is in the buffer; whose flush is over was taken.
Complete ==
  logFile = "file" /\ ~over =>
    /\ Taken <= logged
    /\ \A i \in 1..Len(buffer) : buffer[i] \in LogEntries => Taken < buffer[i]
    /\ \A e \in LogEntries : Taken < e /\ e <= logged => \E i \in 1..Len(buffer) : buffer[i] = e
    /\ \A f \in Flushes : flushed[f] = "resolved" => ahead[f] <= Taken

Stages ==
  /\ logFile # "file" => inFile = <<>> /\ inGzip = <<>>
  /\ logFile = "no" => logged = 0 /\ buffer = <<>> /\ ending = "no"
                       /\ flushed = [f \in Flushes |-> "no"] /\ ahead = [f \in Flushes |-> 0]
  /\ ~gzip => inGzip = <<>>
  /\ over => buffer = <<>>
  /\ ending \in {"target", "finished"} => ~over /\ buffer = <<>>
  /\ ending = "finished" => inGzip = <<>>

WriterInv == WriterTypes /\ Placed /\ Queued /\ Complete /\ Stages

LEMMA WriterInvInit == WriterInit => WriterInv
<1> SUFFICES ASSUME WriterInit PROVE WriterInv
    OBVIOUS
<1> USE WriterAssumption DEF WriterInit
<1>1. WriterTypes
  <2>1. invalid \subseteq LogEntries /\ logged \in 0..MaxEntries
        OBVIOUS
  <2>2. /\ buffer \in Seq(LogEntries \cup Flushes)
        /\ inGzip \in Seq(LogEntries) /\ inFile \in Seq(LogEntries)
        OBVIOUS
  <2>3. /\ flushed \in [Flushes -> {"no", "waiting", "resolved"}]
        /\ ahead \in [Flushes -> 0..MaxEntries]
        OBVIOUS
  <2> QED
      BY <2>1, <2>2, <2>3 DEF WriterTypes
<1>2. Len(buffer) = 0 /\ Len(inFile) = 0 /\ Len(inGzip) = 0
      BY DEF LogEntries
<1>3. Placed /\ Queued /\ Complete /\ Stages
      BY <1>2 DEF Placed, Queued, Complete, Stages
<1> QED
    BY <1>1, <1>3 DEF WriterInv

(* What is next is the entry after those that were taken.                   *)
LEMMA HeadIsNext ==
  ASSUME WriterInv, buffer # <<>>, logFile = "file", ~over, Head(buffer) \in LogEntries
  PROVE  Head(buffer) = Taken + 1
<1>1. Head(buffer) = buffer[1] /\ 1 \in 1..Len(buffer)
      BY HeadTailProperties, EmptySeq, LenProperties DEF WriterInv, WriterTypes
<1>2. Taken \in Nat /\ logged \in 0..MaxEntries /\ MaxEntries \in Nat
      BY WriterAssumption DEF WriterInv, WriterTypes, Taken
<1>3. Taken < buffer[1] /\ buffer[1] <= logged /\ buffer[1] \in Nat
      BY <1>1, <1>2 DEF WriterInv, Complete, Queued, LogEntries
<1>4. Taken + 1 \in LogEntries /\ Taken + 1 <= logged /\ Taken < Taken + 1
      BY <1>2, <1>3 DEF LogEntries
<1>5. PICK i \in 1..Len(buffer) : buffer[i] = Taken + 1
      BY <1>4 DEF WriterInv, Complete
<1>6. i = 1 \/ buffer[1] < buffer[i]
      BY <1>1, <1>4, <1>5 DEF WriterInv, Queued
<1>7. QED
      BY <1>1, <1>2, <1>3, <1>5, <1>6

(* Nothing that was logged before a flush whose turn it is is left.          *)
LEMMA FlushIsServed ==
  ASSUME WriterInv, buffer # <<>>, logFile = "file", ~over, Head(buffer) \in Flushes
  PROVE  ahead[Head(buffer)] <= Taken
<1> DEFINE f == Head(buffer)
<1>1. f = buffer[1] /\ 1 \in 1..Len(buffer) /\ f \in Flushes
      BY HeadTailProperties, EmptySeq, LenProperties DEF WriterInv, WriterTypes
<1>2. Taken \in Nat /\ logged \in 0..MaxEntries /\ MaxEntries \in Nat
      BY WriterAssumption DEF WriterInv, WriterTypes, Taken
<1>3. ahead[f] \in Nat /\ ahead[f] <= logged
      BY <1>1 DEF WriterInv, WriterTypes, Queued
<1> SUFFICES ASSUME Taken < ahead[f] PROVE FALSE
    BY <1>2, <1>3
<1>4. Taken + 1 \in LogEntries /\ Taken + 1 <= logged /\ Taken < Taken + 1
      BY <1>2, <1>3 DEF LogEntries
<1>5. PICK i \in 1..Len(buffer) : buffer[i] = Taken + 1
      BY <1>4 DEF WriterInv, Complete
<1>6. buffer[i] <= ahead[f]
      BY <1>2, <1>3, <1>5
<1>7. i < 1
      BY <1>1, <1>4, <1>5, <1>6 DEF WriterInv, Queued
<1> QED
    BY <1>7

(* What is put into the buffer is behind all there is.                       *)
LEMMA AppendKeeps ==
  ASSUME NEW x \in LogEntries \cup Flushes, WriterTypes, buffer' = Append(buffer, x)
  PROVE  /\ buffer' \in Seq(LogEntries \cup Flushes)
         /\ Len(buffer) \in Nat /\ Len(buffer') = Len(buffer) + 1
         /\ \A i \in 1..Len(buffer) : i \in 1..Len(buffer') /\ buffer'[i] = buffer[i]
         /\ buffer'[Len(buffer) + 1] = x
         /\ \A i \in 1..Len(buffer') : i \in 1..Len(buffer) \/ i = Len(buffer) + 1
  BY AppendProperties, LenProperties DEF WriterTypes

(* The rest of a buffer is one place further ahead.                          *)
LEMMA TailKeeps ==
  ASSUME WriterTypes, buffer # <<>>, buffer' = Tail(buffer)
  PROVE  /\ buffer' \in Seq(LogEntries \cup Flushes)
         /\ Len(buffer) \in Nat \ {0} /\ Len(buffer') = Len(buffer) - 1
         /\ \A i \in 1..Len(buffer') : i + 1 \in 1..Len(buffer) /\ buffer'[i] = buffer[i + 1]
         /\ \A i \in 1..Len(buffer) : i = 1 \/ i - 1 \in 1..Len(buffer')
         /\ Head(buffer) = buffer[1] /\ Head(buffer) \in LogEntries \cup Flushes
<1> USE DEF WriterTypes
<1>1. Len(buffer) \in Nat \ {0}
      BY LenProperties, EmptySeq
<1>2. /\ buffer' \in Seq(LogEntries \cup Flushes) /\ Len(buffer') = Len(buffer) - 1
      /\ \A i \in 1..Len(buffer') : buffer'[i] = buffer[i + 1]
      /\ Head(buffer) = buffer[1] /\ Head(buffer) \in LogEntries \cup Flushes
      BY HeadTailProperties
<1> QED
    BY <1>1, <1>2

LEMMA LogKeeps == WriterInv /\ Log => WriterInv'
<1> SUFFICES ASSUME WriterInv, Log PROVE WriterInv'
    OBVIOUS
<1> USE WriterAssumption DEF WriterInv
<1>0. logged \in Nat /\ MaxEntries \in Nat
      BY DEF WriterTypes
<1>1. /\ logged + 1 \in LogEntries /\ logged \in Nat /\ logged' = logged + 1
      /\ logged + 1 \notin Flushes /\ logFile # "no" /\ ending = "no"
  <2>1. logged + 1 \in LogEntries /\ logged' = logged + 1
        BY <1>0 DEF LogEntries, Log
  <2> QED
      BY <1>0, <2>1 DEF Log, Usable
<1>2. UNCHANGED <<gzip, invalid, logFile, inGzip, inFile, over, ending, flushed, ahead>>
      BY DEF Log
<1>3. Taken' = Taken
      BY <1>2 DEF Taken
<1>4. CASE over
  <2>1. buffer' = buffer /\ buffer = <<>> /\ Len(buffer) = 0
        BY <1>4 DEF Log, Stages
  <2>2. WriterTypes'
        BY <1>1, <1>2, <2>1 DEF WriterTypes, LogEntries
  <2>3. Placed' /\ Complete' /\ Stages'
        BY <1>1, <1>2, <1>4, <2>1 DEF Placed, Complete, Stages
  <2>4. Queued'
        BY <1>1, <1>2, <2>1 DEF Queued, WriterTypes
  <2> QED
      BY <2>2, <2>3, <2>4
<1>5. CASE ~over
  <2>1. buffer' = Append(buffer, logged + 1)
        BY <1>5 DEF Log
  <2>2. /\ buffer' \in Seq(LogEntries \cup Flushes)
        /\ Len(buffer) \in Nat /\ Len(buffer') = Len(buffer) + 1
        /\ \A i \in 1..Len(buffer) : i \in 1..Len(buffer') /\ buffer'[i] = buffer[i]
        /\ buffer'[Len(buffer) + 1] = logged + 1
        /\ \A i \in 1..Len(buffer') : i \in 1..Len(buffer) \/ i = Len(buffer) + 1
        BY <1>1, <2>1, AppendKeeps
  <2>3. WriterTypes'
        BY <1>1, <1>2, <2>2 DEF WriterTypes, LogEntries
  <2>4. \A i \in 1..Len(buffer) : buffer[i] \in LogEntries => buffer[i] \in Nat /\ buffer[i] <= logged
        BY DEF Queued, LogEntries
  <2>5. \A f \in Flushes : ahead[f] \in Nat /\ ahead[f] <= logged
        BY DEF Queued, WriterTypes
  <2>6. \A i \in 1..Len(buffer) : buffer[i] # logged + 1
        BY <1>1, <2>4
  <2>7. Queued'
    <3>1. \A f \in Flushes : ahead'[f] <= logged'
          BY <1>1, <1>2, <2>5
    <3>2. \A i, j \in 1..Len(buffer') : i # j => buffer'[i] # buffer'[j]
          BY <2>2, <2>6 DEF Queued
    <3>3. \A i \in 1..Len(buffer') : buffer'[i] \in LogEntries => buffer'[i] <= logged'
          BY <1>1, <2>2, <2>4
    <3>4. \A i, j \in 1..Len(buffer') :
            i < j /\ buffer'[i] \in LogEntries /\ buffer'[j] \in LogEntries
            => buffer'[i] < buffer'[j]
          BY <1>1, <2>2, <2>4 DEF Queued
    <3>5. \A i \in 1..Len(buffer') :
            buffer'[i] \in Flushes => flushed'[buffer'[i]] = "waiting"
          BY <1>1, <1>2, <2>2 DEF Queued
    <3>6. \A i, j \in 1..Len(buffer') :
            buffer'[i] \in Flushes /\ buffer'[j] \in LogEntries /\ buffer'[j] <= ahead'[buffer'[i]]
            => j < i
          BY <1>1, <1>2, <2>2, <2>5 DEF Queued
    <3> QED
        BY <3>1, <3>2, <3>3, <3>4, <3>5, <3>6 DEF Queued
  <2>8. Complete'
    <3> SUFFICES ASSUME logFile = "file" PROVE Complete'
        BY <1>2 DEF Complete
    <3>1. Taken <= logged /\ Taken \in Nat
          BY <1>5 DEF Complete, Taken, WriterTypes
    <3>2. \A i \in 1..Len(buffer') : buffer'[i] \in LogEntries => Taken < buffer'[i]
          BY <1>1, <1>5, <2>2, <3>1 DEF Complete
    <3>3. \A e \in LogEntries : Taken < e /\ e <= logged'
                                => \E i \in 1..Len(buffer') : buffer'[i] = e
      <4> SUFFICES ASSUME NEW e \in LogEntries, Taken < e, e <= logged'
                   PROVE  \E i \in 1..Len(buffer') : buffer'[i] = e
          OBVIOUS
      <4>1. CASE e = logged + 1
            BY <2>2, <4>1
      <4>2. CASE e # logged + 1
        <5>1. e <= logged
              BY <1>1, <4>2 DEF LogEntries
        <5> QED
            BY <1>5, <2>2, <5>1 DEF Complete
      <4> QED
          BY <4>1, <4>2
    <3> QED
        BY <1>1, <1>2, <1>3, <1>5, <3>1, <3>2, <3>3 DEF Complete
  <2>9. Placed' /\ Stages'
        BY <1>1, <1>2, <1>5 DEF Placed, Stages
  <2> QED
      BY <2>3, <2>7, <2>8, <2>9
<1> QED
    BY <1>4, <1>5

LEMMA FlushKeeps == ASSUME NEW f \in Flushes, WriterInv, Flush(f) PROVE WriterInv'
<1> USE WriterAssumption DEF WriterInv
<1>1. /\ flushed[f] = "no" /\ logFile # "no" /\ ending = "no" /\ ahead' = [ahead EXCEPT ![f] = logged]
      /\ flushed' = [flushed EXCEPT ![f] = IF over THEN "resolved" ELSE "waiting"]
      /\ UNCHANGED <<gzip, invalid, logFile, logged, inGzip, inFile, over, ending>>
      BY DEF Flush, Usable
<1>2. Taken' = Taken /\ logged \in Nat /\ MaxEntries \in Nat
      BY <1>1 DEF Taken, WriterTypes
<1>3. /\ ahead'[f] = logged /\ \A g \in Flushes \ {f} : ahead'[g] = ahead[g] /\ flushed'[g] = flushed[g]
      /\ flushed'[f] = IF over THEN "resolved" ELSE "waiting"
      BY <1>1 DEF WriterTypes
<1>4. f \notin LogEntries
      OBVIOUS
<1>5. CASE over
  <2>1. buffer' = buffer /\ buffer = <<>> /\ Len(buffer) = 0
        BY <1>5 DEF Flush, Stages
  <2>2. WriterTypes'
        BY <1>1, <2>1 DEF WriterTypes
  <2>3. Placed' /\ Complete' /\ Stages'
        BY <1>1, <1>5, <2>1 DEF Placed, Complete, Stages
  <2>4. Queued'
        BY <1>1, <1>2, <1>3, <2>1 DEF Queued
  <2> QED
      BY <2>2, <2>3, <2>4
<1>6. CASE ~over
  <2>1. buffer' = Append(buffer, f)
        BY <1>6 DEF Flush
  <2>2. /\ buffer' \in Seq(LogEntries \cup Flushes)
        /\ Len(buffer) \in Nat /\ Len(buffer') = Len(buffer) + 1
        /\ \A i \in 1..Len(buffer) : i \in 1..Len(buffer') /\ buffer'[i] = buffer[i]
        /\ buffer'[Len(buffer) + 1] = f
        /\ \A i \in 1..Len(buffer') : i \in 1..Len(buffer) \/ i = Len(buffer) + 1
        BY <2>1, AppendKeeps
  <2>3. WriterTypes'
        BY <1>1, <2>2 DEF WriterTypes
  <2>4. \A i \in 1..Len(buffer) : buffer[i] # f
        BY <1>1 DEF Queued
  <2>5. Queued'
    <3>1. \A g \in Flushes : ahead'[g] <= logged'
          BY <1>1, <1>2, <1>3 DEF Queued
    <3>2. \A i, j \in 1..Len(buffer') : i # j => buffer'[i] # buffer'[j]
          BY <2>2, <2>4 DEF Queued
    <3>3. \A i \in 1..Len(buffer') : buffer'[i] \in LogEntries => buffer'[i] <= logged'
          BY <1>1, <1>4, <2>2 DEF Queued
    <3>4. \A i, j \in 1..Len(buffer') :
            i < j /\ buffer'[i] \in LogEntries /\ buffer'[j] \in LogEntries
            => buffer'[i] < buffer'[j]
          BY <1>4, <2>2 DEF Queued
    <3>5. \A i \in 1..Len(buffer') :
            buffer'[i] \in Flushes => flushed'[buffer'[i]] = "waiting"
          BY <1>3, <1>6, <2>2, <2>4 DEF Queued
    <3>6. \A i, j \in 1..Len(buffer') :
            buffer'[i] \in Flushes /\ buffer'[j] \in LogEntries /\ buffer'[j] <= ahead'[buffer'[i]]
            => j < i
      <4> SUFFICES ASSUME NEW i \in 1..Len(buffer'), NEW j \in 1..Len(buffer'),
                          buffer'[i] \in Flushes, buffer'[j] \in LogEntries,
                          buffer'[j] <= ahead'[buffer'[i]]
                   PROVE  j < i
          OBVIOUS
      <4>1. j \in 1..Len(buffer) /\ buffer'[j] = buffer[j]
            BY <1>4, <2>2
      <4>2. CASE i = Len(buffer) + 1
            BY <2>2, <4>1, <4>2
      <4>3. CASE i \in 1..Len(buffer)
        <5>1. buffer'[i] = buffer[i] /\ buffer[i] \in Flushes \ {f}
              BY <2>2, <2>4, <4>3
        <5> QED
            BY <1>3, <4>1, <4>3, <5>1 DEF Queued
      <4> QED
          BY <2>2, <4>2, <4>3
    <3> QED
        BY <3>1, <3>2, <3>3, <3>4, <3>5, <3>6 DEF Queued
  <2>6. Complete'
    <3> SUFFICES ASSUME logFile = "file" PROVE Complete'
        BY <1>1 DEF Complete
    <3>1. \A i \in 1..Len(buffer') : buffer'[i] \in LogEntries => Taken < buffer'[i]
          BY <1>4, <1>6, <2>2 DEF Complete
    <3>2. \A e \in LogEntries : Taken < e /\ e <= logged => \E i \in 1..Len(buffer') : buffer'[i] = e
          BY <1>6, <2>2 DEF Complete
    <3>3. \A g \in Flushes : flushed'[g] = "resolved" => ahead'[g] <= Taken
          BY <1>3, <1>6 DEF Complete
    <3> QED
        BY <1>1, <1>2, <1>6, <3>1, <3>2, <3>3 DEF Complete
  <2>7. Placed' /\ Stages'
        BY <1>1, <1>6 DEF Placed, Stages
  <2> QED
      BY <2>3, <2>5, <2>6, <2>7
<1> QED
    BY <1>5, <1>6

(* A flush that is over when the writer is destroyed had its turn, or nobody asks. *)
LEMMA RejectsKeeps == WriterInv /\ Rejects => WriterInv'
<1> SUFFICES ASSUME WriterInv, Rejects PROVE WriterInv'
    OBVIOUS
<1> USE DEF WriterInv
<1>1. /\ over' = TRUE /\ buffer' = <<>> /\ Len(buffer') = 0 /\ buffer # <<>>
      /\ UNCHANGED <<gzip, invalid, logFile, logged, inGzip, inFile, ending, ahead>>
      BY DEF Rejects
<1>2. flushed' \in [Flushes -> {"no", "waiting", "resolved"}]
      BY DEF Rejects, Resolved, WriterTypes
<1>3. WriterTypes'
  <2>1. buffer' \in Seq(LogEntries \cup Flushes)
        BY <1>1
  <2> QED
      BY <1>1, <1>2, <2>1 DEF WriterTypes
<1>4. Placed' /\ Queued' /\ Complete' /\ Stages'
      BY <1>1 DEF Placed, Queued, Complete, Stages
<1> QED
    BY <1>3, <1>4

(* The item that is taken is the next one, so that what stays in the buffer is in order. *)
LEMMA HandsKeeps == WriterInv /\ Hands => WriterInv'
<1> SUFFICES ASSUME WriterInv, Hands PROVE WriterInv'
    OBVIOUS
<1> DEFINE item == Head(buffer)
<1>1. /\ buffer # <<>> /\ buffer' = Tail(buffer)
      /\ UNCHANGED <<gzip, invalid, logFile, logged, over, ending, ahead>>
      BY DEF Hands
<1>2. /\ buffer' \in Seq(LogEntries \cup Flushes)
      /\ Len(buffer) \in Nat \ {0} /\ Len(buffer') = Len(buffer) - 1
      /\ \A i \in 1..Len(buffer') : i + 1 \in 1..Len(buffer) /\ buffer'[i] = buffer[i + 1]
      /\ \A i \in 1..Len(buffer) : i = 1 \/ i - 1 \in 1..Len(buffer')
      /\ item = buffer[1] /\ item \in LogEntries \cup Flushes
      BY <1>1, TailKeeps DEF WriterInv
<1>3. ~over /\ logFile # "no" /\ ending \notin {"target", "finished"}
      BY <1>1 DEF WriterInv, Stages
<1>4. logged \in Nat /\ MaxEntries \in Nat /\ 1 \in 1..Len(buffer)
      BY <1>2, WriterAssumption DEF WriterInv, WriterTypes
<1>5. \A i \in 1..Len(buffer') : buffer'[i] # item
  <2> SUFFICES ASSUME NEW i \in 1..Len(buffer') PROVE buffer[i + 1] # buffer[1]
      BY <1>2
  <2>1. i + 1 \in 1..Len(buffer) /\ i + 1 # 1
        BY <1>2
  <2> QED
      BY <1>4, <2>1 DEF WriterInv, Queued
<1>6. \A g \in Flushes : g # item => flushed'[g] = flushed[g]
      BY DEF Hands, Resolved, WriterInv, WriterTypes
<1>7. Queued'
  <2>1. \A g \in Flushes : ahead'[g] <= logged'
        BY <1>1 DEF WriterInv, Queued
  <2>2. \A i, j \in 1..Len(buffer') : i # j => buffer'[i] # buffer'[j]
        BY <1>2 DEF WriterInv, Queued
  <2>3. \A i \in 1..Len(buffer') : buffer'[i] \in LogEntries => buffer'[i] <= logged'
        BY <1>1, <1>2 DEF WriterInv, Queued
  <2>4. \A i, j \in 1..Len(buffer') :
          i < j /\ buffer'[i] \in LogEntries /\ buffer'[j] \in LogEntries
          => buffer'[i] < buffer'[j]
        BY <1>2 DEF WriterInv, Queued
  <2>5. \A i \in 1..Len(buffer') : buffer'[i] \in Flushes => flushed'[buffer'[i]] = "waiting"
        BY <1>2, <1>5, <1>6 DEF WriterInv, Queued
  <2>6. \A i, j \in 1..Len(buffer') :
          buffer'[i] \in Flushes /\ buffer'[j] \in LogEntries /\ buffer'[j] <= ahead'[buffer'[i]]
          => j < i
    <3> SUFFICES ASSUME NEW i \in 1..Len(buffer'), NEW j \in 1..Len(buffer'),
                        buffer[i + 1] \in Flushes, buffer[j + 1] \in LogEntries,
                        buffer[j + 1] <= ahead[buffer[i + 1]]
                 PROVE  j < i
        BY <1>1, <1>2
    <3>1. j + 1 < i + 1
          BY <1>2 DEF WriterInv, Queued
    <3> QED
        BY <1>2, <3>1
  <2> QED
      BY <2>1, <2>2, <2>3, <2>4, <2>5, <2>6 DEF Queued
<1>8. CASE item \in Flushes
  <2>1. /\ flushed'[item] = "resolved" /\ UNCHANGED <<inGzip, inFile>>
        /\ flushed' \in [Flushes -> {"no", "waiting", "resolved"}]
        BY <1>8 DEF Hands, Resolved, WriterInv, WriterTypes
  <2>2. WriterTypes'
        BY <1>1, <1>2, <2>1 DEF WriterInv, WriterTypes
  <2>3. Placed' /\ Taken' = Taken
        BY <2>1 DEF WriterInv, Placed, Taken
  <2>4. Stages'
        BY <1>1, <1>3, <2>1 DEF WriterInv, Stages
  <2>5. Complete'
    <3> SUFFICES ASSUME logFile = "file" PROVE Complete'
        BY <1>1 DEF Complete
    <3>1. ahead[item] <= Taken
          BY <1>1, <1>3, <1>8, FlushIsServed
    <3>2. \A g \in Flushes : flushed'[g] = "resolved" => ahead[g] <= Taken
          BY <1>3, <1>6, <3>1 DEF WriterInv, Complete
    <3>3. \A i \in 1..Len(buffer') : buffer'[i] \in LogEntries => Taken < buffer'[i]
          BY <1>2, <1>3 DEF WriterInv, Complete
    <3>4. ASSUME NEW e \in LogEntries, Taken < e, e <= logged
          PROVE  \E i \in 1..Len(buffer') : buffer'[i] = e
      <4>1. PICK i \in 1..Len(buffer) : buffer[i] = e
            BY <1>3, <3>4 DEF WriterInv, Complete
      <4>2. i # 1
            BY <1>2, <1>8, <4>1, WriterAssumption
      <4>3. i - 1 \in 1..Len(buffer') /\ buffer'[i - 1] = buffer[i]
            BY <1>2, <4>2
      <4> QED
          BY <4>1, <4>3
    <3> QED
        BY <1>1, <1>3, <2>3, <3>2, <3>3, <3>4 DEF WriterInv, Complete
  <2> QED
      BY <1>7, <2>2, <2>3, <2>4, <2>5 DEF WriterInv
<1>9. CASE item \in LogEntries
  <2>0. item \notin Flushes /\ flushed' = flushed
        BY <1>9, WriterAssumption DEF Hands
  <2>1. CASE logFile # "file"
    <3>1. UNCHANGED <<inGzip, inFile>>
          BY <2>0, <2>1 DEF Hands
    <3>2. WriterTypes'
          BY <1>1, <1>2, <2>0, <3>1 DEF WriterInv, WriterTypes
    <3>3. Placed' /\ Complete' /\ Stages'
          BY <1>1, <1>3, <2>0, <2>1, <3>1 DEF WriterInv, Placed, Complete, Stages
    <3> QED
        BY <1>7, <3>2, <3>3 DEF WriterInv
  <2>2. CASE logFile = "file"
    <3>1. item = Taken + 1
          BY <1>1, <1>3, <1>9, <2>2, HeadIsNext
    <3>2. /\ inGzip \in Seq(LogEntries) /\ inFile \in Seq(LogEntries)
          /\ Len(inGzip) \in Nat /\ Len(inFile) \in Nat /\ gzip \in BOOLEAN
          BY LenProperties DEF WriterInv, WriterTypes
    <3>3. /\ inGzip' \in Seq(LogEntries) /\ inFile' \in Seq(LogEntries)
          /\ Taken' = Taken + 1 /\ Placed' /\ (~gzip => inGzip' = <<>>)
      <4>1. CASE gzip
        <5>1. inFile' = inFile /\ inGzip' = Append(inGzip, item)
              BY <2>0, <2>2, <4>1 DEF Hands
        <5>2. /\ inGzip' \in Seq(LogEntries) /\ Len(inGzip') = Len(inGzip) + 1
              /\ \A i \in 1..Len(inGzip) : inGzip'[i] = inGzip[i]
              /\ inGzip'[Len(inGzip) + 1] = item
              BY <1>9, <3>2, <5>1, AppendProperties
        <5>3. Taken' = Taken + 1
              BY <3>2, <5>1, <5>2 DEF Taken
        <5>4. \A i \in 1..Len(inGzip') : inGzip'[i] = Len(inFile') + i
          <6> TAKE i \in 1..Len(inGzip')
          <6>1. CASE i = Len(inGzip) + 1
                BY <3>1, <3>2, <5>1, <5>2, <6>1 DEF Taken
          <6>2. CASE i # Len(inGzip) + 1
            <7>1. i \in 1..Len(inGzip) /\ inGzip'[i] = inGzip[i]
                  BY <3>2, <5>2, <6>2
            <7> QED
                BY <5>1, <7>1 DEF WriterInv, Placed
          <6> QED
              BY <6>1, <6>2
        <5>5. Placed'
              BY <5>1, <5>4 DEF WriterInv, Placed
        <5> QED
            BY <3>2, <4>1, <5>1, <5>2, <5>3, <5>5
      <4>2. CASE ~gzip
        <5>1. inGzip' = inGzip /\ inFile' = Append(inFile, item)
              BY <2>0, <2>2, <4>2 DEF Hands
        <5>2. /\ inFile' \in Seq(LogEntries) /\ Len(inFile') = Len(inFile) + 1
              /\ \A i \in 1..Len(inFile) : inFile'[i] = inFile[i]
              /\ inFile'[Len(inFile) + 1] = item
              BY <1>9, <3>2, <5>1, AppendProperties
        <5>3. inGzip = <<>> /\ Len(inGzip) = 0
              BY <4>2 DEF WriterInv, Stages
        <5>4. Taken' = Taken + 1
              BY <3>2, <5>1, <5>2 DEF Taken
        <5>5. Placed'
              BY <3>1, <3>2, <5>1, <5>2, <5>3 DEF WriterInv, Placed, Taken
        <5> QED
            BY <3>2, <5>1, <5>2, <5>3, <5>4, <5>5
      <4> QED
          BY <3>2, <4>1, <4>2
    <3>4. WriterTypes'
          BY <1>1, <1>2, <2>0, <3>3 DEF WriterInv, WriterTypes
    <3>5. Stages'
          BY <1>1, <1>3, <2>2, <2>0, <3>3 DEF WriterInv, Stages
    <3>6. Taken \in Nat /\ Taken + 1 <= logged
          BY <1>2, <1>4, <1>9, <3>1, <3>2 DEF WriterInv, Queued, Taken
    <3>7. \A i \in 1..Len(buffer') : buffer'[i] \in LogEntries => Taken + 1 < buffer'[i]
          BY <1>2, <1>4, <1>9, <3>1 DEF WriterInv, Queued
    <3>8. ASSUME NEW e \in LogEntries, Taken + 1 < e, e <= logged
          PROVE  \E i \in 1..Len(buffer') : buffer'[i] = e
      <4>1. Taken < e /\ e # Taken + 1
            BY <3>6, <3>8 DEF LogEntries
      <4>2. PICK i \in 1..Len(buffer) : buffer[i] = e
            BY <1>3, <2>2, <3>8, <4>1 DEF WriterInv, Complete
      <4>3. i # 1
            BY <1>2, <3>1, <4>1, <4>2
      <4>4. i - 1 \in 1..Len(buffer') /\ buffer'[i - 1] = buffer[i]
            BY <1>2, <4>3
      <4> QED
          BY <4>2, <4>4
    <3>9. \A g \in Flushes : flushed[g] = "resolved" => ahead[g] <= Taken + 1
          BY <1>3, <2>2, <3>6 DEF WriterInv, WriterTypes, Complete
    <3> QED
        BY <1>1, <1>7, <2>0, <3>3, <3>4, <3>5, <3>6, <3>7, <3>8, <3>9 DEF WriterInv, Complete
  <2> QED
      BY <2>1, <2>2
<1> QED
    BY <1>2, <1>8, <1>9

LEMMA DrainsKeeps == WriterInv /\ Drains => WriterInv'
<1> SUFFICES ASSUME WriterInv, Drains PROVE WriterInv'
    OBVIOUS
<1>1. /\ inGzip # <<>> /\ inGzip' = Tail(inGzip) /\ inFile' = Append(inFile, Head(inGzip))
      /\ UNCHANGED <<gzip, invalid, logFile, logged, buffer, over, ending, flushed, ahead>>
      BY DEF Drains
<1>2. /\ inGzip \in Seq(LogEntries) /\ inFile \in Seq(LogEntries)
      /\ Len(inGzip) \in Nat \ {0} /\ Len(inFile) \in Nat
      BY <1>1, LenProperties, EmptySeq DEF WriterInv, WriterTypes
<1>3. /\ inGzip' \in Seq(LogEntries) /\ Len(inGzip') = Len(inGzip) - 1
      /\ \A i \in 1..Len(inGzip') : inGzip'[i] = inGzip[i + 1]
      /\ Head(inGzip) = inGzip[1] /\ Head(inGzip) \in LogEntries
      BY <1>1, <1>2, HeadTailProperties
<1>4. /\ inFile' \in Seq(LogEntries) /\ Len(inFile') = Len(inFile) + 1
      /\ \A i \in 1..Len(inFile) : inFile'[i] = inFile[i]
      /\ inFile'[Len(inFile) + 1] = Head(inGzip)
      BY <1>1, <1>2, <1>3, AppendProperties
<1>5. Taken' = Taken
      BY <1>2, <1>3, <1>4 DEF Taken
<1>6. WriterTypes'
      BY <1>1, <1>3, <1>4 DEF WriterInv, WriterTypes
<1>7. Placed'
  <2>1. inGzip[1] = Len(inFile) + 1
        BY <1>2 DEF WriterInv, Placed
  <2>2. \A i \in 1..Len(inFile') : inFile'[i] = i
    <3> TAKE i \in 1..Len(inFile')
    <3>1. CASE i = Len(inFile) + 1
          BY <1>3, <1>4, <2>1, <3>1
    <3>2. CASE i # Len(inFile) + 1
      <4>1. i \in 1..Len(inFile) /\ inFile'[i] = inFile[i]
            BY <1>2, <1>4, <3>2
      <4> QED
          BY <4>1 DEF WriterInv, Placed
    <3> QED
        BY <3>1, <3>2
  <2>3. \A i \in 1..Len(inGzip') : i + 1 \in 1..Len(inGzip) /\ inGzip[i + 1] = Len(inFile) + (i + 1)
        BY <1>2, <1>3 DEF WriterInv, Placed
  <2>4. \A i \in 1..Len(inGzip') : inGzip'[i] = Len(inFile') + i
    <3> TAKE i \in 1..Len(inGzip')
    <3>1. i \in Nat /\ inGzip'[i] = inGzip[i + 1]
          BY <1>2, <1>3
    <3>2. inGzip'[i] = Len(inFile) + (i + 1)
          BY <2>3, <3>1
    <3>3. Len(inFile) + (i + 1) = Len(inFile') + i
          BY <1>2, <1>4, <3>1
    <3> QED
        BY <3>2, <3>3
  <2> QED
      BY <2>2, <2>4 DEF Placed
<1>8. Queued' /\ Complete'
      BY <1>1, <1>5 DEF WriterInv, Queued, Complete
<1>9. Stages'
      BY <1>1 DEF WriterInv, Stages
<1> QED
    BY <1>6, <1>7, <1>8, <1>9 DEF WriterInv

LEMMA OpensKeeps == WriterInv /\ Opens => WriterInv'
<1> SUFFICES ASSUME WriterInv, Opens PROVE WriterInv'
    OBVIOUS
<1>1. /\ logFile = "no" /\ logFile' \in {"file", "null"}
      /\ UNCHANGED <<gzip, invalid, logged, buffer, inGzip, inFile, over, ending, flushed, ahead>>
      BY DEF Opens
<1>2. /\ logged = 0 /\ buffer = <<>> /\ inFile = <<>> /\ inGzip = <<>> /\ ending = "no"
      /\ \A f \in Flushes : flushed[f] = "no" /\ ahead[f] = 0
      /\ Len(buffer) = 0 /\ Len(inFile) = 0 /\ Len(inGzip) = 0
      BY <1>1 DEF WriterInv, Stages
<1>3. WriterTypes'
      BY <1>1 DEF WriterInv, WriterTypes
<1>4. Placed' /\ Queued' /\ Stages'
      BY <1>1, <1>2 DEF WriterInv, Placed, Queued, Stages
<1>5. Complete'
      BY <1>1, <1>2, WriterAssumption DEF Complete, Taken, LogEntries
<1> QED
    BY <1>3, <1>4, <1>5 DEF WriterInv

LEMMA EndKeeps == WriterInv /\ (End \/ Final \/ Finishes) => WriterInv'
<1> SUFFICES ASSUME WriterInv, End \/ Final \/ Finishes PROVE WriterInv'
    OBVIOUS
<1>1. UNCHANGED <<gzip, invalid, logFile, logged, buffer, inGzip, inFile, over, flushed, ahead>>
      BY DEF End, Final, Finishes
<1>2. ending' \in {"called", "target", "finished"} /\ logFile # "no"
      BY DEF End, Final, Finishes, Usable, WriterInv, Stages
<1>3. WriterTypes' /\ Placed' /\ Queued' /\ Complete'
      BY <1>1, <1>2 DEF WriterInv, WriterTypes, Placed, Queued, Complete, Taken
<1>4. Stages'
      BY <1>1, <1>2 DEF WriterInv, Stages, End, Final, Finishes, FileFinished
<1> QED
    BY <1>3, <1>4 DEF WriterInv

LEMMA WriterInvHolds == WriterSpec => []WriterInv
<1>1. WriterInv /\ [WriterNext]_writerVars => WriterInv'
  <2> SUFFICES ASSUME WriterInv, [WriterNext]_writerVars PROVE WriterInv'
      OBVIOUS
  <2>1. CASE UNCHANGED writerVars
        BY <2>1 DEF writerVars, WriterInv, WriterTypes, Placed, Queued, Complete, Stages, Taken
  <2>2. CASE \E f \in Flushes : Flush(f)
        BY <2>2, FlushKeeps
  <2> QED
      BY <2>1, <2>2, OpensKeeps, LogKeeps, EndKeeps, RejectsKeeps, HandsKeeps, DrainsKeeps
      DEF WriterNext
<1> QED
    BY <1>1, WriterInvInit, PTL DEF WriterSpec

(* The log file has the first entries in their order; a flush that is over  *)
(* has what was logged before it, and at the end the file has all           *)
(* (mongo-log-writer.ts).                                                   *)
THEOREM WriterKeepsOrder == WriterSpec => []LogIsInOrder
<1>1. WriterInv => LogIsInOrder
  <2> SUFFICES ASSUME WriterInv PROVE LogIsInOrder
      OBVIOUS
  <2>1. /\ inFile \in Seq(LogEntries) /\ inGzip \in Seq(LogEntries)
        /\ Len(inFile) \in Nat /\ Len(inGzip) \in Nat
        BY LenProperties DEF WriterInv, WriterTypes
  <2> DEFINE n == Len(inFile) + Len(inGzip)
  <2>2. inFile \o inGzip = FirstEntries(n)
    <3>1. inFile \o inGzip \in Seq(LogEntries) /\ Len(inFile \o inGzip) = n
          BY <2>1, ConcatProperties
    <3>2. \A i \in 1..n : (inFile \o inGzip)[i] = i
      <4> TAKE i \in 1..n
      <4>1. (inFile \o inGzip)[i] = IF i <= Len(inFile) THEN inFile[i] ELSE inGzip[i - Len(inFile)]
            BY <2>1, ConcatProperties
      <4>2. CASE i <= Len(inFile)
            BY <2>1, <4>1, <4>2 DEF WriterInv, Placed
      <4>3. CASE ~(i <= Len(inFile))
        <5>1. i - Len(inFile) \in 1..Len(inGzip)
              BY <2>1, <4>3
        <5> QED
            BY <2>1, <4>1, <4>3, <5>1 DEF WriterInv, Placed
      <4> QED
          BY <4>2, <4>3
    <3>3. inFile \o inGzip = [i \in 1..n |-> (inFile \o inGzip)[i]]
      <4>1. inFile \o inGzip \in [1..Len(inFile \o inGzip) -> LogEntries]
            BY <3>1, LenProperties
      <4> HIDE DEF n
      <4> DEFINE whole == inFile \o inGzip
      <4>2. whole \in [1..n -> LogEntries]
            BY <3>1, <4>1
      <4> HIDE DEF whole
      <4>3. whole = [i \in 1..n |-> whole[i]]
            BY <4>2
      <4> QED
          BY <4>3 DEF whole
    <3> QED
        BY <3>2, <3>3 DEF FirstEntries
  <2>3. ASSUME logFile = "file", ~over, NEW f \in Flushes, flushed[f] = "resolved"
        PROVE  n >= ahead[f]
        BY <2>1, <2>3 DEF WriterInv, WriterTypes, Complete, Taken
  <2>4. ASSUME logFile = "file", ~over, ending = "finished" PROVE Len(inFile) = logged
    <3>1. buffer = <<>> /\ inGzip = <<>> /\ Len(inGzip) = 0 /\ Len(buffer) = 0
          BY <2>4 DEF WriterInv, Stages
    <3>2. Taken = Len(inFile) /\ Taken <= logged /\ logged \in 0..MaxEntries /\ MaxEntries \in Nat
          BY <2>1, <2>4, <3>1, WriterAssumption DEF WriterInv, WriterTypes, Complete, Taken
    <3> SUFFICES ASSUME Taken < logged PROVE FALSE
        BY <2>1, <3>2
    <3>3. Taken + 1 \in LogEntries /\ Taken < Taken + 1 /\ Taken + 1 <= logged
          BY <2>1, <3>2 DEF LogEntries
    <3> QED
        BY <2>4, <3>1, <3>3 DEF WriterInv, Complete
  <2> QED
      BY <2>2, <2>3, <2>4 DEF LogIsInOrder
<1> QED
    BY <1>1, WriterInvHolds, PTL
=============================================================================
