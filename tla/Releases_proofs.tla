-------------------------- MODULE Releases_proofs ---------------------------
(***************************************************************************)
(* What is released and what is known of releases, for every value of the  *)
(* constants: the list of versions, for any number of calls and processes  *)
(* (VersionList), the bump of packages (PackageBump), the alignment of     *)
(* their dependencies (Depalign), the tickets that builds create           *)
(* (VulnTickets) and the signing of files (Signing).                       *)
(***************************************************************************)
EXTENDS VersionList, PackageBump, Depalign, VulnTickets, Signing, FiniteSetTheorems,
        WellFoundedInduction, TLAPS

(* Where a call is after it has fetched the list.                            *)
Fetched == {"create", "write", "rename", "unlink", "return"}

(* The temporary file of a call that writes or renames it is its own, and is *)
(* whole when it is renamed, unless another call has removed it.             *)
Owned ==
  ~clashed => \A r \in ListCalls : listCall[r] \in {"write", "rename"} =>
    LET f == partial[Process[r]]
    IN /\ f # Absent /\ f.by = r /\ f.round = rounds[r]
       /\ listCall[r] = "rename" => f.whole

(* A call makes one file each time, which is as old as the list in it.       *)
Numbered(f) ==
  f # Absent =>
    /\ f.round <= rounds[f.by]
    /\ f.round = rounds[f.by] =>
         /\ listCall[f.by] \in {"write", "rename", "unlink", "return", "idle"}
         /\ listCall[f.by] = "write" => f.mtime = clock

Dated(f) == f # Absent => f.list = f.mtime \/ resaved

FilesOK ==
  /\ Numbered(cache) /\ Dated(cache)
  /\ \A p \in Processes : Numbered(partial[p]) /\ Dated(partial[p])
  /\ \A r \in ListCalls : Dated(opened[r])
  /\ \A r \in ListCalls : listCall[r] = "stat" => opened[r] # Absent

(* A list in memory is at most one cache time older than it claims, and was  *)
(* put there just now if a call has fetched it.                              *)
MemoryOK ==
  /\ \A p \in Processes :
       memory[p] # Absent => memory[p].list >= memory[p].stamp - CacheTime \/ resaved
  /\ \A r \in ListCalls : listCall[r] \in Fetched =>
       IF Mine(r) = Absent THEN r \in cleared ELSE Mine(r).stamp = clock

IInv == VersionTypeOK /\ Owned /\ CacheIsWhole /\ FilesOK /\ MemoryOK /\ ListIsFresh

-----------------------------------------------------------------------------
LEMMA Numbers ==
  /\ CacheTime \in Nat \ {0} /\ MaxClock \in Nat /\ MaxRounds \in Nat
  /\ Absent \notin Copies /\ Absent \notin Files
  /\ \A r \in ListCalls : Process[r] \in Processes
BY VersionAssumption DEF Processes

LEMMA InitOK == VersionInit => IInv
<1> SUFFICES ASSUME VersionInit
             PROVE  IInv
    OBVIOUS
<1> USE Numbers DEF VersionInit
<1>1. VersionTypeOK
  <2>1. [kind |-> "none", age |-> 0] \in
          [kind : {"none", "list", "cleared", "undefined"}, age : Int]
        OBVIOUS
  <2>2. result \in [ListCalls -> [kind : {"none", "list", "cleared", "undefined"}, age : Int]]
        BY <2>1
  <2>3. /\ memory \in [Processes -> Copies \cup {Absent}]
        /\ partial \in [Processes -> Files \cup {Absent}]
        /\ opened \in [ListCalls -> Files \cup {Absent}]
        OBVIOUS
  <2>4. /\ clock \in 0 .. MaxClock /\ rounds \in [ListCalls -> 0 .. MaxRounds]
        /\ cache \in Files \cup {Absent}
        /\ listCall \in [ListCalls -> CallStates]
        BY DEF CallStates
  <2>5. tryWrite \subseteq ListCalls /\ cleared \subseteq ListCalls
        OBVIOUS
  <2>6. clashed \in BOOLEAN /\ resaved \in BOOLEAN
        OBVIOUS
  <2>7. QED BY <2>2, <2>3, <2>4, <2>5, <2>6 DEF VersionTypeOK
<1>2. Owned /\ CacheIsWhole /\ ListIsFresh
      BY DEF Owned, CacheIsWhole, ListIsFresh
<1>3. FilesOK /\ MemoryOK
      BY DEF FilesOK, Numbered, Dated, MemoryOK, Fetched
<1>4. QED BY <1>1, <1>2, <1>3 DEF IInv

(* What a call returns is there and fresh if it is up to date, or was        *)
(* fetched.                                                                  *)
LEMMA Returned ==
  ASSUME IInv, NEW r \in ListCalls, Return(r), UNCHANGED <<memory, clock, resaved>>,
         UpToDate(Mine(r)) \/ listCall[r] \in Fetched
  PROVE  /\ ListIsFresh'
         /\ listCall' = [listCall EXCEPT ![r] = "idle"]
         /\ result' \in [ListCalls ->
              [kind : {"none", "list", "cleared", "undefined"}, age : Int]]
         /\ tryWrite' \subseteq ListCalls
<1> USE Numbers DEF IInv, Return, Goto
<1>1. Mine(r) \in Copies \cup {Absent} /\ clock \in Nat
      BY DEF VersionTypeOK, Mine
<1>2. CASE Mine(r) = Absent
  <2>1. r \in cleared /\ result' = [result EXCEPT ![r] = [kind |-> "cleared", age |-> 0]]
        BY <1>2 DEF UpToDate, MemoryOK
  <2>2. QED BY <2>1 DEF VersionTypeOK, ListIsFresh
<1>3. CASE Mine(r) # Absent
  <2>1. /\ result' = [result EXCEPT ![r] = [kind |-> "list", age |-> clock - Mine(r).list]]
        /\ Mine(r).list \in Nat /\ Mine(r).stamp \in Nat
        BY <1>1, <1>3 DEF Copies
  <2>2. Mine(r).stamp >= clock - CacheTime
        BY <1>1, <1>3, <2>1 DEF UpToDate, MemoryOK
  <2>3. Mine(r).list >= Mine(r).stamp - CacheTime \/ resaved
        BY <1>3 DEF MemoryOK, Mine
  <2>4. clock - Mine(r).list <= 2 * CacheTime \/ resaved
        BY <1>1, <2>1, <2>2, <2>3
  <2>5. QED BY <1>1, <2>1, <2>4 DEF VersionTypeOK, ListIsFresh
<1>4. QED BY <1>2, <1>3

-----------------------------------------------------------------------------
(* Steps that touch neither a file nor the memory.                           *)
LEMMA CallSteps ==
  ASSUME IInv, NEW r \in ListCalls, GetFullJSON(r) \/ Check(r) \/ Finish(r)
  PROVE  IInv'
<1> USE Numbers DEF IInv
<1>1. CASE GetFullJSON(r)
  <2> USE <1>1 DEF GetFullJSON, files
  <2>1. /\ listCall' \in {[listCall EXCEPT ![r] = "idle"], [listCall EXCEPT ![r] = "open"]}
        /\ ListIsFresh'
        /\ result' \in [ListCalls ->
             [kind : {"none", "list", "cleared", "undefined"}, age : Int]]
        /\ tryWrite' \subseteq ListCalls
        BY Returned DEF Goto, VersionTypeOK, ListIsFresh
  <2>2. rounds' = [rounds EXCEPT ![r] = @ + 1] /\ rounds'[r] > rounds[r]
        /\ rounds' \in [ListCalls -> 0 .. MaxRounds]
        BY DEF VersionTypeOK
  <2>3. VersionTypeOK'
        BY <2>1, <2>2 DEF VersionTypeOK, CallStates
  <2>4. Owned'
        BY <2>1, <2>2 DEF VersionTypeOK, Owned
  <2>5. \A f \in Files \cup {Absent} : Numbered(f) => Numbered(f)'
        BY <2>1, <2>2 DEF VersionTypeOK, Numbered, Files
  <2>6. FilesOK'
        BY <2>1, <2>5 DEF VersionTypeOK, FilesOK, Numbered, Dated
  <2>7. CacheIsWhole' /\ MemoryOK'
        BY <2>1 DEF VersionTypeOK, CacheIsWhole, MemoryOK, Mine, Fetched
  <2>8. QED BY <2>1, <2>3, <2>4, <2>6, <2>7
<1>2. CASE Check(r) \/ Finish(r)
  <2> USE <1>2 DEF Check, Finish, files, ghosts
  <2>1. /\ listCall' \in {[listCall EXCEPT ![r] = "idle"], [listCall EXCEPT ![r] = "fetch"]}
        /\ ListIsFresh'
        /\ result' \in [ListCalls ->
             [kind : {"none", "list", "cleared", "undefined"}, age : Int]]
        /\ tryWrite' \subseteq ListCalls
        BY Returned DEF Goto, VersionTypeOK, ListIsFresh, Fetched
  <2>2. /\ UNCHANGED <<clock, memory, cache, partial, opened, rounds, cleared, clashed, resaved>>
        /\ listCall'[r] = "idle" \/ (listCall[r] = "check" /\ listCall'[r] = "fetch")
        BY <2>1 DEF VersionTypeOK, Return, Goto
  <2>3. VersionTypeOK'
        BY <2>1, <2>2 DEF VersionTypeOK, CallStates
  <2>4. Owned' /\ CacheIsWhole'
        BY <2>1, <2>2 DEF VersionTypeOK, Owned, CacheIsWhole
  <2>5. FilesOK'
        BY <2>1, <2>2 DEF VersionTypeOK, FilesOK, Numbered, Dated, Files
  <2>6. MemoryOK'
        BY <2>1, <2>2 DEF VersionTypeOK, MemoryOK, Mine, Fetched
  <2>7. QED BY <2>1, <2>3, <2>4, <2>5, <2>6
<1>3. QED BY <1>1, <1>2

(* Reading the cache file, and fetching the list.                            *)
LEMMA ReadSteps ==
  ASSUME IInv, NEW r \in ListCalls,
         Open(r) \/ Read(r) \/ (\E ok \in BOOLEAN : FetchList(r, ok))
  PROVE  IInv'
<1> USE Numbers DEF IInv, Goto
<1>1. CASE Open(r)
  <2> USE <1>1 DEF Open, files, ghosts
  <2>1. /\ listCall' \in {[listCall EXCEPT ![r] = "check"], [listCall EXCEPT ![r] = "stat"]}
        /\ listCall'[r] = "stat" => cache # Absent
        BY DEF VersionTypeOK
  <2>2. VersionTypeOK'
        BY <2>1 DEF VersionTypeOK, CallStates
  <2>3. Owned' /\ CacheIsWhole' /\ MemoryOK' /\ ListIsFresh'
        BY <2>1 DEF VersionTypeOK, Owned, CacheIsWhole, MemoryOK, Mine, Fetched, ListIsFresh
  <2>4. FilesOK'
        BY <2>1 DEF VersionTypeOK, FilesOK, Numbered, Dated, Files
  <2>5. QED BY <2>2, <2>3, <2>4
<1>2. CASE Read(r)
  <2> USE <1>2 DEF Read, files, ghosts
  <2>1. opened[r] \in Files /\ clock \in Nat
        BY DEF VersionTypeOK, FilesOK
  <2>2. \/ UNCHANGED memory
        \/ /\ memory' = [memory EXCEPT ![Process[r]] =
                           [list |-> opened[r].list, stamp |-> clock]]
           /\ Current(opened[r])
        OBVIOUS
  <2>3. opened[r].list >= clock - CacheTime \/ resaved \/ ~Current(opened[r])
        BY <2>1 DEF FilesOK, Dated, Current, Files
  <2>4. /\ [list |-> opened[r].list, stamp |-> clock] \in Copies
        /\ [list |-> opened[r].list, stamp |-> clock] # Absent
        BY <2>1 DEF Copies, Files
  <2>5. VersionTypeOK'
        BY <2>2, <2>4 DEF VersionTypeOK, CallStates
  <2>6. Owned' /\ CacheIsWhole' /\ ListIsFresh'
        BY DEF VersionTypeOK, Owned, CacheIsWhole, ListIsFresh
  <2>7. FilesOK'
        BY DEF VersionTypeOK, FilesOK, Numbered, Dated, Files
  <2>8. MemoryOK'
    <3>1. listCall' = [listCall EXCEPT ![r] = "check"]
          OBVIOUS
    <3>2. CASE UNCHANGED memory
          BY <3>1, <3>2 DEF VersionTypeOK, MemoryOK, Mine, Fetched
    <3>3. CASE ~UNCHANGED memory
      <4>1. /\ memory' = [memory EXCEPT ![Process[r]] =
                            [list |-> opened[r].list, stamp |-> clock]]
            /\ opened[r].list >= clock - CacheTime \/ resaved
            BY <2>2, <2>3, <3>3
      <4>2. \A p \in Processes : memory[p] # Absent =>
              memory[p].list >= memory[p].stamp - CacheTime \/ resaved
            BY DEF MemoryOK
      <4>3. \A p \in Processes : memory'[p] # Absent =>
              memory'[p].list >= memory'[p].stamp - CacheTime \/ resaved
            BY <4>1, <4>2 DEF VersionTypeOK
      <4>4. \A s \in ListCalls : listCall'[s] \in Fetched =>
              IF memory'[Process[s]] = Absent THEN s \in cleared
              ELSE memory'[Process[s]].stamp = clock
            BY <2>4, <3>1, <4>1 DEF VersionTypeOK, MemoryOK, Mine, Fetched
      <4>5. QED BY <4>3, <4>4 DEF MemoryOK, Mine
    <3>4. QED BY <3>2, <3>3
  <2>9. QED BY <2>5, <2>6, <2>7, <2>8
<1>3. ASSUME NEW ok \in BOOLEAN, FetchList(r, ok)
      PROVE  IInv'
  <2> USE <1>3 DEF FetchList, files, ghosts
  <2>1. /\ [list |-> clock, stamp |-> clock] \in Copies
        /\ [list |-> clock, stamp |-> clock] # Absent
        BY DEF VersionTypeOK, Copies
  <2>2. \/ /\ memory' = [memory EXCEPT ![Process[r]] = [list |-> clock, stamp |-> clock]]
           /\ listCall' \in {[listCall EXCEPT ![r] = "create"],
                             [listCall EXCEPT ![r] = "return"]}
        \/ UNCHANGED memory /\ listCall' = [listCall EXCEPT ![r] = "idle"]
        OBVIOUS
  <2>3. VersionTypeOK'
        BY <2>1, <2>2 DEF VersionTypeOK, CallStates
  <2>4. Owned' /\ CacheIsWhole' /\ ListIsFresh'
        BY <2>2 DEF VersionTypeOK, Owned, CacheIsWhole, ListIsFresh
  <2>5. FilesOK'
        BY <2>2 DEF VersionTypeOK, FilesOK, Numbered, Dated, Files
  <2>6. MemoryOK'
        BY <2>1, <2>2 DEF VersionTypeOK, MemoryOK, Mine, Fetched
  <2>7. QED BY <2>3, <2>4, <2>5, <2>6
<1>4. QED BY <1>1, <1>2, <1>3

-----------------------------------------------------------------------------
(* Saving the list.                                                          *)
LEMMA CreateStep ==
  ASSUME IInv, NEW r \in ListCalls, Create(r)
  PROVE  IInv'
<1> USE Numbers DEF IInv, Create, Goto, PartialFile
<1>1. CASE Mine(r) = Absent \/ partial[Process[r]] # Absent
  <2>1. listCall' = [listCall EXCEPT ![r] = "unlink"]
        /\ UNCHANGED <<clock, memory, cache, partial, tryWrite, opened, result, rounds,
                       cleared, clashed, resaved>>
        BY <1>1
  <2>2. VersionTypeOK' /\ Owned' /\ CacheIsWhole' /\ ListIsFresh'
        BY <2>1 DEF VersionTypeOK, CallStates, Owned, CacheIsWhole, ListIsFresh
  <2>3. FilesOK'
        BY <2>1 DEF VersionTypeOK, FilesOK, Numbered, Dated, Files
  <2>4. MemoryOK'
        BY <2>1 DEF VersionTypeOK, MemoryOK, Mine, Fetched
  <2>5. QED BY <2>2, <2>3, <2>4
<1>2. CASE ~(Mine(r) = Absent \/ partial[Process[r]] # Absent)
  <2> PICK f : f = [by |-> r, round |-> rounds[r], list |-> Mine(r).list,
                    mtime |-> clock, whole |-> FALSE]
      OBVIOUS
  <2>1. /\ listCall[r] = "create" /\ listCall' = [listCall EXCEPT ![r] = "write"]
        /\ partial' = [partial EXCEPT ![Process[r]] = f]
        /\ resaved' = (resaved \/ Mine(r).list # clock)
        /\ UNCHANGED <<clock, memory, cache, tryWrite, opened, result, rounds, cleared,
                       clashed>>
        BY <1>2
  <2>2. f \in Files /\ f # Absent
    <3>1. Mine(r) \in Copies /\ rounds[r] \in Nat /\ clock \in Nat
          BY <1>2 DEF VersionTypeOK, Mine
    <3>2. f \in Files
          BY <3>1 DEF Copies, Files
    <3>3. QED BY <3>2
  <2>3. f.by = r /\ f.round = rounds[r] /\ f.list = Mine(r).list /\ f.mtime = clock
        OBVIOUS
  <2>4. resaved' \in BOOLEAN /\ (resaved => resaved')
        BY <2>1 DEF VersionTypeOK
  <2>5. VersionTypeOK'
        BY <2>1, <2>2, <2>4 DEF VersionTypeOK, CallStates
  <2>6. Owned' /\ CacheIsWhole' /\ ListIsFresh'
        BY <1>2, <2>1, <2>2, <2>3, <2>4 DEF VersionTypeOK, Owned, CacheIsWhole, ListIsFresh
  <2>7. Numbered(f)' /\ Dated(f)'
    <3>1. rounds'[r] = rounds[r] /\ rounds[r] \in Nat /\ listCall'[r] = "write"
          BY <2>1 DEF VersionTypeOK
    <3>2. f.list = f.mtime \/ resaved'
          BY <2>1, <2>3
    <3>3. QED BY <2>1, <2>3, <3>1, <3>2 DEF Numbered, Dated
  <2>8. \A g \in Files \cup {Absent} :
          /\ Numbered(g) => Numbered(g)'
          /\ Dated(g) => Dated(g)'
        BY <2>1, <2>4 DEF VersionTypeOK, Numbered, Dated, Files
  <2>9. FilesOK'
        BY <2>1, <2>7, <2>8 DEF VersionTypeOK, FilesOK
  <2>10. MemoryOK'
        BY <2>1, <2>4 DEF VersionTypeOK, MemoryOK, Mine, Fetched
  <2>11. QED BY <2>5, <2>6, <2>9, <2>10
<1>3. QED BY <1>1, <1>2

LEMMA CompletedFile ==
  ASSUME IInv, NEW r \in ListCalls, listCall[r] = "write",
         NEW STATE f, f \in Files \cup {Absent}, Numbered(f), Dated(f)
  PROVE  LET g == Completed(f, r)
         IN /\ g \in Files \cup {Absent}
            /\ g = Absent <=> f = Absent
            /\ f # Absent => /\ g.by = f.by /\ g.round = f.round
                             /\ g.list = f.list /\ g.mtime = f.mtime
                             /\ f.by = r /\ f.round = rounds[r] => g.whole
                             /\ f.whole => g.whole
                             /\ f.by # r => g = f
<1> USE Numbers DEF IInv
<1>1. CASE f # Absent /\ f.by = r /\ f.round = rounds[r]
  <2>1. f \in Files /\ f.mtime = clock
        BY <1>1 DEF Numbered
  <2>2. Completed(f, r) = [f EXCEPT !.whole = TRUE, !.mtime = clock]
        BY <1>1 DEF Completed
  <2>3. /\ [f EXCEPT !.whole = TRUE, !.mtime = clock] \in Files
        /\ [f EXCEPT !.whole = TRUE, !.mtime = clock].by = f.by
        /\ [f EXCEPT !.whole = TRUE, !.mtime = clock].round = f.round
        /\ [f EXCEPT !.whole = TRUE, !.mtime = clock].list = f.list
        /\ [f EXCEPT !.whole = TRUE, !.mtime = clock].mtime = clock
        /\ [f EXCEPT !.whole = TRUE, !.mtime = clock].whole
        BY <2>1 DEF Files
  <2>4. QED BY <1>1, <2>1, <2>2, <2>3
<1>2. CASE ~(f # Absent /\ f.by = r /\ f.round = rounds[r])
  <2>1. Completed(f, r) = f
        BY <1>2 DEF Completed
  <2>2. QED BY <1>2, <2>1
<1>3. QED BY <1>1, <1>2

LEMMA WriteStep ==
  ASSUME IInv, NEW r \in ListCalls, NEW ok \in BOOLEAN, Write(r, ok)
  PROVE  IInv'
<1> USE Numbers DEF IInv, Write, Goto, files, ghosts
<1>1. listCall[r] = "write"
      /\ UNCHANGED <<clock, memory, tryWrite, opened, result, rounds, cleared, clashed,
                     resaved>>
      OBVIOUS
<1>2. CASE ~ok
  <2>1. listCall' = [listCall EXCEPT ![r] = "unlink"] /\ UNCHANGED <<cache, partial>>
        BY <1>2
  <2>2. VersionTypeOK' /\ Owned' /\ CacheIsWhole' /\ ListIsFresh'
        BY <1>1, <2>1 DEF VersionTypeOK, CallStates, Owned, CacheIsWhole, ListIsFresh
  <2>3. FilesOK'
        BY <1>1, <2>1 DEF VersionTypeOK, FilesOK, Numbered, Dated, Files
  <2>4. MemoryOK'
        BY <1>1, <2>1 DEF VersionTypeOK, MemoryOK, Mine, Fetched
  <2>5. QED BY <2>2, <2>3, <2>4
<1>3. CASE ok
  <2>1. /\ listCall' = [listCall EXCEPT ![r] = "rename"]
        /\ cache' = Completed(cache, r)
        /\ partial' = [p \in Processes |-> Completed(partial[p], r)]
        BY <1>3
  <2>2. /\ cache' \in Files \cup {Absent}
        /\ cache' = Absent <=> cache = Absent
        /\ cache # Absent => /\ cache'.by = cache.by /\ cache'.round = cache.round
                             /\ cache'.list = cache.list /\ cache'.mtime = cache.mtime
                             /\ cache.whole => cache'.whole
        BY <1>1, <2>1, CompletedFile DEF VersionTypeOK, FilesOK
  <2>3. ASSUME NEW p \in Processes
        PROVE  /\ partial'[p] \in Files \cup {Absent}
               /\ partial'[p] = Absent <=> partial[p] = Absent
               /\ partial[p] # Absent =>
                    /\ partial'[p].by = partial[p].by /\ partial'[p].round = partial[p].round
                    /\ partial'[p].list = partial[p].list
                    /\ partial'[p].mtime = partial[p].mtime
                    /\ partial[p].by = r /\ partial[p].round = rounds[r] => partial'[p].whole
                    /\ partial[p].whole => partial'[p].whole
    <3>1. partial[p] \in Files \cup {Absent} /\ Numbered(partial[p]) /\ Dated(partial[p])
          BY DEF VersionTypeOK, FilesOK
    <3>2. partial'[p] = Completed(partial[p], r)
          BY <2>1
    <3>3. QED BY <1>1, <3>1, <3>2, CompletedFile
  <2>4. VersionTypeOK'
        BY <1>1, <2>1, <2>2, <2>3 DEF VersionTypeOK, CallStates
  <2>5. Owned'
        BY <1>1, <2>1, <2>3 DEF VersionTypeOK, Owned
  <2>6. CacheIsWhole' /\ ListIsFresh'
        BY <1>1, <2>2 DEF CacheIsWhole, ListIsFresh
  <2>7. Numbered(cache)' /\ Dated(cache)'
        BY <1>1, <2>1, <2>2 DEF VersionTypeOK, FilesOK, Numbered, Dated, Files
  <2>8. ASSUME NEW p \in Processes
        PROVE  Numbered(partial[p])' /\ Dated(partial[p])'
    <3>1. partial[p] \in Files \cup {Absent} /\ Numbered(partial[p]) /\ Dated(partial[p])
          BY DEF VersionTypeOK, FilesOK
    <3>2. QED BY <1>1, <2>1, <2>3, <3>1 DEF VersionTypeOK, Numbered, Dated, Files
  <2>9. FilesOK'
        BY <1>1, <2>1, <2>7, <2>8 DEF VersionTypeOK, FilesOK, Dated
  <2>10. MemoryOK'
        BY <1>1, <2>1 DEF VersionTypeOK, MemoryOK, Mine, Fetched
  <2>11. QED BY <2>4, <2>5, <2>6, <2>9, <2>10
<1>4. QED BY <1>2, <1>3

LEMMA RenameSteps ==
  ASSUME IInv, NEW r \in ListCalls, Rename(r) \/ Unlink(r)
  PROVE  IInv'
<1> USE Numbers DEF IInv, Goto, PartialFile
<1>1. CASE Rename(r) /\ partial[Process[r]] = Absent
  <2>1. /\ listCall[r] = "rename" /\ listCall' = [listCall EXCEPT ![r] = "unlink"]
        /\ UNCHANGED <<clock, memory, cache, partial, tryWrite, opened, result, rounds,
                       cleared, clashed, resaved>>
        BY <1>1 DEF Rename, files, ghosts
  <2>2. VersionTypeOK' /\ Owned' /\ CacheIsWhole' /\ ListIsFresh'
        BY <2>1 DEF VersionTypeOK, CallStates, Owned, CacheIsWhole, ListIsFresh
  <2>3. FilesOK'
        BY <2>1 DEF VersionTypeOK, FilesOK, Numbered, Dated, Files
  <2>4. MemoryOK'
        BY <2>1 DEF VersionTypeOK, MemoryOK, Mine, Fetched
  <2>5. QED BY <2>2, <2>3, <2>4
<1>2. CASE Rename(r) /\ partial[Process[r]] # Absent
  <2>1. /\ listCall[r] = "rename" /\ listCall' = [listCall EXCEPT ![r] = "return"]
        /\ cache' = partial[Process[r]]
        /\ partial' = [partial EXCEPT ![Process[r]] = Absent]
        /\ UNCHANGED <<clock, memory, tryWrite, opened, result, rounds, cleared, clashed,
                       resaved>>
        BY <1>2 DEF Rename, ghosts
  <2>2. VersionTypeOK' /\ ListIsFresh'
        BY <2>1 DEF VersionTypeOK, CallStates, ListIsFresh
  <2>3. CacheIsWhole'
        BY <2>1 DEF Owned, CacheIsWhole
  <2>4. Owned'
        BY <2>1 DEF VersionTypeOK, Owned
  <2>5. \A f \in Files \cup {Absent} : Numbered(f) => Numbered(f)'
        BY <2>1 DEF VersionTypeOK, Numbered, Files
  <2>6. FilesOK'
        BY <2>1, <2>5 DEF VersionTypeOK, FilesOK, Numbered, Dated
  <2>7. MemoryOK'
        BY <2>1 DEF VersionTypeOK, MemoryOK, Mine, Fetched
  <2>8. QED BY <2>2, <2>3, <2>4, <2>6, <2>7
<1>3. CASE Unlink(r)
  <2> DEFINE f == partial[Process[r]]
  <2>1. /\ listCall[r] = "unlink" /\ listCall' = [listCall EXCEPT ![r] = "return"]
        /\ partial' = [partial EXCEPT ![Process[r]] = Absent]
        /\ clashed' = (clashed \/ (f # Absent /\ f.by # r /\ Process[f.by] = Process[r]))
        /\ UNCHANGED <<clock, memory, cache, tryWrite, opened, result, rounds, cleared,
                       resaved>>
        BY <1>3 DEF Unlink
  <2>2. clashed' \in BOOLEAN /\ (clashed => clashed')
        BY <2>1 DEF VersionTypeOK
  <2>3. VersionTypeOK' /\ ListIsFresh' /\ CacheIsWhole'
        BY <2>1, <2>2 DEF VersionTypeOK, CallStates, ListIsFresh, CacheIsWhole
  <2>4. ASSUME ~clashed', NEW s \in ListCalls, listCall'[s] \in {"write", "rename"}
        PROVE  /\ partial'[Process[s]] = partial[Process[s]]
               /\ listCall'[s] = listCall[s] /\ ~clashed
    <3>1. s # r /\ listCall'[s] = listCall[s] /\ ~clashed
          BY <2>1, <2>2, <2>4 DEF VersionTypeOK
    <3>2. partial[Process[s]] # Absent /\ partial[Process[s]].by = s
          BY <2>4, <3>1 DEF Owned
    <3>3. Process[s] # Process[r]
          BY <2>1, <2>4, <3>1, <3>2
    <3>4. QED BY <2>1, <3>1, <3>3 DEF VersionTypeOK
  <2>5. Owned'
        BY <2>1, <2>4 DEF Owned
  <2>6. \A g \in Files \cup {Absent} : Numbered(g) => Numbered(g)'
        BY <2>1 DEF VersionTypeOK, Numbered, Files
  <2>7. FilesOK'
        BY <2>1, <2>6 DEF VersionTypeOK, FilesOK, Numbered, Dated
  <2>8. MemoryOK'
        BY <2>1 DEF VersionTypeOK, MemoryOK, Mine, Fetched
  <2>9. QED BY <2>3, <2>5, <2>7, <2>8
<1>4. QED BY <1>1, <1>2, <1>3

-----------------------------------------------------------------------------
LEMMA OtherSteps ==
  ASSUME IInv, Tick \/ (\E p \in Clearers : ClearCache(p)) \/ UNCHANGED versionVars
  PROVE  IInv'
<1> USE Numbers DEF IInv
<1>1. CASE Tick
  <2> USE <1>1 DEF Tick, files, ghosts
  <2>1. VersionTypeOK' /\ Owned' /\ CacheIsWhole' /\ ListIsFresh'
        BY DEF VersionTypeOK, Owned, CacheIsWhole, ListIsFresh
  <2>2. FilesOK'
        BY DEF VersionTypeOK, FilesOK, Numbered, Dated, Files
  <2>3. MemoryOK'
        BY DEF VersionTypeOK, MemoryOK, Mine, Fetched
  <2>4. QED BY <2>1, <2>2, <2>3
<1>2. ASSUME NEW p \in Clearers, ClearCache(p)
      PROVE  IInv'
  <2> USE <1>2 DEF ClearCache
  <2>1. p \in Processes
        BY VersionAssumption DEF Processes
  <2>2. VersionTypeOK' /\ ListIsFresh'
        BY <2>1 DEF VersionTypeOK, ListIsFresh
  <2>3. Owned' /\ CacheIsWhole'
        BY DEF Owned, CacheIsWhole
  <2>4. FilesOK'
        BY DEF FilesOK, Numbered, Dated
  <2>5. MemoryOK'
        BY <2>1 DEF VersionTypeOK, MemoryOK, Mine, Fetched
  <2>6. QED BY <2>2, <2>3, <2>4, <2>5
<1>3. CASE UNCHANGED versionVars
      BY <1>3 DEF versionVars, files, ghosts, VersionTypeOK, Owned, CacheIsWhole, FilesOK,
         Numbered, Dated, MemoryOK, Mine, ListIsFresh
<1>4. QED BY <1>1, <1>2, <1>3

LEMMA IInvNext == IInv /\ [VersionNext]_versionVars => IInv'
<1> SUFFICES ASSUME IInv, [VersionNext]_versionVars
             PROVE  IInv'
    OBVIOUS
<1>1. ASSUME NEW r \in ListCalls,
             \/ GetFullJSON(r) \/ Open(r) \/ Read(r) \/ Check(r) \/ Create(r) \/ Rename(r)
             \/ Unlink(r) \/ Finish(r)
             \/ \E ok \in BOOLEAN : FetchList(r, ok) \/ Write(r, ok)
      PROVE  IInv'
      BY <1>1, CallSteps, ReadSteps, CreateStep, WriteStep, RenameSteps
<1>2. CASE Tick \/ (\E p \in Clearers : ClearCache(p)) \/ UNCHANGED versionVars
      BY <1>2, OtherSteps
<1>3. QED BY <1>1, <1>2 DEF VersionNext

LEMMA Invariant == VersionSpec => []IInv
BY InitOK, IInvNext, PTL DEF VersionSpec

-----------------------------------------------------------------------------
(* The types of VersionList (version-list.ts), for any calls and processes.  *)
THEOREM TypeCorrect == VersionSpec => []VersionTypeOK
<1>1. IInv => VersionTypeOK
      BY DEF IInv
<1>2. QED BY <1>1, Invariant, PTL

(* Whatever calls and processes save the list at once, the file that         *)
(* getFullJSON renames to the name of the cache is whole, as long as no call *)
(* removed the temporary file of another of its process.                     *)
THEOREM WholeCache == VersionSpec => []CacheIsWhole
<1>1. IInv => CacheIsWhole
      BY DEF IInv
<1>2. QED BY <1>1, Invariant, PTL

(* A list that getFullJSON returned is there, and at most twice the cache    *)
(* time old, as long as none was saved that its call had not just fetched.   *)
THEOREM FreshList == VersionSpec => []ListIsFresh
<1>1. IInv => ListIsFresh
      BY DEF IInv
<1>2. QED BY <1>1, Invariant, PTL

(* The list that getFullJSON passes from one process to another is whole,    *)
(* and recent.                                                               *)
THEOREM CacheSound == VersionSpec => []CacheIsSound
<1>1. CacheIsWhole /\ ListIsFresh => CacheIsSound
      BY DEF CacheIsSound
<1>2. QED BY <1>1, WholeCache, FreshList, PTL

-----------------------------------------------------------------------------
(* PackageBump.  A run that was killed leaves packages with new versions    *)
(* whose dependents were not written.  The next run finds the same commits, *)
(* so it increases those packages once more (Cause, Again) and comes to     *)
(* their dependents by that.                                                *)

LEMMA LargestIs ==
  ASSUME NEW incs \in SUBSET Increments
  PROVE  /\ incs = {} => Largest(incs) = "none"
         /\ incs # {} => Largest(incs) \in incs
         /\ Largest(incs) \in Increments \cup {"none"}
         /\ \A j \in incs : Rank(Largest(incs)) >= Rank(j)
<1>1. CASE incs = {}
      BY <1>1 DEF Largest
<1>2. CASE incs # {}
  <2>1. /\ Rank("major") = 3 /\ Rank("minor") = 2 /\ Rank("patch") = 1
        BY DEF Rank
  <2>2. \E i \in incs : \A j \in incs : Rank(i) >= Rank(j)
    <3>1. CASE "major" \in incs
          BY <2>1, <3>1 DEF Increments
    <3>2. CASE "major" \notin incs /\ "minor" \in incs
          BY <2>1, <3>2 DEF Increments
    <3>3. CASE "major" \notin incs /\ "minor" \notin incs
      <4>1. \A j \in incs : j = "patch"
            BY <3>3 DEF Increments
      <4>2. PICK i \in incs : TRUE
            BY <1>2
      <4>3. \A j \in incs : Rank(i) >= Rank(j)
            BY <2>1, <4>1
      <4>4. QED BY <4>3
    <3>4. QED BY <3>1, <3>2, <3>3
  <2>3. QED BY <1>2, <2>2 DEF Largest
<1>3. QED BY <1>1, <1>2

LEMMA IncreasedByIs ==
  ASSUME NEW v \in Versions
  PROVE  /\ v = [major |-> v.major, minor |-> v.minor, patch |-> v.patch]
         /\ v.major \in Nat /\ v.minor \in Nat /\ v.patch \in Nat
         /\ IncreasedBy(v, "none") = v
         /\ IncreasedBy(v, "major") = [major |-> v.major + 1, minor |-> 0, patch |-> 0]
         /\ IncreasedBy(v, "minor") =
              [major |-> v.major, minor |-> v.minor + 1, patch |-> 0]
         /\ IncreasedBy(v, "patch") =
              [major |-> v.major, minor |-> v.minor, patch |-> v.patch + 1]
<1>1. /\ IncreasedBy(v, "none") = v
      /\ IncreasedBy(v, "major") = [major |-> v.major + 1, minor |-> 0, patch |-> 0]
      /\ IncreasedBy(v, "minor") = [v EXCEPT !.minor = @ + 1, !.patch = 0]
      /\ IncreasedBy(v, "patch") = [v EXCEPT !.patch = @ + 1]
      BY DEF IncreasedBy
<1>2. QED BY <1>1 DEF Versions

LEMMA IncreasedIs ==
  ASSUME NEW v \in Versions
  PROVE  /\ IncreasedBy(v, "none") = v
         /\ ~Above(v, v)
         /\ \A i \in Increments : /\ IncreasedBy(v, i) \in Versions
                                  /\ Above(IncreasedBy(v, i), v)
                                  /\ DiffOf(IncreasedBy(v, i), v) = i
<1>1. IncreasedBy(v, "none") = v /\ ~Above(v, v)
      BY IncreasedByIs DEF Above
<1>2. ASSUME NEW i \in Increments
      PROVE  /\ IncreasedBy(v, i) \in Versions
             /\ Above(IncreasedBy(v, i), v)
             /\ DiffOf(IncreasedBy(v, i), v) = i
  <2>1. CASE i = "major"
        BY <2>1, IncreasedByIs DEF Versions, Above, DiffOf
  <2>2. CASE i = "minor"
        BY <2>2, IncreasedByIs DEF Versions, Above, DiffOf
  <2>3. CASE i = "patch"
        BY <2>3, IncreasedByIs DEF Versions, Above, DiffOf
  <2>4. QED BY <2>1, <2>2, <2>3 DEF Increments
<1>3. QED BY <1>1, <1>2

LEMMA AboveTransitive ==
  ASSUME NEW u \in Versions, NEW v \in Versions, NEW w \in Versions,
         Above(u, v), Above(v, w)
  PROVE  Above(u, w)
  BY DEF Above, Versions

(* What processPackage makes of the increments of the dependencies and of  *)
(* the commits.                                                            *)
IncOf(p) == IF Rank(commits[p]) > Rank(Largest(FromDeps(p))) THEN commits[p]
            ELSE Largest(FromDeps(p))

LEMMA LargerWins ==
  ASSUME NEW v \in Versions, NEW i \in Increments \cup {"none"},
         NEW j \in Increments \cup {"none"}
  PROVE  Above(IncreasedBy(v, i), IncreasedBy(v, j)) <=> Rank(i) > Rank(j)
<1>1. /\ Rank("major") = 3 /\ Rank("minor") = 2 /\ Rank("patch") = 1
      /\ Rank("none") = 0
      BY DEF Rank
<1>2. \A w \in Versions : ~Above(w, w)
      BY DEF Above, Versions
<1>3. CASE i = j
  <2>1. IncreasedBy(v, i) \in Versions
        BY IncreasedIs
  <2>2. QED BY <1>1, <1>2, <1>3, <2>1 DEF Increments
<1>4. CASE i = "none" /\ j # "none"
      BY <1>1, <1>4, IncreasedByIs DEF Increments, Above
<1>5. CASE i = "patch" /\ j # "patch"
      BY <1>1, <1>5, IncreasedByIs DEF Increments, Above
<1>6. CASE i = "minor" /\ j # "minor"
      BY <1>1, <1>6, IncreasedByIs DEF Increments, Above
<1>7. CASE i = "major" /\ j # "major"
      BY <1>1, <1>7, IncreasedByIs DEF Increments, Above
<1>8. QED BY <1>3, <1>4, <1>5, <1>6, <1>7 DEF Increments

LEMMA FromDepsType ==
  ASSUME BumpTypeOK, NEW p \in Packages
  PROVE  FromDeps(p) \in SUBSET Increments
<1>1. "patch" \in Increments
      BY DEF Increments
<1>2. \A d \in DepsOf(p) : d.to \in Packages
      BY BumpAssumption DEF DepsOf
<1>3. QED
      BY <1>1, <1>2 DEF FromDeps, BumpTypeOK

LEMMA NewVersionIs ==
  ASSUME BumpTypeOK, NEW p \in Packages
  PROVE  /\ IncOf(p) \in Increments \cup {"none"}
         /\ p \notin Skipped => NewVersion(p) = IncreasedBy(version[p], IncOf(p))
         /\ NewVersion(p) \in Versions
<1>1. Largest(FromDeps(p)) \in Increments \cup {"none"}
      BY FromDepsType, LargestIs
<1>2. commits[p] \in Increments \cup {"none"} /\ version[p] \in Versions
      BY DEF BumpTypeOK
<1>3. IncOf(p) \in Increments \cup {"none"}
      BY <1>1, <1>2 DEF IncOf
<1>4. p \notin Skipped => NewVersion(p) = IncreasedBy(version[p], IncOf(p))
      BY <1>1, <1>2, LargerWins DEF NewVersion, IncOf
<1>5. NewVersion(p) \in Versions
      BY <1>2, <1>3, <1>4, IncreasedIs DEF NewVersion
<1>6. QED BY <1>3, <1>4, <1>5

InRun == bumpRun \in {"running", "done"}
Settling == done \cup ({writing} \ {NoPackage})

(* Versions grow, and only for commits or for a dependency that has grown. *)
Grown == \A p \in Packages : version[p] = First \/ Above(version[p], First)

Cause ==
  \A p \in Packages :
    version[p] # First =>
      /\ p \notin Skipped
      /\ commits[p] # "none" \/ \E d \in DepsOf(p) : version[d.to] # First

(* A range names the first version until the dependency has another one.   *)
Old == \A d \in Deps : range[d].version = First \/ version[d.to] # First

Writes ==
  /\ writing # NoPackage => bumpRun = "running" /\ writing \notin done
  /\ bumpRun = "done" => done = Packages
  /\ InRun => \A p \in Settling : \A d \in DepsOf(p) : d.to \in done

(* What holds of the packages that a run came to.                          *)
Again ==
  InRun =>
    /\ \A p \in Settling :
         /\ bumped[p] = IF p \in Skipped THEN "none" ELSE IncOf(p)
         /\ version[p] # First => bumped[p] # "none"
    /\ \A p \in done : bumped[p] # "none" => version[p] # First
    /\ \A p \in done : \A d \in DepsOf(p) :
         range[d].op = "*" \/ range[d].version = version[d.to]

BumpInv == BumpTypeOK /\ Grown /\ Cause /\ Old /\ Writes /\ Again

LEMMA BumpInvInit == BumpInit => BumpInv
  BY BumpAssumption
  DEF BumpInit, BumpInv, BumpTypeOK, Grown, Cause, Old, Writes, Again, InRun

(* The increment of a package is that of its dependencies at the time.     *)
LEMMA SameDeps ==
  ASSUME NEW p \in Packages, \A d \in DepsOf(p) : bumped'[d.to] = bumped[d.to],
         commits' = commits
  PROVE  FromDeps(p)' = FromDeps(p) /\ IncOf(p)' = IncOf(p)
<1>1. FromDeps(p)' = FromDeps(p)
      BY DEF FromDeps
<1>2. QED BY <1>1 DEF IncOf

LEMMA BumpProcess ==
  ASSUME BumpInv, NEW p \in Packages, ProcessPackage(p)
  PROVE  BumpInv'
<1> USE BumpAssumption DEF BumpInv
<1>1. /\ bumpRun = "running" /\ writing = NoPackage /\ p \notin done
      /\ \A d \in DepsOf(p) : d.to \in done
      /\ writing' = p
      /\ UNCHANGED <<commits, version, range, torn, done, bumpRun, bumpRuns>>
      BY DEF ProcessPackage, InOrder
<1>2. bumped' = [bumped EXCEPT ![p] = IF p \in Skipped THEN "none" ELSE IncOf(p)]
  <2>1. version[p] \in Versions /\ IncOf(p) \in Increments \cup {"none"}
        BY NewVersionIs DEF BumpTypeOK
  <2>2. CASE p \in Skipped
        BY <2>1, <2>2, IncreasedIs DEF ProcessPackage, NewVersion
  <2>3. CASE p \notin Skipped /\ IncOf(p) = "none"
        BY <2>1, <2>3, IncreasedIs, NewVersionIs DEF ProcessPackage
  <2>4. CASE p \notin Skipped /\ IncOf(p) \in Increments
        BY <2>1, <2>4, IncreasedIs, NewVersionIs DEF ProcessPackage
  <2>5. QED BY <2>1, <2>2, <2>3, <2>4
<1>3. BumpTypeOK'
      BY <1>1, <1>2, NewVersionIs DEF BumpTypeOK
<1>4. Grown' /\ Cause' /\ Old' /\ Writes'
      BY <1>1 DEF Grown, Cause, Old, Writes, InRun, Settling, DepsOf
<1>5. \A q \in Packages : q # p => bumped'[q] = bumped[q]
      BY <1>2 DEF BumpTypeOK
<1>6. \A q \in done \cup {p} : FromDeps(q)' = FromDeps(q) /\ IncOf(q)' = IncOf(q)
  <2>1. \A q \in done \cup {p} : \A d \in DepsOf(q) : d.to \in done /\ d.to \in Packages
        BY <1>1 DEF Writes, InRun, Settling, DepsOf
  <2>2. done \cup {p} \subseteq Packages
        BY DEF BumpTypeOK
  <2>3. QED BY <1>1, <1>5, <2>1, <2>2, SameDeps
<1>7. version[p] # First => bumped'[p] # "none"
  <2> SUFFICES ASSUME version[p] # First
               PROVE  IncOf(p) # "none" /\ p \notin Skipped
      BY <1>2 DEF BumpTypeOK
  <2>1. FromDeps(p) \in SUBSET Increments /\ commits[p] \in Increments \cup {"none"}
        BY FromDepsType DEF BumpTypeOK
  <2>2. CASE commits[p] # "none"
    <3>1. Rank("none") = 0 /\ \A i \in Increments : Rank(i) > 0
          BY DEF Rank, Increments
    <3>2. QED BY <2>1, <2>2, <3>1, LargestIs DEF IncOf, Cause
  <2>3. ASSUME NEW d \in DepsOf(p), version[d.to] # First
        PROVE  IncOf(p) # "none"
    <3>1. bumped[d.to] # "none"
          BY <1>1, <2>3 DEF Again, InRun, Settling
    <3>2. FromDeps(p) # {}
          BY <3>1 DEF FromDeps
    <3>3. Largest(FromDeps(p)) \in Increments /\ "none" \notin Increments
          BY <2>1, <3>2, LargestIs DEF Increments
    <3>4. CASE IncOf(p) = commits[p] /\ Rank(commits[p]) > Rank(Largest(FromDeps(p)))
      <4>1. Rank("none") = 0 /\ \A i \in Increments : Rank(i) \in 1 .. 3
            BY DEF Rank, Increments
      <4>2. Rank(Largest(FromDeps(p))) \in 1 .. 3
            BY <3>3, <4>1
      <4>3. commits[p] # "none"
            BY <3>4, <4>1, <4>2
      <4>4. QED BY <3>4, <4>3
    <3>5. QED BY <3>3, <3>4 DEF IncOf
  <2>4. QED BY <2>2, <2>3 DEF Cause
<1>8. Again'
  <2>1. \A q \in done : q \in Packages /\ q # p
        BY <1>1 DEF BumpTypeOK
  <2>2. Settling' = done \cup {p} /\ done \subseteq Settling /\ InRun
        BY <1>1 DEF Settling, InRun
  <2>3. bumped'[p] = IF p \in Skipped THEN "none" ELSE IncOf(p)
        BY <1>2 DEF BumpTypeOK
  <2>4. QED
        BY <1>1, <1>5, <1>6, <1>7, <2>1, <2>2, <2>3 DEF Again
<1>9. QED BY <1>3, <1>4, <1>8

LEMMA BumpWrite ==
  ASSUME BumpInv, PackageWritten
  PROVE  BumpInv'
<1> USE BumpAssumption DEF BumpInv
<1> DEFINE p == writing
<1>1. /\ p \in Packages /\ p # NoPackage /\ p \notin done /\ bumpRun = "running"
      /\ \A d \in DepsOf(p) : d.to \in done /\ d.to \in Packages
      BY DEF PackageWritten, BumpTypeOK, Writes, InRun, Settling, DepsOf
<1>2. /\ version' = [version EXCEPT ![p] = NewVersion(p)]
      /\ range' = [d \in Deps |-> IF d.from = p THEN NewRange(d) ELSE range[d]]
      /\ done' = done \cup {p} /\ writing' = NoPackage
      /\ UNCHANGED <<commits, torn, bumped, bumpRun, bumpRuns>>
      BY DEF PackageWritten
<1>3. /\ bumped[p] = IF p \in Skipped THEN "none" ELSE IncOf(p)
      /\ version[p] # First => bumped[p] # "none"
      BY <1>1 DEF Again, InRun, Settling
<1>4. /\ NewVersion(p) \in Versions
      /\ IF bumped[p] = "none" THEN NewVersion(p) = version[p]
         ELSE Above(NewVersion(p), version[p])
  <2>1. version[p] \in Versions /\ IncOf(p) \in Increments \cup {"none"}
        BY <1>1, NewVersionIs DEF BumpTypeOK
  <2>2. CASE p \in Skipped
        BY <1>3, <2>1, <2>2 DEF NewVersion
  <2>3. CASE p \notin Skipped
        BY <1>1, <1>3, <2>1, <2>3, NewVersionIs, IncreasedIs
  <2>4. QED BY <2>2, <2>3
<1>5. /\ version' \in [Packages -> Versions] /\ version'[p] = NewVersion(p)
      /\ \A q \in Packages : q # p => version'[q] = version[q]
      BY <1>1, <1>2, <1>4 DEF BumpTypeOK
<1>6. Grown'
  <2>1. version[p] \in Versions /\ First \in Versions
        BY <1>1 DEF BumpTypeOK
  <2>2. NewVersion(p) = First \/ Above(NewVersion(p), First)
        BY <1>1, <1>4, <2>1, AboveTransitive DEF Grown
  <2>3. QED BY <1>5, <2>2 DEF Grown
<1>7. bumped[p] # "none" => version'[p] # First
  <2>1. version[p] \in Versions /\ First \in Versions
        BY <1>1 DEF BumpTypeOK
  <2>2. bumped[p] # "none" => Above(NewVersion(p), First)
        BY <1>1, <1>4, <2>1, AboveTransitive DEF Grown
  <2>3. ~Above(First, First)
        BY <2>1, IncreasedIs
  <2>4. QED BY <1>5, <2>2, <2>3
<1>8. version'[p] # First => bumped[p] # "none"
      BY <1>3, <1>4, <1>5
<1>9. Cause'
  <2>1. ASSUME NEW q \in Packages, version'[q] # First, q # p
        PROVE  /\ q \notin Skipped
               /\ commits[q] # "none" \/ \E d \in DepsOf(q) : version'[d.to] # First
    <3>1. version[q] # First
          BY <1>5, <2>1
    <3>2. \A d \in DepsOf(q) : d.to \in Packages /\ (version[d.to] # First => version'[d.to] # First)
      <4>1. version[p] # First => version'[p] # First
            BY <1>3, <1>7
      <4>2. QED BY <1>5, <4>1 DEF DepsOf
    <3>3. QED BY <3>1, <3>2 DEF Cause
  <2>2. ASSUME version'[p] # First, commits[p] = "none"
        PROVE  \E d \in DepsOf(p) : version'[d.to] # First
    <3>1. IncOf(p) # "none" /\ IncOf(p) = bumped[p]
          BY <1>3, <1>8, <2>2
    <3>2. FromDeps(p) # {}
          BY <1>1, <2>2, <3>1, FromDepsType, LargestIs DEF IncOf
    <3>3. PICK d \in DepsOf(p) : bumped[d.to] # "none"
          BY <3>2 DEF FromDeps
    <3>4. version[d.to] # First /\ d.to # p
          BY <1>1, <3>3 DEF Again, InRun
    <3>5. QED BY <1>1, <1>5, <3>4
  <2>3. version'[p] # First => p \notin Skipped
        BY <1>3, <1>8
  <2>4. QED BY <1>2, <2>1, <2>2, <2>3 DEF Cause, DepsOf
<1>10. \A d \in DepsOf(p) :
         /\ version'[d.to] = version[d.to]
         /\ bumped[d.to] # "none" <=> version[d.to] # First
       BY <1>1, <1>5 DEF Again, InRun, Settling
<1>11. \A d \in Deps :
         range'[d] = IF d.from = p THEN NewRange(d) ELSE range[d]
       BY <1>2
<1>12. \A d \in DepsOf(p) :
         /\ range'[d] \in [op : Operators, version : Versions]
         /\ range'[d].op = "*" \/ range'[d].version = version[d.to]
         /\ range'[d].version = First \/ version[d.to] # First
  <2> SUFFICES ASSUME NEW d \in DepsOf(p)
               PROVE  /\ range'[d] \in [op : Operators, version : Versions]
                      /\ range'[d].op = "*" \/ range'[d].version = version[d.to]
                      /\ range'[d].version = First \/ version[d.to] # First
      OBVIOUS
  <2>1. d \in Deps /\ range'[d] = NewRange(d) /\ d.to \in Packages
        BY <1>1, <1>11 DEF DepsOf
  <2>2. range[d] \in [op : Operators, version : Versions] /\ version[d.to] \in Versions
        BY <2>1 DEF BumpTypeOK
  <2>3. CASE bumped[d.to] = "none"
        BY <1>10, <2>1, <2>2, <2>3 DEF NewRange, Old
  <2>4. CASE bumped[d.to] # "none"
        BY <1>10, <2>1, <2>2, <2>4 DEF NewRange, NewOperator, Operators
  <2>5. QED BY <2>3, <2>4
<1>13. BumpTypeOK'
  <2>1. range' \in [Deps -> [op : Operators, version : Versions]]
        BY <1>2, <1>12 DEF BumpTypeOK, DepsOf
  <2>2. QED BY <1>1, <1>2, <1>5, <2>1 DEF BumpTypeOK
<1>14. Old'
  <2>1. ASSUME NEW d \in Deps, d.from # p
        PROVE  range'[d].version = First \/ version'[d.to] # First
    <3>1. d.to \in Packages /\ range'[d] = range[d]
          BY <1>11, <2>1
    <3>2. version[d.to] # First => version'[d.to] # First
          BY <1>3, <1>5, <1>7, <3>1
    <3>3. QED BY <3>1, <3>2 DEF Old
  <2>2. \A d \in Deps : d.from = p => d \in DepsOf(p)
        BY DEF DepsOf
  <2>3. QED BY <1>10, <1>12, <2>1, <2>2 DEF Old
<1>15. Writes'
       BY <1>1, <1>2 DEF Writes, InRun, Settling, DepsOf
<1>16. Again'
  <2>1. Settling' = Settling /\ Settling = done \cup {p} /\ InRun /\ InRun'
        BY <1>1, <1>2 DEF Settling, InRun
  <2>2. done \subseteq Packages
        BY DEF BumpTypeOK
  <2>3. \A q \in Packages : IncOf(q)' = IncOf(q)
        BY <1>2, SameDeps
  <2>4. \A q \in done : version'[q] = version[q] /\ q # p
        BY <1>1, <1>5, <2>2
  <2>5. ASSUME NEW q \in done, NEW d \in DepsOf(q)
        PROVE  range'[d].op = "*" \/ range'[d].version = version'[d.to]
    <3>1. d \in Deps /\ d.from # p /\ d.to \in done
          BY <1>1, <2>1 DEF DepsOf, Writes
    <3>2. range'[d] = range[d] /\ version'[d.to] = version[d.to]
          BY <1>11, <2>4, <3>1
    <3>3. QED BY <2>1, <2>5, <3>2 DEF Again
  <2>6. \A q \in Settling :
          /\ bumped[q] = IF q \in Skipped THEN "none" ELSE IncOf(q)
          /\ version'[q] # First => bumped[q] # "none"
        BY <1>8, <2>1, <2>4 DEF Again
  <2>7. \A q \in done \cup {p} : bumped[q] # "none" => version'[q] # First
        BY <1>7, <2>1, <2>4 DEF Again
  <2>8. \A q \in done \cup {p} : \A d \in DepsOf(q) :
          range'[d].op = "*" \/ range'[d].version = version'[d.to]
        BY <1>10, <1>12, <2>5
  <2>9. QED
        BY <1>1, <1>2, <2>1, <2>2, <2>3, <2>6, <2>7, <2>8 DEF Again, DepsOf
<1>17. QED BY <1>6, <1>9, <1>13, <1>14, <1>15, <1>16

LEMMA BumpInvNext == BumpInv /\ [BumpNext]_bumpVars => BumpInv'
<1> SUFFICES ASSUME BumpInv, [BumpNext]_bumpVars
             PROVE  BumpInv'
    OBVIOUS
<1> USE BumpAssumption DEF BumpInv
<1>1. CASE StartBump
  <2>1. BumpTypeOK'
        BY <1>1 DEF StartBump, BumpTypeOK
  <2>2. Writes' /\ Settling' = {} /\ done' = {}
        BY <1>1 DEF StartBump, Writes, Settling, InRun
  <2>3. Grown' /\ Cause' /\ Old' /\ Again'
        BY <1>1, <2>2 DEF StartBump, Grown, Cause, Old, Again, DepsOf
  <2>4. QED BY <2>1, <2>2, <2>3
<1>2. CASE PackageWritten
      BY <1>2, BumpWrite
<1>3. CASE AllProcessed
  <2>1. BumpTypeOK' /\ Grown' /\ Cause' /\ Old' /\ Writes'
        BY <1>3
        DEF AllProcessed, BumpTypeOK, Grown, Cause, Old, Writes, InRun, Settling, DepsOf
  <2>2. \A p \in Packages : IncOf(p)' = IncOf(p)
        BY <1>3, SameDeps DEF AllProcessed
  <2>3. Settling' \subseteq Settling /\ InRun /\ Settling \subseteq Packages
        BY <1>3 DEF AllProcessed, Settling, InRun, BumpTypeOK
  <2>4. Again'
        BY <1>3, <2>2, <2>3 DEF AllProcessed, Again, DepsOf
  <2>5. QED BY <2>1, <2>4
<1>4. CASE KillBump
      BY <1>4
      DEF KillBump, BumpTypeOK, Grown, Cause, Old, Writes, Again, InRun, Settling, DepsOf
<1>5. ASSUME NEW p \in Packages, ProcessPackage(p)
      PROVE  BumpInv'
      BY <1>5, BumpProcess
<1>6. CASE UNCHANGED bumpVars
  <2>1. UNCHANGED bumpVars
        BY <1>6
  <2>2. BumpTypeOK' /\ Grown' /\ Cause' /\ Old' /\ Writes'
        BY <2>1
        DEF bumpVars, BumpTypeOK, Grown, Cause, Old, Writes, InRun, Settling, DepsOf
  <2>3. \A p \in Packages : IncOf(p)' = IncOf(p)
        BY <2>1, SameDeps DEF bumpVars
  <2>4. Settling' = Settling /\ Settling \subseteq Packages /\ InRun' = InRun
        BY <2>1 DEF bumpVars, Settling, InRun, BumpTypeOK
  <2>5. Again'
        BY <2>1, <2>3, <2>4 DEF bumpVars, Again, DepsOf
  <2>6. QED BY <2>2, <2>5
<1>7. QED
      BY <1>1, <1>2, <1>3, <1>4, <1>5, <1>6 DEF BumpNext

LEMMA BumpsFollow == BumpInv => BumpsFollowDependencies
<1> SUFFICES ASSUME BumpInv, bumpRun = "done"
             PROVE  /\ \A d \in Deps :
                         range[d].op = "*" \/ range[d].version = version[d.to]
                    /\ \A p \in Packages \ Skipped :
                         Rank(bumped[p]) >=
                           Rank(Largest(FromDeps(p) \cup ({commits[p]} \ {"none"})))
    BY DEF BumpsFollowDependencies
<1> USE BumpAssumption DEF BumpInv
<1>1. InRun /\ done = Packages /\ Packages \subseteq Settling
      BY DEF InRun, Writes, Settling
<1>2. ASSUME NEW d \in Deps
      PROVE  range[d].op = "*" \/ range[d].version = version[d.to]
  <2>1. d.from \in done /\ d \in DepsOf(d.from)
        BY <1>1 DEF DepsOf
  <2>2. QED BY <1>1, <2>1 DEF Again
<1>3. ASSUME NEW p \in Packages \ Skipped
      PROVE  Rank(bumped[p]) >=
               Rank(Largest(FromDeps(p) \cup ({commits[p]} \ {"none"})))
  <2> DEFINE all == FromDeps(p) \cup ({commits[p]} \ {"none"})
  <2>1. bumped[p] = IncOf(p)
        BY <1>1 DEF Again
  <2>2. FromDeps(p) \in SUBSET Increments /\ commits[p] \in Increments \cup {"none"}
        BY FromDepsType DEF BumpTypeOK
  <2>3. all \in SUBSET Increments
        BY <2>2
  <2>4. Rank("none") = 0 /\ \A i \in Increments : Rank(i) \in 1 .. 3
        BY DEF Rank, Increments
  <2>5. /\ Rank(IncOf(p)) \in 0 .. 3
        /\ Rank(IncOf(p)) >= Rank(commits[p])
        /\ \A i \in FromDeps(p) : Rank(IncOf(p)) >= Rank(i)
    <3>1. /\ Largest(FromDeps(p)) \in Increments \cup {"none"}
          /\ \A i \in FromDeps(p) : Rank(Largest(FromDeps(p))) >= Rank(i)
          BY <2>2, LargestIs
    <3>2. /\ Rank(Largest(FromDeps(p))) \in 0 .. 3 /\ Rank(commits[p]) \in 0 .. 3
          /\ \A i \in FromDeps(p) : Rank(i) \in 0 .. 3
          BY <2>2, <2>4, <3>1
    <3>3. QED BY <3>1, <3>2 DEF IncOf
  <2>6. CASE all = {}
        BY <2>1, <2>3, <2>4, <2>5, <2>6, LargestIs
  <2>7. CASE all # {}
    <3>1. Largest(all) \in all
          BY <2>3, <2>7, LargestIs
    <3>2. QED BY <2>1, <2>5, <3>1
  <2>8. QED BY <2>6, <2>7
<1>4. QED BY <1>2, <1>3

(* After a run that came to its end ranges and increments are in step,     *)
(* whatever runs were killed before it, for any packages, dependencies and *)
(* commits (bump-packages.ts).                                             *)
THEOREM BumpsInStep == BumpSpec => []BumpsFollowDependencies
  BY BumpInvInit, BumpInvNext, BumpsFollow, PTL DEF BumpSpec

-----------------------------------------------------------------------------
(* A set of numbers has a smallest one.                                      *)
LEMMA Smallest ==
  ASSUME NEW S, S \subseteq Nat, S # {}
  PROVE  \E x \in S : \A y \in S : x <= y
<1>1. PICK x \in S : \A y \in S : ~(<<y, x>> \in OpToRel(<, Nat))
      BY NatLessThanWellFounded, WFMin
<1>2. \A y \in S : y < x => <<y, x>> \in OpToRel(<, Nat)
      BY DEF OpToRel
<1>3. ASSUME NEW y \in S PROVE x <= y
  <2>1. x \in Nat /\ y \in Nat /\ ~(y < x)
        BY <1>1, <1>2
  <2> QED
      BY <2>1
<1> QED
    BY <1>3

-----------------------------------------------------------------------------
(* Depalign.  While packages are written, and after a run that was killed,   *)
(* the range that is written is still the highest of those that are left:    *)
(* it is among them, and of the ranges of its height it is the first.        *)

Spots == Members \X DepGroups
Place(n) == n[1] * 4 + GroupOrder[n[2]]
OrderOf(v) == 2 * Min(v.versions) + (IF v.exact THEN 0 ELSE 1)

Ahead(n, m) ==
  \/ OrderOf(RangeAt(m)) < OrderOf(RangeAt(n))
  \/ OrderOf(RangeAt(m)) = OrderOf(RangeAt(n)) /\ Place(n) <= Place(m)
LeadsAll(n, ns) ==
  n \in ns /\ RangeAt(n) \in Ranges /\ \A m \in ns : RangeAt(m) \in Ranges => Ahead(n, m)

Asked == NotIgnored(ignore)
NoneParsed == \A n \in Asked : RangeAt(n) \notin Ranges
MayFix(o, v) ==
  /\ o \in CommandLines
  /\ Intersects(Asked) \/ o.mismatched
  /\ v = NoRange => NoneParsed /\ o.mismatched
  /\ v # NoRange => v \in Ranges /\ \E n \in Asked : LeadsAll(n, Asked) /\ RangeAt(n) = v

DepalignInv ==
  /\ DepalignTypeOK
  /\ phase = "fixing" =>
       MayFix(opts, target) /\ \A n \in Asked : n[1] \in todo \/ RangeAt(n) = target
  /\ killed # NoRange => phase = "idle" /\ MayFix(killed.opts, killed.target)

LEMMA DepalignInvInit == DepalignInit => DepalignInv
  BY DepalignAssumption DEF DepalignInit, DepalignInv, DepalignTypeOK

(* A finite set of numbers has a largest one.                                *)
LEMMA LargestNumber ==
  ASSUME NEW S, S \subseteq Nat, S # {}, IsFiniteSet(S)
  PROVE  \E x \in S : \A y \in S : y <= x
<1> DEFINE above(x) == {y \in S : y > x}
           sizes == {Cardinality(above(x)) : x \in S}
<1>1. ASSUME NEW x \in S PROVE IsFiniteSet(above(x)) /\ Cardinality(above(x)) \in Nat
      BY FS_Subset, FS_CardinalityType
<1>2. PICK x \in S : \A y \in S : Cardinality(above(x)) <= Cardinality(above(y))
  <2>1. sizes \subseteq Nat /\ sizes # {}
        BY <1>1
  <2>2. PICK k \in sizes : \A l \in sizes : k <= l
        BY <2>1, Smallest
  <2> QED
      BY <2>2
<1>3. ASSUME NEW y \in S, y > x PROVE FALSE
  <2>1. above(y) \subseteq above(x)
    <3>1. ASSUME NEW z \in above(y) PROVE z \in S /\ z > x
      <4>1. x \in Nat /\ y \in Nat /\ z \in Nat /\ z \in S /\ z > y
            BY <1>3
      <4> QED
          BY <1>3, <4>1
    <3> QED
        BY <3>1
  <2>2. y \in above(x) /\ y \notin above(y)
        BY <1>3
  <2> HIDE DEF above
  <2>3. Cardinality(above(y)) <= Cardinality(above(x))
        BY <1>1, <2>1, FS_Subset
  <2>4. Cardinality(above(y)) # Cardinality(above(x))
        BY <1>1, <2>1, <2>2, FS_Subset
  <2> QED
      BY <1>1, <1>2, <2>3, <2>4
<1> QED
    BY <1>3

LEMMA RankIsNumber == ASSUME NEW v \in Ranges PROVE OrderOf(v) \in Nat /\ Min(v.versions) \in Nat
<1>1. v.versions \subseteq Nat /\ v.versions # {} /\ v.exact \in BOOLEAN
      BY DepalignAssumption
<1>2. Min(v.versions) \in Nat
      BY <1>1, Smallest DEF Min
<1> QED
    BY <1>2 DEF OrderOf

LEMMA HigherIsRank ==
  ASSUME NEW v \in Ranges, NEW w \in Ranges
  PROVE  Higher(v, w) <=> OrderOf(w) < OrderOf(v)
<1>1. v.exact \in BOOLEAN /\ w.exact \in BOOLEAN
      BY DepalignAssumption
<1> QED
    BY <1>1, RankIsNumber DEF Higher, OrderOf

LEMMA PlaceIsNumber ==
  ASSUME NEW n \in Spots, NEW m \in Spots
  PROVE  /\ Place(n) \in Nat
         /\ Before(n, m) <=> Place(n) < Place(m)
         /\ Place(n) = Place(m) => n = m
<1>1. PICK p \in Members, g \in DepGroups : n = <<p, g>>
      BY DEF Spots
<1>2. PICK q \in Members, h \in DepGroups : m = <<q, h>>
      BY DEF Spots
<1>3. p \in Nat /\ q \in Nat
      BY DepalignAssumption DEF Members
<1>4. g \in DOMAIN GroupOrder /\ h \in DOMAIN GroupOrder
      BY DepalignAssumption
<1>5. /\ GroupOrder[g] \in 1..4 /\ GroupOrder[h] \in 1..4
      /\ GroupOrder[g] = GroupOrder[h] => g = h
      BY <1>4 DEF GroupOrder
<1> HIDE DEF GroupOrder
<1> QED
    BY <1>1, <1>2, <1>3, <1>5 DEF Place, Before

LEMMA SpotsAreFinite == IsFiniteSet(Spots)
<1>1. IsFiniteSet(Members)
      BY DepalignAssumption, FS_Interval DEF Members
<1>2. IsFiniteSet(DOMAIN GroupOrder)
  <2> DEFINE two == {"dependencies"} \cup {"devDependencies"}
             three == two \cup {"peerDependencies"}
  <2>1. DOMAIN GroupOrder = three \cup {"optionalDependencies"}
        BY DEF GroupOrder
  <2>2. IsFiniteSet(two)
        BY FS_Singleton, FS_AddElement
  <2> HIDE DEF two
  <2>3. IsFiniteSet(three)
        BY <2>2, FS_AddElement
  <2> HIDE DEF three
  <2> QED
      BY <2>1, <2>3, FS_AddElement
<1>3. IsFiniteSet(DepGroups)
      BY <1>2, DepalignAssumption, FS_Subset
<1> QED
    BY <1>1, <1>3, FS_Product DEF Spots

(* The first of the highest ranges is the one that leads.                    *)
LEMMA LeaderIsHighest ==
  ASSUME NEW ns \in SUBSET Spots, NEW n \in ns, LeadsAll(n, ns)
  PROVE  HighestRange(ns) = RangeAt(n)
<1> DEFINE valid == {m \in ns : RangeAt(m) \in Ranges}
           best == {m \in valid : \A k \in valid : ~Higher(RangeAt(k), RangeAt(m))}
<1>1. n \in valid /\ \A m \in valid : Ahead(n, m)
      BY DEF LeadsAll
<1>2. \A m \in valid, k \in valid :
        /\ OrderOf(RangeAt(m)) \in Nat
        /\ Higher(RangeAt(k), RangeAt(m)) <=> OrderOf(RangeAt(m)) < OrderOf(RangeAt(k))
        /\ Place(m) \in Nat /\ (Before(k, m) <=> Place(k) < Place(m))
        /\ Place(k) = Place(m) => k = m
      BY RankIsNumber, HigherIsRank, PlaceIsNumber
<1> HIDE DEF valid
<1>3. n \in best
      BY <1>1, <1>2 DEF Ahead
<1>4. \A m \in best : n = m \/ Before(n, m)
      BY <1>1, <1>2 DEF Ahead
<1>5. \A m \in best : (\A k \in best : m = k \/ Before(m, k)) => m = n
      BY <1>1, <1>2, <1>3, <1>4
<1>6. Best(ns) = {n}
      BY <1>3, <1>4, <1>5 DEF Best, valid
<1>7. RangesOf(Best(ns)) = {RangeAt(n)} /\ RangeAt(n) \in Ranges /\ Best(ns) # {}
      BY <1>1, <1>6 DEF RangesOf, valid
<1> QED
    BY <1>7 DEF HighestRange

LEMMA NoneIsHighest ==
  ASSUME NEW ns, \A n \in ns : RangeAt(n) \notin Ranges
  PROVE  HighestRange(ns) = NoRange
  BY DEF HighestRange, Best

LEMMA SomeoneLeads ==
  ASSUME NEW ns \in SUBSET Spots, NEW k \in ns, RangeAt(k) \in Ranges
  PROVE  \E n \in ns : LeadsAll(n, ns)
<1> DEFINE valid == {m \in ns : RangeAt(m) \in Ranges}
           ranks == {OrderOf(RangeAt(m)) : m \in valid}
<1>1. valid \subseteq Spots /\ k \in valid /\ IsFiniteSet(valid)
      BY SpotsAreFinite, FS_Subset
<1>2. \A m \in valid : OrderOf(RangeAt(m)) \in Nat /\ Place(m) \in Nat
      BY <1>1, RankIsNumber, PlaceIsNumber
<1> HIDE DEF valid
<1>3. ranks \subseteq Nat /\ ranks # {} /\ IsFiniteSet(ranks)
  <2> DEFINE f == [m \in valid |-> OrderOf(RangeAt(m))]
  <2>1. f \in Surjection(valid, ranks)
        BY DEF Surjection
  <2> HIDE DEF f
  <2>2. IsFiniteSet(ranks)
        BY <1>1, <2>1, FS_Surjection
  <2> QED
      BY <1>1, <1>2, <2>2
<1>4. PICK h \in ranks : \A l \in ranks : l <= h
      BY <1>3, LargestNumber
<1>5. \A m \in valid : OrderOf(RangeAt(m)) <= h
      BY <1>4
<1> DEFINE places == {Place(m) : m \in {l \in valid : OrderOf(RangeAt(l)) = h}}
<1>6. places \subseteq Nat /\ places # {}
      BY <1>2, <1>4
<1>7. PICK f \in places : \A l \in places : f <= l
      BY <1>6, Smallest
<1>8. PICK n \in valid : OrderOf(RangeAt(n)) = h /\ Place(n) = f
      BY <1>7
<1>9. \A m \in valid : OrderOf(RangeAt(m)) = h => Place(n) <= Place(m)
      BY <1>7, <1>8
<1>10. \A m \in valid : Ahead(n, m)
       BY <1>2, <1>3, <1>5, <1>8, <1>9 DEF Ahead
<1> QED
    BY <1>8, <1>10 DEF LeadsAll, valid

LEMMA AskedIsSpots == DepalignInv => Asked \in SUBSET Spots
  BY DEF Asked, NotIgnored, AllEntries, Spots

LEMMA SameAsked ==
  ASSUME DepalignInv, UNCHANGED <<json, ignore>>, NEW o, NEW v, MayFix(o, v)
  PROVE  MayFix(o, v)' /\ Asked' = Asked /\ \A n : RangeAt(n)' = RangeAt(n)
<1>1. Asked' = Asked /\ \A n : RangeAt(n)' = RangeAt(n)
      BY DEF Asked, NotIgnored, AllEntries, RangeAt
<1>2. Intersects(Asked)' = Intersects(Asked)
      BY <1>1 DEF Intersects
<1>3. NoneParsed' = NoneParsed
      BY <1>1 DEF NoneParsed
<1>4. \A n, m : Ahead(n, m)' = Ahead(n, m)
      BY <1>1 DEF Ahead
<1>5. \A n : LeadsAll(n, Asked)' = LeadsAll(n, Asked)
      BY <1>1, <1>4 DEF LeadsAll
<1> QED
    BY <1>1, <1>2, <1>3, <1>5 DEF MayFix

(* What nobody could parse is mismatched, or all the same.                   *)
LEMMA NothingParsed ==
  ASSUME DepalignInv, NoneParsed, Intersects(Asked)
  PROVE  Cardinality(RangesOf(Asked)) <= 1
<1>1. \A n \in Asked : RangeAt(n) \in {Star} \cup Locations
      BY DEF NoneParsed, Asked, NotIgnored, AllEntries, RangeAt, DepalignInv, DepalignTypeOK, Values
<1>2. \A n \in Asked, m \in Asked : RangeAt(n) = RangeAt(m)
      BY <1>1 DEF Intersects, Overlap
<1>3. RangesOf(Asked) = {} \/ \E v : RangesOf(Asked) = {v}
      BY <1>2 DEF RangesOf
<1>4. Cardinality({}) = 0 /\ \A v : Cardinality({v}) = 1
      BY FS_EmptySet, FS_Singleton
<1>5. Cardinality(RangesOf(Asked)) = 0 \/ Cardinality(RangesOf(Asked)) = 1
      BY <1>3, <1>4
<1> QED
    BY <1>5

(* A run that fixes has found a range, or may take dependencies away.        *)
LEMMA StartMayFix ==
  ASSUME DepalignInv, NEW o \in CommandLines, Reported(o)
  PROVE  MayFix(o, HighestRange(Asked))
<1>1. \/ Report(ignore, o) = "deduped" /\ ~o.skipDeduped
      \/ Report(ignore, o) = "mismatched" /\ o.mismatched
      BY DEF Reported
<1>2. Cardinality(RangesOf(Asked)) \notin {0, 1} /\ ~(Cardinality(RangesOf(Asked)) <= 1)
      BY <1>1 DEF Report, Asked
<1>3. Intersects(Asked) \/ o.mismatched
      BY <1>1 DEF Report, Asked
<1>4. CASE NoneParsed
  <2>1. HighestRange(Asked) = NoRange
        BY <1>4, NoneIsHighest DEF NoneParsed
  <2>2. o.mismatched
        BY <1>2, <1>3, <1>4, NothingParsed
  <2> QED
      BY <1>3, <1>4, <2>1, <2>2 DEF MayFix
<1>5. CASE ~NoneParsed
  <2>1. PICK n \in Asked : LeadsAll(n, Asked)
        BY <1>5, AskedIsSpots, SomeoneLeads DEF NoneParsed
  <2>2. HighestRange(Asked) = RangeAt(n) /\ RangeAt(n) \in Ranges
        BY <2>1, AskedIsSpots, LeaderIsHighest DEF LeadsAll
  <2>3. RangeAt(n) # NoRange
        BY <2>2, DepalignAssumption DEF Values
  <2> QED
      BY <1>3, <2>1, <2>2, <2>3 DEF MayFix
<1> QED
    BY <1>4, <1>5

LEMMA WrittenIs ==
  ASSUME DepalignTypeOK, NEW p \in Members, NEW gs \in SUBSET DepGroups,
         NEW v \in Values \cup {NoRange}, Written(p, gs, v)
  PROVE  /\ json' \in [Members -> [DepGroups -> Values \cup {NoRange}]]
         /\ \A q \in Members, g \in DepGroups :
              json'[q][g] = IF q = p /\ g \in gs /\ json[p][g] # NoRange THEN v ELSE json[q][g]
<1>1. json \in [Members -> [DepGroups -> Values \cup {NoRange}]]
      BY DEF DepalignTypeOK
<1> DEFINE new == [g \in DepGroups |->
                     IF g \in gs /\ json[p][g] # NoRange THEN v ELSE json[p][g]]
<1>2. json' = [json EXCEPT ![p] = new]
      BY DEF Written
<1>3. new \in [DepGroups -> Values \cup {NoRange}]
      BY <1>1
<1>4. \A g \in DepGroups : new[g] = IF g \in gs /\ json[p][g] # NoRange THEN v ELSE json[p][g]
      OBVIOUS
<1> HIDE DEF new
<1> QED
    BY <1>1, <1>2, <1>3, <1>4

LEMMA FixWrites ==
  ASSUME DepalignInv, NEW p \in Members, FixPackage(p)
  PROVE  /\ json' \in [Members -> [DepGroups -> Values \cup {NoRange}]]
         /\ \A q \in Members, g \in DepGroups :
              json'[q][g] = IF q = p /\ json[p][g] # NoRange THEN target ELSE json[q][g]
<1>1. DepalignTypeOK /\ Written(p, DepGroups, target)
      BY DEF FixPackage, Rewritten, FixOf, DepalignInv
<1>2. target \in Values \cup {NoRange} /\ DepGroups \in SUBSET DepGroups
      BY <1>1 DEF DepalignTypeOK, Values
<1>3. /\ json' \in [Members -> [DepGroups -> Values \cup {NoRange}]]
      /\ \A q \in Members, g \in DepGroups :
           json'[q][g] = IF q = p /\ g \in DepGroups /\ json[p][g] # NoRange
                         THEN target ELSE json[q][g]
      BY <1>1, <1>2, WrittenIs
<1> QED
    BY <1>3

LEMMA AlignWrites ==
  ASSUME DepalignInv, AlignPackage
  PROVE  /\ Min(todo) \in Members /\ target \in Ranges
         /\ json' \in [Members -> [DepGroups -> Values \cup {NoRange}]]
         /\ \A q \in Members, g \in DepGroups :
              json'[q][g] = IF q = Min(todo) /\ g \in Aligned /\ json[q][g] # NoRange
                            THEN target ELSE json[q][g]
<1>1. DepalignTypeOK /\ phase = "aligning" /\ todo # {}
      BY DEF DepalignInv, AlignPackage
<1>2. PICK p : p = Min(todo)
      OBVIOUS
<1>3. p \in Members
  <2>1. todo \subseteq Nat
        BY <1>1 DEF DepalignTypeOK, Members
  <2>2. p \in todo
        BY <1>1, <1>2, <2>1, Smallest DEF Min
  <2> QED
      BY <1>1, <2>2 DEF DepalignTypeOK
<1>4. Written(p, Aligned, target)
      BY <1>2 DEF AlignPackage
<1>5. target \in Ranges /\ target \in Values \cup {NoRange} /\ Aligned \in SUBSET DepGroups
      BY <1>1 DEF DepalignTypeOK, Values, Aligned
<1>6. /\ json' \in [Members -> [DepGroups -> Values \cup {NoRange}]]
      /\ \A q \in Members, g \in DepGroups :
           json'[q][g] = IF q = p /\ g \in Aligned /\ json[p][g] # NoRange
                         THEN target ELSE json[q][g]
      BY <1>1, <1>3, <1>4, <1>5, WrittenIs
<1> QED
    BY <1>2, <1>3, <1>5, <1>6

(* The packages that are written do not change which range is the highest.   *)
LEMMA FixPackageKeeps == ASSUME DepalignInv, NEW p \in Members, FixPackage(p) PROVE DepalignInv'
<1>1. /\ phase = "fixing" /\ p \in todo /\ todo' = todo \ {p}
      /\ Written(p, DepGroups, target)
      /\ UNCHANGED <<tornJson, ignore, phase, opts, target, killed, runs>>
      BY DEF FixPackage, Rewritten, FixOf
<1>2. MayFix(opts, target) /\ \A n \in Asked : n[1] \in todo \/ RangeAt(n) = target
      BY <1>1 DEF DepalignInv
<1>3. DepalignTypeOK /\ target \in Ranges \cup {NoRange}
      BY DEF DepalignInv, DepalignTypeOK
<1>4. /\ json' \in [Members -> [DepGroups -> Values \cup {NoRange}]]
      /\ \A q \in Members, g \in DepGroups :
           json'[q][g] = IF q = p /\ json[p][g] # NoRange THEN target ELSE json[q][g]
      BY FixWrites
<1>5. DepalignTypeOK'
      BY <1>1, <1>3, <1>4 DEF DepalignTypeOK
<1>6. Asked \in SUBSET Spots /\ Asked' \in SUBSET Spots
      BY AskedIsSpots DEF Asked, NotIgnored, AllEntries, Spots
<1>7. \A n \in Asked' : n[1] = p => RangeAt(n)' = target
      BY <1>4, <1>6 DEF Asked, NotIgnored, AllEntries, RangeAt, Spots
<1>8. \A n \in Asked' : n[1] # p => n \in Asked /\ RangeAt(n)' = RangeAt(n)
      BY <1>1, <1>4, <1>6 DEF Asked, NotIgnored, AllEntries, RangeAt, Spots
<1>9. \A n \in Asked : n[1] # p => n \in Asked' /\ RangeAt(n)' = RangeAt(n)
      BY <1>1, <1>4, <1>6 DEF Asked, NotIgnored, AllEntries, RangeAt, Spots
<1>10. \A n \in Asked' : RangeAt(n)' # NoRange
       BY DEF Asked, NotIgnored, AllEntries, RangeAt
<1>11. \A n \in Asked' : n[1] \in todo' \/ RangeAt(n)' = target'
       BY <1>1, <1>2, <1>7, <1>8
<1>12. MayFix(opts, target)'
  <2>1. CASE target = NoRange
    <3>1. NoneParsed /\ opts.mismatched /\ opts \in CommandLines
          BY <1>2, <2>1 DEF MayFix
    <3>2. \A n \in Asked' : n \in Asked /\ RangeAt(n)' = RangeAt(n)
          BY <1>7, <1>8, <1>10, <2>1
    <3>3. NoneParsed'
          BY <3>1, <3>2 DEF NoneParsed
    <3> QED
        BY <1>1, <2>1, <3>1, <3>3 DEF MayFix
  <2>2. CASE target # NoRange
    <3>1. target \in Ranges /\ opts \in CommandLines /\ (Intersects(Asked) \/ opts.mismatched)
          BY <1>2, <2>2 DEF MayFix
    <3>2. PICK n \in Asked : LeadsAll(n, Asked) /\ RangeAt(n) = target
          BY <1>2, <2>2 DEF MayFix
    <3>3. n \in Asked' /\ RangeAt(n)' = target
      <4>1. CASE n[1] = p
        <5>1. PICK g \in DepGroups : n = <<p, g>>
              BY <1>6, <4>1 DEF Spots
        <5>2. json[p][g] = target /\ target \notin ignore
              BY <3>2, <5>1 DEF RangeAt, Asked, NotIgnored
        <5>3. json'[p][g] = target /\ target # Star
              BY <1>4, <5>2, <2>2, <3>1, DepalignAssumption
        <5> QED
            BY <1>1, <2>2, <5>1, <5>2, <5>3 DEF RangeAt, Asked, NotIgnored, AllEntries
      <4> QED
          BY <1>9, <3>2, <4>1
    <3>4. Intersects(Asked)' \/ opts.mismatched
      <4>1. \A m \in Asked' : \E k \in Asked : RangeAt(m)' = RangeAt(k)
            BY <1>7, <1>8, <3>2
      <4> QED
          BY <3>1, <4>1 DEF Intersects
    <3> DEFINE places == {Place(m) : m \in {k \in Asked' : RangeAt(k)' = target}}
    <3>5. places \subseteq Nat /\ places # {}
          BY <1>6, <3>3, PlaceIsNumber
    <3>6. PICK l \in places : \A k \in places : l <= k
          BY <3>5, Smallest
    <3>7. PICK f \in Asked' : RangeAt(f)' = target /\ Place(f) = l
          BY <3>6
    <3>8. \A m \in Asked' : RangeAt(m)' = target => Place(f) <= Place(m)
          BY <3>6, <3>7
    <3>9. Place(f) <= Place(n)
          BY <3>3, <3>8
    <3>10. ASSUME NEW m \in Asked', RangeAt(m)' \in Ranges
           PROVE  Ahead(f, m)'
      <4>1. /\ Place(f) \in Nat /\ Place(n) \in Nat /\ Place(m) \in Nat
            /\ OrderOf(target) \in Nat /\ OrderOf(RangeAt(m)') \in Nat
            BY <1>6, <3>1, <3>10, PlaceIsNumber, RankIsNumber
      <4>2. CASE RangeAt(m)' = target
            BY <3>7, <3>8, <4>1, <4>2 DEF Ahead
      <4>3. CASE RangeAt(m)' # target
        <5>1. m \in Asked /\ RangeAt(m)' = RangeAt(m)
              BY <1>7, <1>8, <4>3
        <5>2. Ahead(n, m)
              BY <3>2, <3>10, <5>1 DEF LeadsAll
        <5> QED
            BY <3>2, <3>7, <3>9, <4>1, <5>1, <5>2 DEF Ahead
      <4> QED
          BY <4>2, <4>3
    <3>11. LeadsAll(f, Asked)'
           BY <3>1, <3>7, <3>10 DEF LeadsAll
    <3> QED
        BY <1>1, <2>2, <3>1, <3>4, <3>7, <3>11 DEF MayFix
  <2> QED
      BY <2>1, <2>2
<1>13. killed = NoRange
       BY <1>1 DEF DepalignInv
<1> QED
    BY <1>1, <1>5, <1>11, <1>12, <1>13 DEF DepalignInv

LEMMA StartFixKeeps ==
  ASSUME DepalignInv, NEW o \in CommandLines, StartFix(o) PROVE DepalignInv'
<1>1. /\ runs < MaxDepalignRuns /\ runs' = runs + 1 /\ opts' = o /\ killed' = NoRange
      /\ phase' = IF Reported(o) THEN "fixing" ELSE "idle"
      /\ todo' = IF Reported(o) THEN {n[1] : n \in Asked} ELSE {}
      /\ target' = IF Reported(o) THEN HighestRange(Asked) ELSE NoRange
      /\ UNCHANGED <<json, tornJson, ignore>>
      BY DEF StartFix, Asked
<1>2. DepalignTypeOK
      BY DEF DepalignInv
<1>3. CASE Reported(o)
  <2>1. PICK v : v = HighestRange(Asked)
        OBVIOUS
  <2>2. MayFix(o, v)
        BY <1>3, <2>1, StartMayFix
  <2>3. MayFix(o, v)' /\ Asked' = Asked /\ \A n : RangeAt(n)' = RangeAt(n)
        BY <1>1, <2>2, SameAsked
  <2>4. phase' = "fixing" /\ target' = v /\ todo' = {n[1] : n \in Asked}
        BY <1>1, <1>3, <2>1
  <2>5. MayFix(opts, target)' /\ \A n \in Asked' : n[1] \in todo'
        BY <1>1, <2>3, <2>4 DEF MayFix
  <2>6. target' \in Ranges \cup {NoRange}
        BY <2>2, <2>4 DEF MayFix
  <2>7. \A n \in Asked : n[1] \in Members
        BY AskedIsSpots DEF Spots
  <2>8. todo' \subseteq Members
        BY <2>4, <2>7
  <2>9. DepalignTypeOK'
        BY <1>1, <1>2, <2>4, <2>6, <2>8 DEF DepalignTypeOK
  <2> QED
      BY <1>1, <2>4, <2>5, <2>9 DEF DepalignInv
<1>4. CASE ~Reported(o)
      BY <1>1, <1>2, <1>4 DEF DepalignInv, DepalignTypeOK
<1> QED
    BY <1>3, <1>4

(* Whatever else happens to packages happens while none is fixed.            *)
LEMMA AlignKeeps ==
  ASSUME DepalignInv, (\E v \in Ranges : StartAlign(v)) \/ AlignPackage \/ AlignDone
  PROVE  DepalignInv'
<1>1. DepalignTypeOK
      BY DEF DepalignInv
<1>2. ASSUME NEW v \in Ranges, StartAlign(v) PROVE DepalignInv'
  <2>1. v # NoRange
        BY DepalignAssumption DEF Values
  <2> QED
      BY <1>1, <1>2, <2>1 DEF DepalignInv, DepalignTypeOK, StartAlign
<1>3. CASE AlignPackage
  <2>1. json' \in [Members -> [DepGroups -> Values \cup {NoRange}]]
        BY <1>3, AlignWrites
  <2>2. /\ phase = "aligning" /\ todo' \subseteq todo
        /\ UNCHANGED <<tornJson, ignore, phase, opts, target, killed, runs>>
        BY <1>3 DEF AlignPackage
  <2> QED
      BY <1>1, <2>1, <2>2 DEF DepalignInv, DepalignTypeOK
<1>4. CASE AlignDone
      BY <1>1, <1>4 DEF AlignDone, DepalignInv, DepalignTypeOK
<1> QED
    BY <1>2, <1>3, <1>4

LEMMA CleanKeeps ==
  ASSUME DepalignInv, NEW o \in CommandLines, CleanConfig(o)
  PROVE  DepalignInv'
<1>1. ignore' \subseteq ignore
      BY DEF CleanConfig, Used
<1> QED
    BY <1>1 DEF CleanConfig, DepalignInv, DepalignTypeOK

(* A run that is killed leaves what the next one goes on from.               *)
LEMMA KillKeeps == ASSUME DepalignInv, KillDepalign PROVE DepalignInv'
<1>1. /\ tornJson' \subseteq tornJson \cup todo
      /\ killed' = IF phase = "fixing" THEN [opts |-> opts, target |-> target] ELSE NoRange
      /\ phase' = "idle" /\ todo' = {} /\ target' = NoRange
      /\ UNCHANGED <<json, ignore, opts, runs>>
      BY DEF KillDepalign, Writing
<1>2. DepalignTypeOK'
      BY <1>1 DEF DepalignInv, DepalignTypeOK
<1>3. ASSUME killed' # NoRange PROVE MayFix(killed.opts, killed.target)'
  <2>1. phase = "fixing" /\ killed'.opts = opts /\ killed'.target = target
        BY <1>1, <1>3
  <2>2. PICK o, v : o = opts /\ v = target
        OBVIOUS
  <2>3. MayFix(o, v)
        BY <2>1, <2>2 DEF DepalignInv
  <2>4. MayFix(o, v)'
        BY <1>1, <2>3, SameAsked
  <2> QED
      BY <2>1, <2>2, <2>4 DEF MayFix
<1> QED
    BY <1>1, <1>2, <1>3 DEF DepalignInv

LEMMA OthersKeepDepalign ==
  ASSUME DepalignInv, FixDone \/ UNCHANGED depalignVars PROVE DepalignInv'
<1>1. CASE FixDone
  <2>1. killed = NoRange
        BY <1>1 DEF FixDone, DepalignInv
  <2> QED
      BY <1>1, <2>1 DEF FixDone, DepalignInv, DepalignTypeOK
<1>2. CASE UNCHANGED depalignVars
      BY <1>2 DEF depalignVars, DepalignInv, DepalignTypeOK, MayFix, LeadsAll, Ahead, Asked,
          NotIgnored, AllEntries, RangeAt, NoneParsed, Intersects
<1> QED
    BY <1>1, <1>2

LEMMA DepalignInvNext == DepalignInv /\ [DepalignNext]_depalignVars => DepalignInv'
  BY FixPackageKeeps, StartFixKeeps, AlignKeeps, CleanKeeps, KillKeeps, OthersKeepDepalign
  DEF DepalignNext

-----------------------------------------------------------------------------
LEMMA FixedAgree == ASSUME DepalignInv, FixDone PROVE Report(ignore, opts) = "none"
<1>1. \A n \in Asked : RangeAt(n) = target
      BY DEF FixDone, DepalignInv
<1>2. RangesOf(Asked) = {} \/ RangesOf(Asked) = {target}
      BY <1>1 DEF RangesOf
<1>3. Cardinality({}) = 0 /\ Cardinality({target}) = 1
      BY FS_EmptySet, FS_Singleton
<1>4. Cardinality(RangesOf(Asked)) = 0 \/ Cardinality(RangesOf(Asked)) = 1
      BY <1>2, <1>3
<1>5. Cardinality(RangesOf(Asked)) <= 1
      BY <1>4
<1> QED
    BY <1>5 DEF Report, Asked

LEMMA NextRunGoesOn == ASSUME DepalignInv, DepalignNext PROVE SameTarget
<1> SUFFICES ASSUME NEW o \in CommandLines, StartFix(o), killed # NoRange, killed.opts = o,
                    ~o.skipDeduped, Report(ignore, o) # "none"
             PROVE  target' = killed.target
    BY DEF SameTarget
<1>1. MayFix(o, killed.target)
      BY DEF DepalignInv
<1>2. Reported(o)
  <2>1. Report(ignore, o) = "deduped" \/ (Report(ignore, o) = "mismatched" /\ ~Intersects(Asked))
        BY DEF Report, Asked
  <2> QED
      BY <1>1, <2>1 DEF Reported, MayFix
<1>3. target' = HighestRange(Asked)
      BY <1>2 DEF StartFix, Asked
<1>4. CASE killed.target = NoRange
  <2>1. \A n \in Asked : RangeAt(n) \notin Ranges
        BY <1>1, <1>4 DEF MayFix, NoneParsed
  <2> QED
      BY <1>3, <1>4, <2>1, NoneIsHighest
<1>5. CASE killed.target # NoRange
  <2>1. PICK n \in Asked : LeadsAll(n, Asked) /\ RangeAt(n) = killed.target
        BY <1>1, <1>5 DEF MayFix
  <2> QED
      BY <1>3, <2>1, AskedIsSpots, LeaderIsHighest
<1> QED
    BY <1>4, <1>5

LEMMA KeptUnlessMismatched == ASSUME DepalignInv, DepalignNext PROVE DependenciesKept
<1> SUFFICES ASSUME NEW q \in Members, NEW h \in DepGroups,
                    json[q][h] # NoRange, json'[q][h] = NoRange
             PROVE  opts # NoRange /\ opts.mismatched /\ target = NoRange
    BY DEF DependenciesKept
<1>1. ASSUME NEW p \in Members, FixPackage(p)
      PROVE  opts # NoRange /\ opts.mismatched /\ target = NoRange
  <2>1. target = NoRange
        BY <1>1, FixWrites
  <2>2. MayFix(opts, target)
        BY <1>1 DEF FixPackage, DepalignInv
  <2> QED
      BY <2>1, <2>2, DepalignAssumption DEF MayFix
<1>2. ASSUME AlignPackage PROVE FALSE
      BY <1>2, AlignWrites, DepalignAssumption DEF Values
<1>3. json' # json
      OBVIOUS
<1> QED
    BY <1>1, <1>2, <1>3
    DEF DepalignNext, StartFix, CleanConfig, FixDone, StartAlign, AlignDone, KillDepalign

(* A rule that goes is one that hides nothing.                                *)
LEMMA RulesHideNothing == ASSUME DepalignInv, DepalignNext PROVE CleaningIsHarmless
<1> SUFFICES ASSUME NEW o \in CommandLines, CleanConfig(o), ~o.typesOnly
             PROVE  Report(ignore', o) = Report(ignore, o)
    BY DEF CleaningIsHarmless
<1>1. ignore' = Used(ignore, o)
      BY DEF CleanConfig
<1>2. NotIgnored({}) = AllEntries /\ Asked \subseteq AllEntries
      BY DEF NotIgnored, Asked
<1>3. CASE Report({}, o) # "none"
  <2>1. ignore' = ignore \cap RangesOf(AllEntries)
        BY <1>1, <1>3 DEF Used
  <2>2. NotIgnored(ignore') = NotIgnored(ignore)
        BY <2>1 DEF NotIgnored, RangesOf
  <2> QED
      BY <2>2 DEF Report
<1>4. CASE Report({}, o) = "none"
  <2>1. ignore' = {}
        BY <1>1, <1>4 DEF Used
  <2>2. \/ Cardinality(RangesOf(AllEntries)) <= 1
        \/ \A n \in AllEntries : DepType(n[1], RangeAt(n)) \notin o.types
        BY <1>2, <1>4 DEF Report
  <2>3. IsFiniteSet(RangesOf(AllEntries))
    <3> DEFINE f == [n \in AllEntries |-> RangeAt(n)]
    <3>1. IsFiniteSet(AllEntries)
          BY SpotsAreFinite, FS_Subset DEF AllEntries, Spots
    <3>2. f \in Surjection(AllEntries, RangesOf(AllEntries))
          BY DEF Surjection, RangesOf
    <3> HIDE DEF f
    <3> QED
        BY <3>1, <3>2, FS_Surjection
  <2>4. RangesOf(Asked) \in SUBSET RangesOf(AllEntries)
        BY <1>2 DEF RangesOf
  <2>5. /\ Cardinality(RangesOf(Asked)) <= Cardinality(RangesOf(AllEntries))
        /\ Cardinality(RangesOf(Asked)) \in Nat /\ Cardinality(RangesOf(AllEntries)) \in Nat
        BY <2>3, <2>4, FS_Subset, FS_CardinalityType
  <2>6. \/ Cardinality(RangesOf(Asked)) <= 1
        \/ \A n \in Asked : DepType(n[1], RangeAt(n)) \notin o.types
        BY <1>2, <2>2, <2>5
  <2>7. Report(ignore, o) = "none"
        BY <2>6 DEF Report, Asked
  <2> QED
      BY <1>4, <2>1, <2>7
<1> QED
    BY <1>3, <1>4

(* Runs of depalign, killed or not, end in packages that agree, and lose      *)
(* nothing on the way, for any packages, ranges and rules (depalign.ts).      *)
THEOREM Converge == DepalignSpec => RunsConverge
<1>1. DepalignInv /\ [DepalignNext]_depalignVars =>
        [FixedIsAligned /\ SameTarget /\ DependenciesKept /\ CleaningIsHarmless]_depalignVars
      BY FixedAgree, NextRunGoesOn, KeptUnlessMismatched, RulesHideNothing DEF FixedIsAligned
<1> QED
    BY <1>1, DepalignInvInit, DepalignInvNext, PTL DEF DepalignSpec, RunsConverge

-----------------------------------------------------------------------------
(* VulnTickets.  A ticket that is about to be created was not there when it  *)
(* was looked for, so that it is counted by the build that creates it; and   *)
(* what is listed below the one a build is at is settled.                    *)

Reports ==
  [pc : {"idle", "next", "searching", "creating", "checking", "done", "failed"},
   list : SUBSET (Vulnerabilities \ Licenses), at : Vulnerabilities \cup {NoVulnerability},
   summary : Summaries \cup {NoVulnerability}, settled : SUBSET Vulnerabilities]

CreatingOf(s) == {b \in Builds : build[b].pc = "creating" /\ build[b].summary = s}

SummaryIsBounded(s) == tickets[s] + Cardinality(CreatingOf(s)) <= Cardinality(Builds)

ReportIsSound(b) ==
  LET r == build[b] IN
  /\ r.pc = "next" => \A v \in r.list : r.at # NoVulnerability /\ v <= r.at => v \in r.settled
  /\ r.pc \in {"searching", "creating"} =>
       r.at # NoVulnerability /\ r.summary \in Summaries
       /\ \A v \in r.list : v < r.at => v \in r.settled
  /\ r.pc \in {"checking", "done"} =>
       \A v \in r.list \ r.settled : \E w \in r.list : w <= v /\ HasIgnorePolicy(w)

VulnInv ==
  /\ build \in [Builds -> Reports] /\ tickets \in [Summaries -> Nat]
  /\ \A s \in Summaries : SummaryIsBounded(s)
  /\ \A b \in Builds : ReportIsSound(b)

LEMMA FirstIsSmallest ==
  ASSUME NEW S, S \subseteq Vulnerabilities
  PROVE  /\ S = {} => FirstOf(S) = NoVulnerability
         /\ S # {} => FirstOf(S) \in S /\ \A w \in S : FirstOf(S) <= w
  BY Smallest, VulnAssumption DEF FirstOf

LEMMA CreatingIsFinite ==
  ASSUME NEW s
  PROVE  /\ IsFiniteSet(CreatingOf(s)) /\ Cardinality(CreatingOf(s)) \in Nat
         /\ Cardinality(CreatingOf(s)) <= Cardinality(Builds) /\ Cardinality(Builds) \in Nat
<1>1. CreatingOf(s) \subseteq Builds
      BY DEF CreatingOf
<1> QED
    BY <1>1, VulnAssumption, FS_Subset, FS_CardinalityType

LEMMA VulnInvInit == VulnInit => VulnInv
<1> SUFFICES ASSUME VulnInit PROVE VulnInv
    OBVIOUS
<1>1. NotRunning \in Reports /\ NotRunning.pc = "idle"
      BY DEF NotRunning, Reports
<1>2. build = [b \in Builds |-> NotRunning] /\ tickets = [s \in Summaries |-> 0]
      BY DEF VulnInit
<1>3. build \in [Builds -> Reports] /\ tickets \in [Summaries -> Nat]
      BY <1>1, <1>2
<1>4. \A s \in Summaries : SummaryIsBounded(s)
      BY <1>2, CreatingIsFinite DEF SummaryIsBounded
<1>5. \A b \in Builds : ReportIsSound(b)
      BY <1>1, <1>2 DEF ReportIsSound
<1> QED
    BY <1>3, <1>4, <1>5 DEF VulnInv

(* A step of one build: what it has to show.                                 *)
LEMMA BuildStep ==
  ASSUME VulnInv, NEW b \in Builds, NEW r \in Reports, build' = [build EXCEPT ![b] = r],
         policy' = policy, tickets' \in [Summaries -> Nat],
         \A s \in Summaries : SummaryIsBounded(s)', ReportIsSound(b)'
  PROVE  VulnInv'
<1>1. build' \in [Builds -> Reports] /\ \A c \in Builds \ {b} : build'[c] = build[c]
      BY DEF VulnInv
<1>2. ASSUME NEW c \in Builds \ {b} PROVE ReportIsSound(c)'
      BY <1>1 DEF VulnInv, ReportIsSound, HasIgnorePolicy
<1> QED
    BY <1>1, <1>2 DEF VulnInv

(* A build that is not about to create a ticket counts for none.             *)
LEMMA FewerCreate ==
  ASSUME VulnInv, NEW b \in Builds, NEW r, r.pc # "creating",
         build' = [build EXCEPT ![b] = r], tickets' = tickets
  PROVE  \A s \in Summaries : SummaryIsBounded(s)'
<1> SUFFICES ASSUME NEW s \in Summaries PROVE SummaryIsBounded(s)'
    OBVIOUS
<1>1. CreatingOf(s)' \subseteq CreatingOf(s)
      BY DEF CreatingOf, VulnInv
<1>2. /\ IsFiniteSet(CreatingOf(s)') /\ Cardinality(CreatingOf(s)') \in Nat
      /\ Cardinality(CreatingOf(s)') <= Cardinality(CreatingOf(s))
      BY <1>1, CreatingIsFinite, FS_Subset, FS_CardinalityType
<1> QED
    BY <1>2, CreatingIsFinite DEF VulnInv, SummaryIsBounded

LEMMA ReportsStart ==
  ASSUME VulnInv, NEW b \in Builds, NEW found \in SUBSET Vulnerabilities, StartReport(b, found)
  PROVE  VulnInv'
<1> DEFINE first == [NotRunning EXCEPT !.pc = "next"]
           r == [first EXCEPT !.list = Applicable(found)]
<1>1. build' = [build EXCEPT ![b] = r] /\ UNCHANGED <<policy, tickets>>
      BY DEF StartReport
<1>2. r \in Reports /\ r.pc = "next" /\ r.at = NoVulnerability
      BY DEF NotRunning, Reports, Applicable
<1> HIDE DEF r
<1>3. build'[b] = r
      BY <1>1 DEF VulnInv
<1>4. ReportIsSound(b)'
      BY <1>2, <1>3 DEF ReportIsSound
<1>5. \A s \in Summaries : SummaryIsBounded(s)'
      BY <1>1, <1>2, FewerCreate
<1> QED
    BY <1>1, <1>2, <1>4, <1>5, BuildStep DEF VulnInv

LEMMA ReportsGoOn ==
  ASSUME VulnInv, NEW b \in Builds, NextVulnerability(b) \/ TicketsDone(b)
  PROVE  VulnInv'
<1> DEFINE v == FirstOf(Remaining(b))
           list == build[b].list
           at == build[b].at
<1>1. /\ build[b] \in Reports /\ build[b].pc = "next" /\ list \subseteq Vulnerabilities \ Licenses
      /\ \A w \in list : at # NoVulnerability /\ w <= at => w \in build[b].settled
      BY DEF VulnInv, NextVulnerability, TicketsDone, ReportIsSound, Reports
<1>2. at \in Vulnerabilities \cup {NoVulnerability} /\ list \subseteq Nat
      BY <1>1, VulnAssumption DEF Reports
<1>3. \A w \in list : w \in Remaining(b) \/ (at # NoVulnerability /\ w <= at)
  <2> SUFFICES ASSUME NEW w \in list, w \notin Remaining(b)
               PROVE  at # NoVulnerability /\ w <= at
      OBVIOUS
  <2>1. at # NoVulnerability /\ ~(w > at)
        BY DEF Remaining
  <2>2. at \in Nat /\ w \in Nat
        BY <1>2, <2>1, VulnAssumption
  <2> HIDE DEF at
  <2> QED
      BY <2>1, <2>2
<1>4. Remaining(b) \subseteq list /\ Remaining(b) \subseteq Vulnerabilities
      BY <1>1 DEF Remaining
<1>5. /\ v # NoVulnerability => v \in list /\ v \in Vulnerabilities
      /\ \A w \in list \ build[b].settled : v # NoVulnerability /\ v <= w
  <2>1. ASSUME NEW w \in list \ build[b].settled PROVE v # NoVulnerability /\ v <= w
    <3>1. w \in Remaining(b)
          BY <1>1, <1>3, <2>1
    <3> QED
        BY <1>4, <3>1, FirstIsSmallest, VulnAssumption
  <2> QED
      BY <1>4, <2>1, FirstIsSmallest
<1> HIDE DEF v, list, at
<1>6. CASE NextVulnerability(b)
  <2> DEFINE first == [build[b] EXCEPT !.pc = "searching"]
             second == [first EXCEPT !.at = v]
             r == [second EXCEPT !.summary = Summary(v)]
  <2>1. /\ build' = [build EXCEPT ![b] = r] /\ UNCHANGED <<policy, tickets>>
        /\ v # NoVulnerability
        BY <1>6 DEF NextVulnerability, v
  <2>2. v \in Vulnerabilities /\ Summary(v) \in Summaries
        BY <1>5, <2>1 DEF Summary, Summaries
  <2>3. first \in Reports /\ second \in Reports
        BY <1>1, <2>2 DEF Reports
  <2>4. /\ second.pc = "searching" /\ second.at = v /\ second.list = list
        /\ second.settled = build[b].settled
        BY <1>1, <2>2, <2>3 DEF Reports, list
  <2> HIDE DEF second
  <2>5. /\ r \in Reports /\ r.pc = "searching" /\ r.at = v /\ r.list = list
        /\ r.settled = build[b].settled /\ r.summary \in Summaries
        BY <2>2, <2>3, <2>4 DEF Reports
  <2> HIDE DEF r
  <2>6. build'[b] = r
        BY <2>1 DEF VulnInv
  <2>7. ReportIsSound(b)'
    <3>1. ASSUME NEW w \in list, w < v PROVE w \in build[b].settled
      <4>1. w \in Nat /\ v \in Nat
            BY <1>2, <2>2, VulnAssumption
      <4> QED
          BY <1>5, <3>1, <4>1
    <3> QED
        BY <2>1, <2>5, <2>6, <3>1 DEF ReportIsSound
  <2>8. \A s \in Summaries : SummaryIsBounded(s)'
        BY <2>1, <2>5, FewerCreate
  <2> QED
      BY <2>1, <2>5, <2>7, <2>8, BuildStep DEF VulnInv
<1>7. CASE TicketsDone(b)
  <2> DEFINE r == [build[b] EXCEPT !.pc = "checking"]
  <2>1. /\ build' = [build EXCEPT ![b] = r] /\ UNCHANGED <<policy, tickets>>
        /\ v # NoVulnerability => IsIgnored(v)
        BY <1>7 DEF TicketsDone, v, VulnInv
  <2>2. /\ r \in Reports /\ r.pc = "checking" /\ r.list = list
        /\ r.settled = build[b].settled
        BY <1>1 DEF Reports, list
  <2> HIDE DEF r
  <2>3. build'[b] = r
        BY <2>1 DEF VulnInv
  <2>4. ReportIsSound(b)'
    <3>1. ASSUME NEW w \in list \ build[b].settled
          PROVE  \E u \in list : u <= w /\ HasIgnorePolicy(u)'
          BY <1>5, <2>1, <3>1 DEF IsIgnored, HasIgnorePolicy
    <3> QED
        BY <2>2, <2>3, <3>1 DEF ReportIsSound
  <2>5. \A s \in Summaries : SummaryIsBounded(s)'
        BY <2>1, <2>2, FewerCreate
  <2> QED
      BY <2>1, <2>2, <2>4, <2>5, BuildStep DEF VulnInv
<1> QED
    BY <1>6, <1>7

(* A build whose ticket is there goes on with the next one.                  *)
LEMMA SettlesOne ==
  ASSUME VulnInv, NEW b \in Builds, build[b].pc \in {"searching", "creating"},
         build' = [build EXCEPT ![b] =
                     [build[b] EXCEPT !.pc = "next", !.settled = @ \cup {build[b].at}]]
  PROVE  \E r \in Reports : /\ build' = [build EXCEPT ![b] = r] /\ r.pc = "next"
                            /\ ReportIsSound(b)'
<1> DEFINE first == [build[b] EXCEPT !.pc = "next"]
           now == build[b].settled \cup {build[b].at}
           r == [first EXCEPT !.settled = now]
<1>1. /\ build[b] \in Reports /\ build[b].at \in Vulnerabilities
      /\ build[b].settled \subseteq Vulnerabilities
      /\ build[b].list \subseteq Vulnerabilities
      /\ \A v \in build[b].list : v < build[b].at => v \in build[b].settled
      BY DEF VulnInv, ReportIsSound, Reports
<1>2. first \in Reports /\ first.pc = "next" /\ first.list = build[b].list
      /\ first.at = build[b].at /\ first.settled = build[b].settled
      BY <1>1 DEF Reports
<1>3. build' = [build EXCEPT ![b] = r]
      OBVIOUS
<1>4. now \in SUBSET Vulnerabilities
      BY <1>1
<1> HIDE DEF first, now
<1>5. r \in Reports /\ r.pc = "next" /\ r.list = build[b].list /\ r.at = build[b].at
      /\ r.settled = now
      BY <1>2, <1>4 DEF Reports
<1> HIDE DEF r
<1>6. build'[b] = r
      BY <1>3 DEF VulnInv
<1>7. ASSUME NEW v \in build[b].list, v <= build[b].at PROVE v \in now
  <2>1. v \in Nat /\ build[b].at \in Nat
        BY <1>1, VulnAssumption
  <2> QED
      BY <1>1, <1>7, <2>1 DEF now
<1>8. ReportIsSound(b)'
      BY <1>5, <1>6, <1>7 DEF ReportIsSound
<1> QED
    BY <1>3, <1>5, <1>8

LEMMA SearchedKeeps == ASSUME VulnInv, NEW b \in Builds, Searched(b) PROVE VulnInv'
<1>1. /\ build[b].pc = "searching" /\ UNCHANGED <<policy, tickets>>
      BY DEF Searched
<1>2. CASE Found(build[b].summary)
  <2>1. build' = [build EXCEPT ![b] =
                    [build[b] EXCEPT !.pc = "next", !.settled = @ \cup {build[b].at}]]
        BY <1>2 DEF Searched
  <2>2. PICK r \in Reports : /\ build' = [build EXCEPT ![b] = r] /\ r.pc = "next"
                             /\ ReportIsSound(b)'
        BY <1>1, <2>1, SettlesOne
  <2>3. \A s \in Summaries : SummaryIsBounded(s)'
        BY <1>1, <2>2, FewerCreate
  <2> QED
      BY <1>1, <2>2, <2>3, BuildStep DEF VulnInv
<1>3. CASE ~Found(build[b].summary)
  <2> DEFINE r == [build[b] EXCEPT !.pc = "creating"]
  <2>1. build' = [build EXCEPT ![b] = r]
        BY <1>3 DEF Searched, VulnInv
  <2>2. /\ r \in Reports /\ r.pc = "creating" /\ r.list = build[b].list
        /\ r.at = build[b].at /\ r.summary = build[b].summary /\ r.settled = build[b].settled
        BY DEF VulnInv, Reports
  <2> HIDE DEF r
  <2>3. build'[b] = r /\ \A c \in Builds \ {b} : build'[c] = build[c]
        BY <2>1 DEF VulnInv
  <2>4. ReportIsSound(b)'
        BY <1>1, <2>2, <2>3 DEF VulnInv, ReportIsSound
  <2>5. ASSUME NEW s \in Summaries PROVE SummaryIsBounded(s)'
    <3>1. CASE s = build[b].summary
      <4>1. tickets[s] = 0
            BY <1>3, <3>1 DEF Found, VulnInv
      <4>2. CreatingOf(s)' \subseteq Builds
            BY DEF CreatingOf
      <4>3. Cardinality(CreatingOf(s)') <= Cardinality(Builds) /\ Cardinality(CreatingOf(s)') \in Nat
            BY <4>2, VulnAssumption, FS_Subset, FS_CardinalityType
      <4> QED
          BY <1>1, <4>1, <4>3 DEF SummaryIsBounded
    <3>2. CASE s # build[b].summary
      <4>1. CreatingOf(s)' = CreatingOf(s)
            BY <1>1, <2>2, <2>3, <3>2 DEF CreatingOf
      <4> QED
          BY <1>1, <4>1 DEF VulnInv, SummaryIsBounded
    <3> QED
        BY <3>1, <3>2
  <2> QED
      BY <1>1, <2>1, <2>2, <2>4, <2>5, BuildStep DEF VulnInv
<1> QED
    BY <1>2, <1>3

LEMMA CreatedKeeps == ASSUME VulnInv, NEW b \in Builds, Created(b) PROVE VulnInv'
<1> DEFINE t == build[b].summary
<1>1. /\ build[b].pc = "creating" /\ policy' = policy
      /\ tickets' = [tickets EXCEPT ![t] = tickets[t] + 1]
      BY DEF Created
<1>2. t \in Summaries
      BY <1>1 DEF VulnInv, ReportIsSound
<1>3. /\ tickets' \in [Summaries -> Nat] /\ tickets'[t] = tickets[t] + 1 /\ tickets[t] \in Nat
      /\ \A s \in Summaries \ {t} : tickets'[s] = tickets[s]
      BY <1>1, <1>2 DEF VulnInv
<1>4. PICK r \in Reports : /\ build' = [build EXCEPT ![b] = r] /\ r.pc # "creating"
                           /\ ReportIsSound(b)'
  <2>1. CASE build' = [build EXCEPT ![b] =
                         [build[b] EXCEPT !.pc = "next", !.settled = @ \cup {build[b].at}]]
        BY <1>1, <2>1, SettlesOne
  <2>2. CASE build' = [build EXCEPT ![b].pc = "failed"]
    <3> DEFINE q == [build[b] EXCEPT !.pc = "failed"]
    <3>1. build' = [build EXCEPT ![b] = q]
          BY <2>2 DEF VulnInv
    <3>2. q \in Reports /\ q.pc = "failed"
          BY DEF VulnInv, Reports
    <3> HIDE DEF q
    <3>3. build'[b] = q
          BY <3>1 DEF VulnInv
    <3>4. ReportIsSound(b)'
          BY <3>2, <3>3 DEF ReportIsSound
    <3> QED
        BY <3>1, <3>2, <3>4
  <2> QED
      BY <2>1, <2>2 DEF Created
<1>5. build'[b] = r /\ \A c \in Builds \ {b} : build'[c] = build[c]
      BY <1>4 DEF VulnInv
<1>6. ASSUME NEW s \in Summaries PROVE SummaryIsBounded(s)'
  <2>1. CASE s = t
    <3>1. CreatingOf(s)' = CreatingOf(s) \ {b} /\ b \in CreatingOf(s)
          BY <1>1, <1>4, <1>5, <2>1 DEF CreatingOf
    <3>2. Cardinality(CreatingOf(s)') = Cardinality(CreatingOf(s)) - 1
          BY <3>1, CreatingIsFinite, FS_RemoveElement
    <3> QED
        BY <1>3, <2>1, <3>2, CreatingIsFinite DEF VulnInv, SummaryIsBounded
  <2>2. CASE s # t
    <3>1. CreatingOf(s)' = CreatingOf(s)
          BY <1>1, <1>4, <1>5, <2>2 DEF CreatingOf
    <3> QED
        BY <1>3, <2>2, <3>1 DEF VulnInv, SummaryIsBounded
  <2> QED
      BY <2>1, <2>2
<1> QED
    BY <1>1, <1>3, <1>4, <1>6, BuildStep

LEMMA ReportsEnd == ASSUME VulnInv, NEW b \in Builds, Refused(b) \/ Checked(b) PROVE VulnInv'
<1>1. UNCHANGED <<policy, tickets>>
      BY DEF Refused, Checked
<1>2. PICK p \in {"done", "failed"} :
        build' = [build EXCEPT ![b].pc = p] /\ (p = "done" => build[b].pc = "checking")
      BY DEF Refused, Checked
<1> DEFINE r == [build[b] EXCEPT !.pc = p]
<1>3. build' = [build EXCEPT ![b] = r]
      BY <1>2 DEF VulnInv
<1>4. r \in Reports /\ r.pc = p /\ r.list = build[b].list /\ r.settled = build[b].settled
      BY DEF VulnInv, Reports
<1> HIDE DEF r
<1>5. build'[b] = r
      BY <1>3 DEF VulnInv
<1>6. ReportIsSound(b)'
      BY <1>1, <1>2, <1>4, <1>5 DEF VulnInv, ReportIsSound, HasIgnorePolicy
<1>7. \A s \in Summaries : SummaryIsBounded(s)'
      BY <1>1, <1>3, <1>4, FewerCreate
<1> QED
    BY <1>1, <1>3, <1>4, <1>6, <1>7, BuildStep DEF VulnInv

LEMMA OthersKeep ==
  ASSUME VulnInv,
         \/ \E v \in Vulnerabilities \ Licenses : PolicyExpires(v)
         \/ \E s \in Summaries : ResolveTicket(s)
  PROVE  VulnInv'
<1>1. UNCHANGED <<policy, build>>
      BY DEF PolicyExpires, ResolveTicket
<1>2. tickets' \in [Summaries -> Nat] /\ \A s \in Summaries : tickets'[s] <= tickets[s]
  <2>1. ASSUME NEW s \in Summaries, ResolveTicket(s)
        PROVE  tickets' \in [Summaries -> Nat] /\ \A t \in Summaries : tickets'[t] <= tickets[t]
    <3>1. tickets[s] \in Nat /\ tickets[s] > 0 /\ tickets' = [tickets EXCEPT ![s] = tickets[s] - 1]
          BY <2>1 DEF ResolveTicket, VulnInv
    <3>2. tickets[s] - 1 \in Nat /\ tickets[s] - 1 <= tickets[s]
          BY <3>1
    <3> QED
        BY <3>1, <3>2 DEF VulnInv
  <2> QED
      BY <2>1 DEF PolicyExpires, VulnInv
<1>3. ASSUME NEW s \in Summaries PROVE SummaryIsBounded(s)'
  <2>1. CreatingOf(s)' = CreatingOf(s)
        BY <1>1 DEF CreatingOf
  <2> QED
      BY <1>2, <2>1, CreatingIsFinite DEF VulnInv, SummaryIsBounded
<1>4. \A b \in Builds : ReportIsSound(b)'
      BY <1>1 DEF VulnInv, ReportIsSound, HasIgnorePolicy
<1> QED
    BY <1>1, <1>2, <1>3, <1>4 DEF VulnInv

LEMMA VulnInvHolds == VulnSpec => []VulnInv
<1>1. VulnInv /\ [VulnNext]_vulnVars => VulnInv'
  <2> SUFFICES ASSUME VulnInv, [VulnNext]_vulnVars PROVE VulnInv'
      OBVIOUS
  <2>1. CASE UNCHANGED vulnVars
        BY <2>1 DEF vulnVars, VulnInv, SummaryIsBounded, CreatingOf, ReportIsSound,
                    HasIgnorePolicy
  <2> QED
      BY <2>1, ReportsStart, ReportsGoOn, SearchedKeeps, CreatedKeeps, ReportsEnd, OthersKeep
      DEF VulnNext
<1> QED
    BY <1>1, VulnInvInit, PTL DEF VulnSpec

(* There are at most as many tickets of one summary as builds, and a report *)
(* that ends has one for all it lists before the first it ignores, for any  *)
(* builds and vulnerabilities (sbom-tools).                                 *)
THEOREM Ticketed == VulnSpec => []TicketsMatch
<1>1. VulnInv => TicketsMatch
  <2> SUFFICES ASSUME VulnInv PROVE TicketsMatch
      OBVIOUS
  <2>1. ASSUME NEW s \in Summaries PROVE tickets[s] <= Cardinality(Builds)
        BY CreatingIsFinite DEF VulnInv, SummaryIsBounded
  <2>2. ListedHaveTickets
        BY DEF VulnInv, ReportIsSound, ListedHaveTickets
  <2> QED
      BY <2>1, <2>2 DEF TicketsMatch, TicketsAreBounded
<1> QED
    BY <1>1, VulnInvHolds, PTL

-----------------------------------------------------------------------------
(* Signing.  A job that met neither a fault nor another job is the only one *)
(* that is under way, and everything it needs is there.                     *)

SigningTypes ==
  /\ step \in [Jobs -> {"idle", "script", "upload", "run", "download", "downloading",
                      "remove"} \cup Over]
  /\ connected \subseteq Remote /\ unharmed \subseteq Jobs
  /\ copy \in [Jobs -> {"absent", "partial", "original", "signed"}]
  /\ artifact \in [Jobs -> {"absent", "partial", "original", "torn", "signed"}]
  /\ process \in [Jobs -> {"none", "prepared", "signed", "failed", "skipped"}]

\* A job that signs here runs the script and no more.
LocalCourse(j) ==
  j \notin Remote =>
    /\ step[j] \in {"idle", "run"} \cup Over /\ process[j] # "skipped"
    /\ process[j] = "signed" => artifact[j] = "signed"
    /\ step[j] = "resolved" => artifact[j] = "signed"

\* A signature that is being downloaded, or has been, is on the server and stays.
RemoteEnd(j) ==
  /\ j \in Remote /\ step[j] = "resolved" => copy[j] = "absent" /\ j \in closed \ connected
  /\ j \in Remote \cap Detached /\ (step[j] = "downloading" \/ artifact[j] = "signed") =>
       j \in signatures

\* What docker has signed is there to be downloaded.
HasSigned(j) ==
  IF j \in Detached THEN j \in signatures /\ copy[j] # "absent" ELSE copy[j] = "signed"

Alone(j) == Active(j) => \A k \in Jobs \ {j} : ~Active(k)

\* Where a job that is unharmed can be.
Course(j) ==
  /\ step[j] # "idle"
  /\ step[j] \in Over => step[j] = "resolved" /\ artifact[j] = "signed"
  /\ step[j] # "run" => process[j] = "none"
  /\ process[j] \in {"none", "prepared", "signed"}
  /\ process[j] = "prepared" => PlaceOf(j) \in prepared
  /\ j \in Remote /\ step[j] \notin Over =>
       /\ j \in connected
       /\ step[j] # "script" => script = "whole"
       /\ step[j] = "run" => copy[j] \in {"original", "signed"}
       /\ process[j] = "signed" \/ step[j] \in {"download", "downloading", "remove"} =>
            HasSigned(j)
       /\ step[j] = "remove" => artifact[j] = "signed"

SigningInv ==
  /\ SigningTypes
  /\ \A j \in Jobs : /\ step[j] = "idle" => process[j] = "none"
                     /\ LocalCourse(j) /\ RemoteEnd(j)
  /\ \A j \in unharmed : Alone(j) /\ Course(j)

LEMMA SigningInvInit == SigningInit => SigningInv
  BY DEF SigningInit, SigningInv, SigningTypes, LocalCourse, RemoteEnd, Over

(* A job that is over stays as it is, whatever the others do.                *)
LEMMA OverStays ==
  ASSUME NEW j \in unharmed, Course(j), ~Active(j),
         step'[j] = step[j], process'[j] = process[j], artifact'[j] = artifact[j]
  PROVE  Alone(j)' /\ Course(j)'
<1>1. step[j] \in Over /\ process[j] = "none"
      BY DEF Active, Course
<1>2. ~Active(j)'
      BY <1>1 DEF Active
<1> QED
    BY <1>1, <1>2 DEF Alone, Course, Over

(* A step of job k, which is under way: what it has to show.                 *)
LEMMA StepOf ==
  ASSUME SigningInv, NEW k \in Jobs, Active(k), SigningTypes',
         unharmed' \subseteq unharmed,
         \A j \in Jobs \ {k} : /\ step'[j] = step[j] /\ process'[j] = process[j]
                               /\ artifact'[j] = artifact[j] /\ copy'[j] = copy[j]
                               /\ j \in connected' => j \in connected,
         closed \subseteq closed', signatures \subseteq signatures',
         step'[k] # "idle", LocalCourse(k)', RemoteEnd(k)',
         k \in unharmed' => Course(k)'
  PROVE  SigningInv'
<1>1. ASSUME NEW j \in Jobs \ {k}
      PROVE  /\ step'[j] = "idle" => process'[j] = "none"
             /\ LocalCourse(j)' /\ RemoteEnd(j)'
      BY <1>1 DEF SigningInv, LocalCourse, RemoteEnd
<1>2. ASSUME NEW j \in unharmed', j # k PROVE Alone(j)' /\ Course(j)'
  <2>1. j \in unharmed /\ j \in Jobs \ {k}
        BY <1>2 DEF SigningInv, SigningTypes
  <2>2. ~Active(j) /\ Course(j)
        BY <2>1 DEF SigningInv, Alone
  <2> QED
      BY <2>1, <2>2, OverStays
<1>3. ASSUME k \in unharmed' PROVE Alone(k)'
  <2>1. \A j \in Jobs \ {k} : ~Active(j)
        BY <1>3 DEF SigningInv, Alone
  <2> QED
      BY <2>1 DEF Alone, Active
<1> QED
    BY <1>1, <1>2, <1>3 DEF SigningInv

LEMMA StartKeeps == ASSUME SigningInv, NEW k \in Jobs, StartSigning(k) PROVE SigningInv'
<1>1. /\ step[k] = "idle" /\ process[k] = "none"
      /\ UNCHANGED <<closed, copy, signatures, artifact, process, prepared>>
      /\ unharmed' = IF \E j \in Jobs : Active(j) THEN {} ELSE unharmed \cup {k}
      BY DEF StartSigning, SignStep, UsesSsh, SigningInv
<1>2. /\ step' = [step EXCEPT ![k] = IF k \in Remote THEN "script" ELSE "run"]
      /\ connected' = IF k \in Remote THEN connected \cup {k} ELSE connected
      BY DEF StartSigning, SignStep, UsesSsh
<1>3. SigningTypes'
      BY <1>1, <1>2 DEF SigningInv, SigningTypes
<1>4. \A j \in Jobs \ {k} : step'[j] = step[j] /\ (j \in connected' <=> j \in connected)
      BY <1>2 DEF SigningInv, SigningTypes
<1>5. step'[k] = IF k \in Remote THEN "script" ELSE "run"
      BY <1>2 DEF SigningInv, SigningTypes
<1>6. ASSUME NEW j \in Jobs
      PROVE  /\ step'[j] = "idle" => process'[j] = "none"
             /\ LocalCourse(j)' /\ RemoteEnd(j)'
      BY <1>1, <1>4, <1>5 DEF SigningInv, LocalCourse, RemoteEnd
<1>7. ASSUME NEW j \in unharmed' PROVE Alone(j)' /\ Course(j)'
  <2>1. \A i \in Jobs : ~Active(i)
        BY <1>1, <1>7
  <2>2. CASE j = k
    <3>1. \A i \in Jobs \ {k} : ~Active(i)'
          BY <1>1, <1>4, <2>1 DEF Active
    <3> QED
        BY <1>1, <1>2, <1>5, <2>2, <3>1 DEF Alone, Course, HasSigned, Over
  <2>3. CASE j # k
    <3>1. j \in unharmed /\ j \in Jobs \ {k}
          BY <1>1, <1>7, <2>3 DEF SigningInv, SigningTypes
    <3> QED
        BY <1>1, <1>4, <2>1, <3>1, OverStays DEF SigningInv
  <2> QED
      BY <2>2, <2>3
<1> QED
    BY <1>3, <1>6, <1>7 DEF SigningInv

(* What happens to a connection of others is not a job's business.           *)
LEMMA QuietKeeps ==
  ASSUME SigningInv, NEW k \in Jobs, SshFails(k) \/ ConnectionLost(k) PROVE SigningInv'
<1>1. /\ UNCHANGED <<script, copy, signatures, artifact, process, prepared>>
      /\ unharmed' \subseteq unharmed \ {k} /\ closed \subseteq closed'
      /\ \A j \in Jobs \ {k} : step'[j] = step[j] /\ (j \in connected' <=> j \in connected)
      /\ connected' \subseteq connected /\ (step' = step \/ (step[k] = "idle" /\ k \in Remote /\ step'[k] = "rejected"))
  <2>1. CASE SshFails(k)
    <3>1. k \notin unharmed
          BY <2>1 DEF SshFails, SignStep, SigningInv, Course
    <3> QED
        BY <2>1, <3>1 DEF SshFails, SignStep, SigningInv, SigningTypes
  <2>2. CASE ConnectionLost(k)
        BY <2>2 DEF ConnectionLost
  <2> QED
      BY <2>1, <2>2
<1>2. SigningTypes'
  <2>1. step' \in [Jobs -> {"idle", "script", "upload", "run", "download", "downloading",
                          "remove"} \cup Over]
        BY DEF SshFails, ConnectionLost, SignStep, SigningInv, SigningTypes, Over
  <2> QED
      BY <1>1, <2>1 DEF SigningInv, SigningTypes
<1>3. \A j \in Jobs : Active(j)' => Active(j)
      BY <1>1 DEF Active, Over
<1>4. ASSUME NEW j \in Jobs
      PROVE  /\ step'[j] = "idle" => process'[j] = "none"
             /\ LocalCourse(j)' /\ RemoteEnd(j)'
      BY <1>1 DEF SigningInv, LocalCourse, RemoteEnd
<1>5. ASSUME NEW j \in unharmed' PROVE Alone(j)' /\ Course(j)'
  <2>1. j \in unharmed /\ j \in Jobs \ {k} /\ Alone(j) /\ Course(j)
        BY <1>1, <1>5 DEF SigningInv, SigningTypes
  <2> QED
      BY <1>1, <1>3, <2>1 DEF Alone, Course, HasSigned
<1> QED
    BY <1>2, <1>4, <1>5 DEF SigningInv

LEMMA UploadsKeep ==
  ASSUME SigningInv, NEW k \in Jobs, ScriptUploaded(k) \/ Uploaded(k) PROVE SigningInv'
<1>1. /\ UNCHANGED <<connected, closed, signatures, artifact, process, prepared, unharmed>>
      /\ step[k] \in {"script", "upload"} /\ k \in connected
      BY DEF ScriptUploaded, Uploaded, SignStep, Online
<1>2. k \in Remote /\ Active(k)
      BY <1>1 DEF SigningInv, SigningTypes, Active, Over
<1>3. CASE ScriptUploaded(k)
  <2>1. /\ step[k] = "script" /\ step' = [step EXCEPT ![k] = "upload"] /\ copy' = copy
        /\ script' = ScriptSent(k)
        BY <1>3 DEF ScriptUploaded, SignStep
  <2>2. SigningTypes' /\ step'[k] = "upload"
        BY <1>1, <2>1 DEF SigningInv, SigningTypes
  <2>3. ASSUME k \in unharmed PROVE script' = "whole" /\ process[k] = "none"
        BY <1>2, <2>1, <2>3 DEF ScriptSent, SigningInv, Alone, Course, Active, Over
  <2>4. k \in unharmed' => Course(k)'
        BY <1>1, <2>2, <2>3 DEF Course, HasSigned, Over
  <2>5. \A j \in Jobs \ {k} : step'[j] = step[j]
        BY <2>1 DEF SigningInv, SigningTypes
  <2>6. LocalCourse(k)' /\ RemoteEnd(k)'
        BY <1>1, <1>2, <2>1, <2>2 DEF SigningInv, LocalCourse, RemoteEnd
  <2> QED
      BY <1>1, <1>2, <2>1, <2>2, <2>4, <2>5, <2>6, StepOf
<1>4. CASE Uploaded(k)
  <2>1. /\ step[k] = "upload" /\ step' = [step EXCEPT ![k] = "run"] /\ script' = script
        /\ copy' = [copy EXCEPT ![k] = "original"]
        BY <1>4 DEF Uploaded, SignStep
  <2>2. SigningTypes' /\ step'[k] = "run" /\ copy'[k] = "original"
        BY <1>1, <2>1 DEF SigningInv, SigningTypes
  <2>3. k \in unharmed' => Course(k)'
        BY <1>1, <1>2, <2>1, <2>2 DEF SigningInv, Course, HasSigned, Over
  <2>4. \A j \in Jobs \ {k} : step'[j] = step[j] /\ copy'[j] = copy[j]
        BY <2>1 DEF SigningInv, SigningTypes
  <2>5. LocalCourse(k)' /\ RemoteEnd(k)'
        BY <1>1, <1>2, <2>1, <2>2 DEF SigningInv, LocalCourse, RemoteEnd
  <2> QED
      BY <1>1, <1>2, <2>1, <2>2, <2>3, <2>4, <2>5, StepOf
<1> QED
    BY <1>3, <1>4

LEMMA ScriptKeeps ==
  ASSUME SigningInv, NEW k \in Jobs,
         ScriptStarts(k) \/ ScriptIsCutOff(k) \/ DockerSigns(k) \/ DockerFails(k)
  PROVE  SigningInv'
<1>1. /\ UNCHANGED <<step, connected, closed, script>> /\ unharmed' \subseteq unharmed
      /\ step[k] = "run" \/ process[k] # "none"
      BY DEF ScriptStarts, ScriptIsCutOff, DockerSigns, DockerFails
<1>2. Active(k) /\ step[k] # "idle"
      BY <1>1 DEF SigningInv, Active, Over
<1>3. CASE ScriptStarts(k)
  <2>1. /\ step[k] = "run" /\ process' = [process EXCEPT ![k] = "prepared"]
        /\ prepared' = prepared \cup {PlaceOf(k)}
        /\ UNCHANGED <<copy, signatures, artifact, unharmed>>
        BY <1>3 DEF ScriptStarts
  <2>2. /\ SigningTypes' /\ process'[k] = "prepared"
        /\ \A j \in Jobs \ {k} : process'[j] = process[j]
        BY <1>1, <2>1 DEF SigningInv, SigningTypes
  <2>3. k \in unharmed' => Course(k)'
        BY <1>1, <2>1, <2>2 DEF SigningInv, Course, HasSigned, Over, PlaceOf
  <2>4. LocalCourse(k)' /\ RemoteEnd(k)'
        BY <1>1, <2>1, <2>2 DEF SigningInv, LocalCourse, RemoteEnd
  <2> QED
      BY <1>1, <1>2, <2>1, <2>2, <2>3, <2>4, StepOf
<1>4. CASE ScriptIsCutOff(k)
  <2>1. /\ k \in Remote /\ script = "partial" /\ (step[k] = "run" \/ process[k] = "prepared")
        /\ process' = [process EXCEPT ![k] = "skipped"]
        /\ UNCHANGED <<copy, signatures, artifact, unharmed>>
        BY <1>4 DEF ScriptIsCutOff
  <2>2. /\ SigningTypes' /\ \A j \in Jobs \ {k} : process'[j] = process[j]
        BY <1>1, <2>1 DEF SigningInv, SigningTypes
  <2>3. k \notin unharmed
        BY <2>1 DEF SigningInv, Course, HasSigned, Over
  <2>4. LocalCourse(k)' /\ RemoteEnd(k)'
        BY <1>1, <2>1 DEF SigningInv, LocalCourse, RemoteEnd
  <2> QED
      BY <1>1, <1>2, <2>1, <2>2, <2>3, <2>4, StepOf
<1>5. CASE DockerSigns(k)
  <2>1. /\ process[k] = "prepared" /\ process' = [process EXCEPT ![k] = "signed"]
        /\ UNCHANGED <<prepared, unharmed>>
        /\ IF k \in Remote
           THEN /\ copy[k] # "absent" /\ artifact' = artifact
                /\ IF k \in Detached
                   THEN signatures' = signatures \cup {k} /\ copy' = copy
                   ELSE copy' = [copy EXCEPT ![k] = "signed"] /\ signatures' = signatures
           ELSE /\ artifact' = [artifact EXCEPT ![k] = "signed"]
                /\ UNCHANGED <<copy, signatures>>
        BY <1>5 DEF DockerSigns
  <2>2. /\ SigningTypes' /\ process'[k] = "signed"
        /\ \A j \in Jobs \ {k} : /\ process'[j] = process[j] /\ artifact'[j] = artifact[j]
                                 /\ copy'[j] = copy[j]
        /\ signatures \subseteq signatures'
        /\ IF k \in Remote
           THEN /\ artifact'[k] = artifact[k]
                /\ IF k \in Detached THEN k \in signatures' /\ copy'[k] = copy[k]
                   ELSE copy'[k] = "signed"
           ELSE artifact'[k] = "signed" /\ copy' = copy
        BY <1>1, <2>1 DEF SigningInv, SigningTypes
  <2>3. k \in unharmed' => Course(k)'
        BY <1>1, <2>1, <2>2 DEF SigningInv, Course, HasSigned, Over
  <2>4. LocalCourse(k)' /\ RemoteEnd(k)'
        BY <1>1, <2>1, <2>2 DEF SigningInv, LocalCourse, RemoteEnd
  <2> QED
      BY <1>1, <1>2, <2>1, <2>2, <2>3, <2>4, StepOf
<1>6. CASE DockerFails(k)
  <2>1. /\ process[k] = "prepared" /\ process' = [process EXCEPT ![k] = "failed"]
        /\ unharmed' = IF PlaceOf(k) \in prepared THEN unharmed \ {k} ELSE unharmed
        /\ UNCHANGED <<copy, signatures, artifact, prepared>>
        BY <1>6 DEF DockerFails
  <2>2. /\ SigningTypes' /\ process'[k] = "failed"
        /\ \A j \in Jobs \ {k} : process'[j] = process[j]
        BY <1>1, <2>1 DEF SigningInv, SigningTypes
  <2>3. k \notin unharmed'
        BY <2>1 DEF SigningInv, Course
  <2>4. LocalCourse(k)' /\ RemoteEnd(k)'
        BY <1>1, <2>1, <2>2 DEF SigningInv, LocalCourse, RemoteEnd
  <2> QED
      BY <1>1, <1>2, <2>1, <2>2, <2>3, <2>4, StepOf
<1> QED
    BY <1>3, <1>4, <1>5, <1>6

LEMMA ScriptEndsKeeps == ASSUME SigningInv, NEW k \in Jobs, ScriptEnds(k) PROVE SigningInv'
<1> DEFINE next == CASE k \notin Remote -> IF Successful(process[k]) THEN "resolved" ELSE "rejected"
                     [] Online(k) /\ Successful(process[k]) -> "download"
                     [] OTHER -> "remove"
<1>1. /\ process[k] \in {"signed", "failed", "skipped"}
      /\ process' = [process EXCEPT ![k] = "none"]
      /\ step' = IF step[k] # "run" THEN step ELSE [step EXCEPT ![k] = next]
      /\ UNCHANGED <<connected, closed, script, copy, signatures, artifact, unharmed>>
      BY DEF ScriptEnds
<1>2. Active(k) /\ step[k] # "idle"
      BY <1>1 DEF SigningInv, Active
<1>3. /\ k \notin Remote => next = IF process[k] # "failed" THEN "resolved" ELSE "rejected"
      /\ k \in Remote /\ k \in connected /\ process[k] # "failed" => next = "download"
      /\ k \in Remote => next \in {"download", "remove"}
  <2>1. CASE k \notin Remote
        BY <1>1, <2>1 DEF Successful, Online, SigningInv, SigningTypes
  <2>2. CASE k \in Remote /\ Online(k) /\ Successful(process[k])
        BY <2>2 DEF Online
  <2>3. CASE k \in Remote /\ ~(Online(k) /\ Successful(process[k]))
        BY <2>3 DEF Successful, Online
  <2> QED
      BY <2>1, <2>2, <2>3
<1> HIDE DEF next
<1>4. /\ SigningTypes' /\ process'[k] = "none"
      /\ \A j \in Jobs \ {k} : process'[j] = process[j] /\ step'[j] = step[j]
      /\ step'[k] = IF step[k] # "run" THEN step[k] ELSE next
  <2>1. next \in {"idle", "script", "upload", "run", "download", "downloading", "remove"} \cup Over
        BY <1>3 DEF Over
  <2> QED
      BY <1>1, <2>1 DEF SigningInv, SigningTypes
<1>5. step'[k] # "idle"
      BY <1>2, <1>3, <1>4
<1>6. LocalCourse(k)' /\ RemoteEnd(k)'
      BY <1>1, <1>3, <1>4 DEF SigningInv, LocalCourse, RemoteEnd, Over
<1>7. k \in unharmed' => Course(k)'
  <2> SUFFICES ASSUME k \in unharmed PROVE Course(k)'
      BY <1>1
  <2>1. process[k] = "signed" /\ step[k] = "run"
        BY <1>1 DEF SigningInv, Course
  <2>2. CASE k \in Remote
        BY <1>1, <1>3, <1>4, <2>1, <2>2 DEF SigningInv, Course, HasSigned, Over
  <2>3. CASE k \notin Remote
        BY <1>1, <1>3, <1>4, <2>1, <2>3 DEF SigningInv, Course, LocalCourse, Over
  <2> QED
      BY <2>2, <2>3
<1> QED
    BY <1>1, <1>2, <1>4, <1>5, <1>6, <1>7, StepOf

LEMMA DownloadKeeps ==
  ASSUME SigningInv, NEW k \in Jobs, DownloadStarts(k) \/ Downloaded(k) PROVE SigningInv'
<1>1. /\ UNCHANGED <<connected, closed, script, copy, signatures, process, prepared, unharmed>>
      /\ k \in connected /\ step[k] \in {"download", "downloading"}
      BY DEF DownloadStarts, Downloaded, Online, SignStep
<1>2. k \in Remote /\ Active(k)
      BY <1>1 DEF SigningInv, SigningTypes, Active, Over
<1>3. CASE DownloadStarts(k)
  <2>1. /\ step[k] = "download" /\ step' = [step EXCEPT ![k] = "downloading"]
        /\ artifact' = [artifact EXCEPT ![k] = "torn"]
        /\ k \in Detached => k \in signatures
        BY <1>3 DEF DownloadStarts, SignStep
  <2>2. /\ SigningTypes' /\ step'[k] = "downloading"
        /\ \A j \in Jobs \ {k} : step'[j] = step[j] /\ artifact'[j] = artifact[j]
        BY <1>1, <2>1 DEF SigningInv, SigningTypes
  <2>3. k \in unharmed' => Course(k)'
        BY <1>1, <2>1, <2>2 DEF SigningInv, Course, HasSigned, Over
  <2> QED
      BY <1>1, <1>2, <2>1, <2>2, <2>3, StepOf DEF LocalCourse, RemoteEnd
<1>4. CASE Downloaded(k)
  <2>1. /\ step[k] = "downloading" /\ step' = [step EXCEPT ![k] = "remove"]
        /\ artifact' = [artifact EXCEPT ![k] = OnServer(k)]
        BY <1>4 DEF Downloaded, SignStep
  <2>2. /\ SigningTypes' /\ step'[k] = "remove"
        /\ artifact'[k] = IF k \in Detached THEN "signed" ELSE copy[k]
        /\ \A j \in Jobs \ {k} : step'[j] = step[j] /\ artifact'[j] = artifact[j]
        BY <1>1, <2>1 DEF SigningInv, SigningTypes, OnServer
  <2>3. k \in unharmed' => Course(k)'
        BY <1>1, <1>2, <2>1, <2>2 DEF SigningInv, Course, HasSigned, Over
  <2>4. LocalCourse(k)' /\ RemoteEnd(k)'
        BY <1>1, <1>2, <2>1, <2>2 DEF SigningInv, LocalCourse, RemoteEnd
  <2> QED
      BY <1>1, <1>2, <2>1, <2>2, <2>3, <2>4, StepOf
<1> QED
    BY <1>3, <1>4

LEMMA EndsKeep ==
  ASSUME SigningInv, NEW k \in Jobs, StepFails(k) \/ Removed(k) PROVE SigningInv'
<1>1. CASE StepFails(k)
  <2>1. /\ step[k] \in {"script", "upload", "run", "download", "downloading"} /\ k \in Remote
        /\ step' = [step EXCEPT ![k] = "remove"] /\ unharmed' = unharmed \ {k}
        /\ UNCHANGED <<connected, closed, script, signatures, artifact, process, prepared>>
        BY <1>1 DEF StepFails
  <2>2. PICK left \in IF step[k] = "upload" THEN {"absent", "partial"} ELSE {copy[k]} :
               copy' = [copy EXCEPT ![k] = left]
        BY <1>1 DEF StepFails
  <2>3. left \in {"absent", "partial", "original", "signed"}
        BY <2>2 DEF SigningInv, SigningTypes
  <2>4. /\ SigningTypes' /\ step'[k] = "remove"
        /\ \A j \in Jobs \ {k} : step'[j] = step[j] /\ copy'[j] = copy[j]
        BY <2>1, <2>2, <2>3 DEF SigningInv, SigningTypes
  <2>5. Active(k)
        BY <2>1 DEF Active, Over
  <2>6. LocalCourse(k)' /\ RemoteEnd(k)'
        BY <2>1, <2>4 DEF SigningInv, LocalCourse, RemoteEnd
  <2> QED
      BY <2>1, <2>4, <2>5, <2>6, StepOf
<1>2. CASE Removed(k)
  <2>1. /\ step[k] = "remove" /\ step' = [step EXCEPT ![k] = Outcome(k)]
        /\ UNCHANGED <<script, signatures, artifact, process, prepared, unharmed>>
        BY <1>2 DEF Removed
  <2>2. Active(k) /\ k \in Remote
        BY <2>1 DEF SigningInv, LocalCourse, Active, Over
  <2>3. CASE k \in connected /\ copy[k] # "absent"
    <3>1. /\ Outcome(k) = "resolved" /\ copy' = [copy EXCEPT ![k] = "absent"]
          /\ connected' = connected \ {k} /\ closed' = closed \cup {k}
          BY <1>2, <2>3 DEF Removed, Outcome, Online
    <3>2. /\ SigningTypes' /\ step'[k] = "resolved" /\ copy'[k] = "absent"
          /\ \A j \in Jobs \ {k} : step'[j] = step[j] /\ copy'[j] = copy[j]
          BY <2>1, <3>1 DEF SigningInv, SigningTypes, Over
    <3>3. k \in unharmed' => Course(k)'
          BY <2>1, <2>2, <3>2 DEF SigningInv, Course, HasSigned, Over
    <3>4. LocalCourse(k)' /\ RemoteEnd(k)'
          BY <2>1, <2>2, <3>1, <3>2 DEF SigningInv, LocalCourse, RemoteEnd
    <3> QED
        BY <2>1, <2>2, <3>1, <3>2, <3>3, <3>4, StepOf
  <2>4. CASE ~(k \in connected /\ copy[k] # "absent")
    <3>1. Outcome(k) = "rejected" /\ UNCHANGED <<copy, connected, closed>>
          BY <1>2, <2>4 DEF Removed, Outcome, Online
    <3>2. /\ SigningTypes' /\ step'[k] = "rejected"
          /\ \A j \in Jobs \ {k} : step'[j] = step[j]
          BY <2>1, <3>1 DEF SigningInv, SigningTypes, Over
    <3>3. k \notin unharmed
          BY <2>1, <2>2, <2>4 DEF SigningInv, Course, HasSigned, Over
    <3>4. LocalCourse(k)' /\ RemoteEnd(k)'
          BY <2>1, <2>2, <3>1, <3>2 DEF SigningInv, LocalCourse, RemoteEnd
    <3> QED
        BY <2>1, <2>2, <3>1, <3>2, <3>3, <3>4, StepOf
  <2> QED
      BY <2>3, <2>4
<1> QED
    BY <1>1, <1>2

LEMMA SigningInvHolds == SigningSpec => []SigningInv
<1>1. SigningInv /\ [SigningNext]_signingVars => SigningInv'
  <2> SUFFICES ASSUME SigningInv, [SigningNext]_signingVars PROVE SigningInv'
      OBVIOUS
  <2>1. CASE UNCHANGED signingVars
        BY <2>1 DEF signingVars, SigningInv, SigningTypes, LocalCourse, RemoteEnd, Alone,
                    Active, Course, HasSigned
  <2> QED
      BY <2>1, StartKeeps, QuietKeeps, UploadsKeep, ScriptKeeps, ScriptEndsKeeps,
         DownloadKeeps, EndsKeep DEF SigningNext
<1> QED
    BY <1>1, SigningInvInit, PTL DEF SigningSpec

(* What sign() leaves behind, for any number of jobs on the server and      *)
(* here (signing-utils).                                                    *)
THEOREM SignedAndTidy == SigningSpec => []SigningIsSound
<1>1. SigningInv => SigningIsSound
      BY SigningAssumption
      DEF SigningInv, LocalCourse, RemoteEnd, Course, SigningIsSound, ResolvedIsTidy,
          SignaturesStay, LocalIsSigned, UnharmedIsSigned
<1> QED
    BY <1>1, SigningInvHolds, PTL
=============================================================================
