---------------------------- MODULE VersionList ----------------------------
(* download-url: the list of versions is kept in memory by each process and   *)
(* in a file that all of them share.  A list is the time at which it was      *)
(* fetched.  An await takes no time on this scale: the clock ticks in units   *)
(* of the cache time while no call is under way.                              *)
EXTENDS Integers

CONSTANTS ListCalls,   \* calls of getFullJSON()
          Process,    \* the process each of them runs in
          Clearers,   \* the processes that also call clearCache()
          CacheTime,  \* cacheTimeMs
          MaxClock,   \* bound of the model: the clock stops
          MaxRounds,  \* bound of the model: how often each call is made
          Absent

Copies == [list : Nat, stamp : Nat]
Files == [by : ListCalls, round : Nat, list : Nat, mtime : Nat, whole : BOOLEAN]

ASSUME VersionAssumption ==
  /\ CacheTime \in Nat \ {0} /\ MaxClock \in Nat
  /\ MaxRounds \in Nat
  /\ Absent \notin Copies \cup Files
  /\ Clearers \subseteq {Process[r] : r \in ListCalls}

VARIABLES
  clock,     \* the time
  memory,    \* fullJSON of each process, with fullJSONFetchTime
  cache,     \* the cache file, with its modification time
  partial,   \* the temporary file of each process
  listCall,  \* where each call is
  tryWrite,  \* the calls with tryWriteCache
  opened,    \* the cache file that each call has opened
  result,    \* how old the list was that each call returned last
  rounds,    \* how often each call was made
  cleared,   \* the calls during which clearCache() ran in their process
  clashed,   \* did a call remove the temporary file of another of its process?
  resaved    \* was a list saved that the call had not just fetched?

files == <<cache, partial>>
ghosts == <<rounds, cleared, clashed, resaved>>
versionVars == <<clock, memory, files, listCall, tryWrite, opened, result, ghosts>>

Processes == {Process[r] : r \in ListCalls}
Mine(r) == memory[Process[r]]
CallStates ==
  {"idle", "open", "stat", "check", "fetch", "create", "write", "rename", "unlink",
   "return"}

VersionInit ==
  /\ clock = 0
  /\ memory = [p \in Processes |-> Absent]
  /\ cache = Absent
  /\ partial = [p \in Processes |-> Absent]
  /\ listCall = [r \in ListCalls |-> "idle"]
  /\ tryWrite = {}
  /\ opened = [r \in ListCalls |-> Absent]
  /\ result = [r \in ListCalls |-> [kind |-> "none", age |-> 0]]
  /\ rounds = [r \in ListCalls |-> 0]
  /\ cleared = {} /\ clashed = FALSE /\ resaved = FALSE

\* Deviations: a file of any age will do; one temporary file for everybody.
OfAnyAge(f) == TRUE
OneForAll(r) == CHOOSE p \in Processes : TRUE

UpToDate(m) == m # Absent /\ m.stamp >= clock - CacheTime
Current(f) == f.mtime >= clock - CacheTime
PartialFile(r) == Process[r]

Goto(r, pc) == listCall' = [listCall EXCEPT ![r] = pc]

\* return fullJSON!, whatever that is by then.
Return(r) ==
  /\ Goto(r, "idle")
  /\ tryWrite' = tryWrite \ {r}
  /\ result' = [result EXCEPT ![r] =
       IF Mine(r) # Absent THEN [kind |-> "list", age |-> clock - Mine(r).list]
       ELSE [kind |-> IF r \in cleared THEN "cleared" ELSE "undefined", age |-> 0]]

GetFullJSON(r) ==
  /\ listCall[r] = "idle" /\ rounds[r] < MaxRounds
  /\ rounds' = [rounds EXCEPT ![r] = @ + 1]
  /\ cleared' = cleared \ {r}
  /\ IF UpToDate(Mine(r)) THEN Return(r)
     ELSE Goto(r, "open") /\ tryWrite' = tryWrite \cup {r} /\ UNCHANGED result
  /\ UNCHANGED <<clock, memory, files, opened, clashed, resaved>>

\* The file that was opened stays the same when its name is given to another.
Open(r) ==
  /\ listCall[r] = "open"
  /\ Goto(r, IF cache = Absent THEN "check" ELSE "stat")
  /\ opened' = [opened EXCEPT ![r] = cache]
  /\ UNCHANGED <<clock, memory, files, tryWrite, result, ghosts>>

\* A file that is not whole does not decompress, unless its writer finishes it
\* meanwhile; if it is current it is not replaced either way.
Read(r) ==
  /\ listCall[r] = "stat"
  /\ Goto(r, "check")
  /\ opened' = [opened EXCEPT ![r] = Absent]
  /\ IF Current(opened[r])
     THEN /\ tryWrite' = tryWrite \ {r}
          /\ \E whole \in {opened[r].whole, TRUE} :
               memory' = IF whole THEN [memory EXCEPT ![Process[r]] =
                                          [list |-> opened[r].list, stamp |-> clock]]
                         ELSE memory
     ELSE UNCHANGED <<memory, tryWrite>>
  /\ UNCHANGED <<clock, files, result, ghosts>>

Check(r) ==
  /\ listCall[r] = "check"
  /\ IF UpToDate(Mine(r)) THEN Return(r)
     ELSE Goto(r, "fetch") /\ UNCHANGED <<tryWrite, result>>
  /\ UNCHANGED <<clock, memory, files, opened, ghosts>>

FetchList(r, ok) ==
  /\ listCall[r] = "fetch"
  /\ IF ok
     THEN /\ memory' = [memory EXCEPT ![Process[r]] =
                           [list |-> clock, stamp |-> clock]]
          /\ Goto(r, IF r \in tryWrite THEN "create" ELSE "return")
          /\ UNCHANGED tryWrite
     ELSE Goto(r, "idle") /\ tryWrite' = tryWrite \ {r} /\ UNCHANGED memory
  /\ UNCHANGED <<clock, files, opened, result, ghosts>>

\* gzip of what is in memory by then, and writeFile with the flag 'wx'.
Create(r) ==
  /\ listCall[r] = "create"
  /\ LET p == PartialFile(r)
     IN IF Mine(r) = Absent \/ partial[p] # Absent
        THEN Goto(r, "unlink") /\ UNCHANGED <<partial, resaved>>
        ELSE /\ Goto(r, "write")
             /\ partial' = [partial EXCEPT ![p] =
                  [by |-> r, round |-> rounds[r], list |-> Mine(r).list,
                   mtime |-> clock, whole |-> FALSE]]
             /\ resaved' = (resaved \/ Mine(r).list # clock)
  /\ UNCHANGED <<clock, memory, cache, tryWrite, opened, result, rounds, cleared,
                clashed>>

\* The file is completed under whatever name it has by then, if any.
Completed(f, r) ==
  IF f # Absent /\ f.by = r /\ f.round = rounds[r]
  THEN [f EXCEPT !.whole = TRUE, !.mtime = clock]
  ELSE f

Write(r, ok) ==
  /\ listCall[r] = "write"
  /\ Goto(r, IF ok THEN "rename" ELSE "unlink")
  /\ IF ok THEN /\ cache' = Completed(cache, r)
                /\ partial' = [p \in Processes |-> Completed(partial[p], r)]
     ELSE UNCHANGED files
  /\ UNCHANGED <<clock, memory, tryWrite, opened, result, ghosts>>

Rename(r) ==
  /\ listCall[r] = "rename"
  /\ LET p == PartialFile(r)
     IN IF partial[p] = Absent THEN Goto(r, "unlink") /\ UNCHANGED files
        ELSE /\ Goto(r, "return")
             /\ cache' = partial[p]
             /\ partial' = [partial EXCEPT ![p] = Absent]
  /\ UNCHANGED <<clock, memory, tryWrite, opened, result, ghosts>>

\* The catch block removes the temporary file, whoever is writing it.
Unlink(r) ==
  /\ listCall[r] = "unlink"
  /\ Goto(r, "return")
  /\ LET f == partial[PartialFile(r)]
     IN clashed' = (clashed \/ (f # Absent /\ f.by # r /\ Process[f.by] = Process[r]))
  /\ partial' = [partial EXCEPT ![PartialFile(r)] = Absent]
  /\ UNCHANGED <<clock, memory, cache, tryWrite, opened, result, rounds, cleared,
                resaved>>

Finish(r) ==
  /\ listCall[r] = "return"
  /\ Return(r)
  /\ UNCHANGED <<clock, memory, files, opened, ghosts>>

\* clearCache() in one process: the memory at once, the file if it is its own.
ClearCache(p) ==
  /\ memory' = [memory EXCEPT ![p] = Absent]
  /\ cleared' =
       cleared \cup {r \in ListCalls : Process[r] = p /\ listCall[r] # "idle"}
  /\ cache' \in {cache, Absent}
  /\ UNCHANGED <<clock, partial, listCall, tryWrite, opened, result, rounds,
                clashed, resaved>>

Tick ==
  /\ clock < MaxClock
  /\ \A r \in ListCalls : listCall[r] = "idle"
  /\ clock' = clock + 1
  /\ UNCHANGED <<memory, files, listCall, tryWrite, opened, result, ghosts>>

VersionNext ==
  \/ \E r \in ListCalls :
       \/ GetFullJSON(r) \/ Open(r) \/ Read(r) \/ Check(r) \/ Create(r) \/ Rename(r)
       \/ Unlink(r) \/ Finish(r)
       \/ \E ok \in BOOLEAN : FetchList(r, ok) \/ Write(r, ok)
  \/ \E p \in Clearers : ClearCache(p)
  \/ Tick

VersionSpec == VersionInit /\ [][VersionNext]_versionVars

-----------------------------------------------------------------------------
(* Properties.                                                                *)

\* The types of the variables.
VersionTypeOK ==
  /\ clock \in 0 .. MaxClock
  /\ memory \in [Processes -> Copies \cup {Absent}]
  /\ cache \in Files \cup {Absent}
  /\ partial \in [Processes -> Files \cup {Absent}]
  /\ listCall \in [ListCalls -> CallStates]
  /\ tryWrite \subseteq ListCalls
  /\ opened \in [ListCalls -> Files \cup {Absent}]
  /\ result \in [ListCalls ->
       [kind : {"none", "list", "cleared", "undefined"}, age : Int]]
  /\ rounds \in [ListCalls -> 0 .. MaxRounds]
  /\ cleared \subseteq ListCalls /\ clashed \in BOOLEAN /\ resaved \in BOOLEAN

\* Whatever other processes do, the cache file is whole, unless a call removed the
\* temporary file of another call of its process.
CacheIsWhole == cache # Absent => cache.whole \/ clashed

\* A list that was returned is never older than twice the cache time (once in
\* the file and once in memory), unless a list that another call had read was
\* saved as a new one; and it is there, unless the process cleared its cache
\* during the call.
ListIsFresh ==
  \A r \in ListCalls :
    /\ result[r].kind # "undefined"
    /\ result[r].age <= 2 * CacheTime \/ resaved

\* What processes tell each other through the cache is a whole list and a
\* recent one.
CacheIsSound == CacheIsWhole /\ ListIsFresh
=============================================================================
