------------------------------ MODULE LogWriter ------------------------------
(* mongodb-log-writer: createLogWriter() opens a file, possibly behind a gzip  *)
(* stream, and returns a MongoLogWriter, a Writable of its own that hands one  *)
(* formatted entry at a time to that target.                                   *)
EXTENDS Naturals, FiniteSets, SequencesExt

CONSTANTS
  MaxEntries,  \* bound: entries that are logged, numbered in this order
  Flushes      \* calls of flush()

LogEntries == 1..MaxEntries

ASSUME WriterAssumption == MaxEntries \in Nat /\ Flushes \cap LogEntries = {}

VARIABLES
  gzip,     \* the option
  invalid,  \* the entries that lack a field
  logFile,  \* "no", "file", or "null" when the file could not be opened
  logged,   \* the number of entries that were logged
  buffer,   \* entries and flushes that the target has not got yet
  inGzip,   \* the entries that the gzip stream holds
  inFile,   \* the entries in the file
  over,     \* did an invalid entry destroy the writer?
  ending,   \* how far end() has got: "no", "called", "target" or "finished"
  flushed,  \* where each flush() is
  ahead     \* ghost: the entries logged before each flush()

writerVars == <<gzip, invalid, logFile, logged, buffer, inGzip, inFile, over,
                ending, flushed, ahead>>

WriterInit ==
  /\ gzip \in BOOLEAN /\ invalid \in {{}} \cup {{e} : e \in LogEntries}
  /\ logFile = "no" /\ logged = 0 /\ buffer = <<>>
  /\ inGzip = <<>> /\ inFile = <<>> /\ over = FALSE /\ ending = "no"
  /\ flushed = [f \in Flushes |-> "no"] /\ ahead = [f \in Flushes |-> 0]

-----------------------------------------------------------------------------
(* createLogWriter(), and calls of the writer.                                 *)

Opens ==
  /\ logFile = "no" /\ logFile' \in {"file", "null"}
  /\ UNCHANGED <<gzip, invalid, logged, buffer, inGzip, inFile, over, ending,
                 flushed, ahead>>

Usable == logFile # "no" /\ ending = "no"

\* What is written to a destroyed writer is lost.
Log ==
  /\ Usable /\ logged < MaxEntries /\ logged' = logged + 1
  /\ buffer' = IF over THEN buffer ELSE Append(buffer, logged + 1)
  /\ UNCHANGED <<gzip, invalid, logFile, inGzip, inFile, over, ending, flushed, ahead>>

\* flush() waits for its turn in the buffer, and does not look at errors.
Flush(f) ==
  /\ Usable /\ flushed[f] = "no"
  /\ flushed' = [flushed EXCEPT ![f] = IF over THEN "resolved" ELSE "waiting"]
  /\ buffer' = IF over THEN buffer ELSE Append(buffer, f)
  /\ ahead' = [ahead EXCEPT ![f] = logged]
  /\ UNCHANGED <<gzip, invalid, logFile, logged, inGzip, inFile, over, ending>>

End ==
  /\ Usable /\ ~over /\ ending' = "called"
  /\ UNCHANGED <<gzip, invalid, logFile, logged, buffer, inGzip, inFile, over,
                 flushed, ahead>>

-----------------------------------------------------------------------------
(* _write(): the next item of the buffer.                                      *)

Resolved(S) == [f \in Flushes |-> IF f \in S THEN "resolved" ELSE flushed[f]]

\* Deviation: an invalid entry is left out.
LeftOut(e) == FALSE

Destroys(e) == e \in invalid

\* validateLogEntry(): the error destroys the writer, and everything behind the
\* entry is over with it.
Rejects ==
  /\ buffer # <<>> /\ Destroys(Head(buffer))
  /\ over' = TRUE /\ buffer' = <<>>
  /\ flushed' = Resolved(ToSet(buffer) \cap Flushes)
  /\ UNCHANGED <<gzip, invalid, logFile, logged, inGzip, inFile, ending, ahead>>

\* The target takes the item and calls back: a file when it has written it, gzip
\* when it has compressed it.
Hands ==
  /\ buffer # <<>> /\ ~Destroys(Head(buffer))
  /\ buffer' = Tail(buffer)
  /\ LET item == Head(buffer) IN
     IF item \in Flushes
     THEN flushed' = Resolved({item}) /\ UNCHANGED <<inGzip, inFile>>
     ELSE /\ inGzip' = IF logFile = "file" /\ gzip THEN Append(inGzip, item) ELSE inGzip
          /\ inFile' = IF logFile = "file" /\ ~gzip THEN Append(inFile, item) ELSE inFile
          /\ UNCHANGED flushed
  /\ UNCHANGED <<gzip, invalid, logFile, logged, over, ending, ahead>>

\* stream.pipe(originalTarget)
Drains ==
  /\ inGzip # <<>> /\ inGzip' = Tail(inGzip) /\ inFile' = Append(inFile, Head(inGzip))
  /\ UNCHANGED <<gzip, invalid, logFile, logged, buffer, over, ending, flushed, ahead>>

\* _final(), when nothing is left in the buffer.
Final ==
  /\ ending = "called" /\ buffer = <<>> /\ ~over /\ ending' = "target"
  /\ UNCHANGED <<gzip, invalid, logFile, logged, buffer, inGzip, inFile, over,
                 flushed, ahead>>

\* Deviation: the event is the one of the stream in front of the file.
GzipFinished == TRUE

FileFinished == inGzip = <<>>

\* originalTarget.on('finish'): log-finish.
Finishes ==
  /\ ending = "target" /\ FileFinished /\ ending' = "finished"
  /\ UNCHANGED <<gzip, invalid, logFile, logged, buffer, inGzip, inFile, over,
                 flushed, ahead>>

WriterNext ==
  \/ Opens \/ Log \/ End \/ Rejects \/ Hands \/ Drains \/ Final \/ Finishes
  \/ \E f \in Flushes : Flush(f)

WriterSpec == WriterInit /\ [][WriterNext]_writerVars

-----------------------------------------------------------------------------
(* Properties.                                                                 *)

\* The types of the variables.
WriterTypeOK ==
  /\ gzip \in BOOLEAN /\ invalid \subseteq LogEntries
  /\ logFile \in {"no", "file", "null"} /\ logged \in 0..MaxEntries
  /\ ToSet(buffer) \subseteq LogEntries \cup Flushes
  /\ {over} \subseteq BOOLEAN
  /\ ToSet(inGzip) \cup ToSet(inFile) \subseteq LogEntries
  /\ ending \in {"no", "called", "target", "finished"}
  /\ flushed \in [Flushes -> {"no", "waiting", "resolved"}]
  /\ ahead \in [Flushes -> 0..MaxEntries]

FirstEntries(n) == [i \in 1..n |-> i]

\* The file has the first entries that were logged, in their order, whenever the
\* process may be killed.  When flush() is over, its stream has all that were
\* logged before, and at the event log-finish the file has all there are, unless
\* an invalid entry destroyed the writer or the file could not be opened
\* (mongo-log-writer.ts:190, mongo-log-manager.ts:222).
LogIsInOrder ==
  /\ inFile \o inGzip = FirstEntries(Len(inFile) + Len(inGzip))
  /\ logFile = "file" /\ ~over =>
       /\ \A f \in Flushes : flushed[f] = "resolved" => Len(inFile) + Len(inGzip) >= ahead[f]
       /\ ending = "finished" => Len(inFile) = logged
=============================================================================
