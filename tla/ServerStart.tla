----------------------------- MODULE ServerStart -----------------------------
(* mongodb-runner: MongoServer.start() spawns a server and reads its log until *)
(* it says which port it listens on; a mongos that finds its port taken is     *)
(* started again on the next one.  The stream of log entries is piped to two   *)
(* filters, which take themselves off it when they have found what they look   *)
(* for; it pauses when it loses its last pipe.                                 *)
EXTENDS Naturals, Sequences

CONSTANTS
  LastPort,   \* the ports to be tried are 1..LastPort, then the first again
  MaxStarts,  \* bound: processes that are spawned
  MaxLines    \* bound: lines a server writes beside those about its start

ASSUME StartAssumption == LastPort \in Nat \ {0} /\ MaxStarts \in Nat /\ MaxLines \in Nat

TCPPorts == 1..LastPort

VARIABLES
  binary,       \* "mongod", which takes any port, or "mongos", which is given one
  starting,     \* where start() is
  port,         \* the port that is tried
  starts,       \* the number of attempts
  taken,        \* the ports that others listen on
  server,       \* the process of this attempt
  stdout,       \* what it has written and nobody has read
  lines,        \* the number of other lines it has written
  versionTold,  \* has it written its version?
  reading,      \* does the stream of entries go on?
  paused,       \* or does it wait for a reader?
  pipes,        \* the filters it is piped to
  info,         \* has the filter for the version seen it?
  answer,       \* what the filter for the port has seen
  errors        \* is there a failure to listen among errorLogEntries?

attempt == <<server, stdout, lines, versionTold>>
reader == <<reading, paused, pipes, info, answer, errors>>
startVars == <<binary, starting, port, starts, taken, attempt, reader>>

StartInit ==
  /\ binary \in {"mongod", "mongos"} /\ port \in TCPPorts /\ taken \in SUBSET TCPPorts
  /\ starting = "spawn" /\ starts = 0
  /\ server = "none" /\ stdout = <<>> /\ lines = 0 /\ versionTold = FALSE
  /\ reading = TRUE /\ paused = FALSE /\ pipes = {"info", "port"}
  /\ info = FALSE /\ answer = "none" /\ errors = FALSE

-----------------------------------------------------------------------------
(* The process.  A mongod writes its version before it listens; that of a      *)
(* mongos stands in a context the filter does not look at.                     *)

\* With a logDir what the server writes is to go to a file of its own as well, and is
\* not read before that file is open.
SpawnServer ==
  /\ starting = "spawn" /\ starts < MaxStarts
  /\ \E next \in {"log", "wait"} : starting' = next
  /\ starts' = starts + 1 /\ server' = "starting"
  /\ UNCHANGED <<binary, port, taken, stdout, lines, versionTold, reader>>

LogOpens ==
  /\ starting = "log" /\ starting' = "wait"
  /\ UNCHANGED <<binary, port, starts, taken, attempt, reader>>

\* logDir cannot be made, or the file in it not be opened.  That is after the spawn and
\* before the try: nobody closes the server, and nobody reads what it writes.
LogCannotOpen ==
  /\ starting = "log" /\ starting' = "abandoned"
  /\ UNCHANGED <<binary, port, starts, taken, attempt, reader>>

\* The error has no errorLogEntries, which start() of a mongos trips over.
SpawnErrors ==
  /\ starting = "spawn" /\ starting' = "failed"
  /\ UNCHANGED <<binary, port, starts, taken, attempt, reader>>

Writes(line) ==
  /\ stdout' = Append(stdout, line)
  /\ UNCHANGED <<binary, starting, port, starts, taken, reader>>

WritesVersion ==
  /\ server = "starting" /\ ~versionTold /\ versionTold' = TRUE
  /\ Writes(IF binary = "mongod" THEN "version" ELSE "line")
  /\ UNCHANGED <<server, lines>>

\* A failure is logged by the component NETWORK or by another one.
Binds ==
  /\ server = "starting" /\ versionTold
  /\ IF binary = "mongod" \/ port \notin taken
     THEN server' = "listening" /\ Writes("listening")
     ELSE server' = "exited" /\ \E line \in {"taken", "takenNetwork"} : Writes(line)
  /\ UNCHANGED <<lines, versionTold>>

WritesLine ==
  /\ server \in {"starting", "listening"} /\ lines < MaxLines
  /\ lines' = lines + 1
  /\ \E line \in {"line", "garbage"} : Writes(line)
  /\ UNCHANGED <<server, versionTold>>

Dies ==
  /\ server \in {"starting", "listening"} /\ server' = "exited"
  /\ UNCHANGED <<binary, starting, port, starts, taken, stdout, lines, versionTold, reader>>

OthersBind ==
  /\ \E p \in TCPPorts :
       /\ server = "listening" => p # port
       /\ taken' = IF p \in taken THEN taken \ {p} ELSE taken \cup {p}
  /\ UNCHANGED <<binary, starting, port, starts, attempt, reader>>

-----------------------------------------------------------------------------
(* createLogEntryIterator and what listens to its entries.                     *)

Reads == reading /\ ~paused /\ starting \notin {"log", "abandoned"}

\* A line that cannot be parsed ends the stream.
ReadLine ==
  /\ Reads /\ stdout # <<>> /\ stdout' = Tail(stdout)
  /\ LET line == Head(stdout) IN
     /\ reading' = (line # "garbage")
     /\ errors' = (errors \/ line \in {"taken", "takenNetwork"})
     /\ info' = (info \/ line = "version")
     /\ answer' = IF "port" \in pipes /\ answer = "none" /\ line \in {"listening", "takenNetwork"}
                  THEN line ELSE answer
  /\ UNCHANGED <<binary, starting, port, starts, taken, server, lines, versionTold, paused, pipes>>

StreamEnds ==
  /\ Reads /\ stdout = <<>> /\ server = "exited" /\ reading' = FALSE
  /\ UNCHANGED <<binary, starting, port, starts, taken, attempt, paused, pipes, info,
                 answer, errors>>

\* input.unpipe()
Unpipe(filter) ==
  /\ filter \in pipes /\ pipes' = pipes \ {filter}
  /\ paused' = (paused \/ pipes = {filter})

InfoFilterEnds ==
  /\ info \/ ~reading
  /\ Unpipe("info")
  /\ UNCHANGED <<binary, starting, port, starts, taken, attempt, reading, info, answer, errors>>

\* Both filters take the entries in step, the one for the version first.
PortFilterEnds ==
  /\ answer # "none" \/ ~reading
  /\ ~(info /\ "info" \in pipes)
  /\ Unpipe("port")
  /\ starting' = IF answer = "listening" THEN "found" ELSE "close"
  /\ UNCHANGED <<binary, port, starts, taken, attempt, reading, info, answer, errors>>

\* Deviation: the stream is left as it is.
StaysPaused == paused

\* logEntryStream.resume()
Resumed == FALSE

PortFound ==
  /\ starting = "found" /\ starting' = "started"
  /\ paused' = Resumed
  /\ UNCHANGED <<binary, port, starts, taken, attempt, reading, pipes, info, answer, errors>>

NextPort(p) == IF p = LastPort THEN 1 ELSE p + 1

\* Deviation: whatever the filter saw, the error counts as one of that port.
AnyError == errors

\* An error that the filter for the port threw has no errorLogEntries.
MayRetry == binary = "mongos" /\ errors /\ answer # "takenNetwork"

\* The catch block closes the server; start() goes on with the next port.
Close ==
  /\ starting = "close"
  /\ IF MayRetry
     THEN /\ starting' = "spawn" /\ port' = NextPort(port)
          /\ stdout' = <<>> /\ lines' = 0 /\ versionTold' = FALSE /\ server' = "none"
          /\ reading' = TRUE /\ paused' = FALSE /\ pipes' = {"info", "port"}
          /\ info' = FALSE /\ answer' = "none" /\ errors' = FALSE
     ELSE /\ starting' = "failed" /\ server' = "exited"
          /\ UNCHANGED <<port, stdout, lines, versionTold, reader>>
  /\ UNCHANGED <<binary, starts, taken>>

StartNext ==
  \/ SpawnServer \/ SpawnErrors \/ LogOpens \/ LogCannotOpen \/ WritesVersion \/ Binds \/ WritesLine
  \/ Dies \/ OthersBind \/ ReadLine \/ StreamEnds \/ InfoFilterEnds \/ PortFilterEnds
  \/ PortFound \/ Close

StartSpec == StartInit /\ [][StartNext]_startVars

-----------------------------------------------------------------------------
(* Properties.                                                                 *)

\* The types of the variables.
StartTypeOK ==
  /\ binary \in {"mongod", "mongos"}
  /\ starting \in {"spawn", "log", "wait", "found", "close", "started", "failed", "abandoned"}
  /\ port \in TCPPorts /\ starts \in 0..MaxStarts /\ taken \subseteq TCPPorts
  /\ server \in {"none", "starting", "listening", "exited"} /\ lines \in 0..MaxLines
  /\ {versionTold, reading, paused, info, errors} \subseteq BOOLEAN
  /\ pipes \subseteq {"info", "port"}
  /\ answer \in {"none", "listening", "takenNetwork"}

\* The log of a server that has started is read on for as long as it writes lines
\* that can be read, although two filters have left the stream by then.
LogIsReadOn == starting = "started" /\ reading => ~paused

\* start() leaves no process behind that it does not return, however it fails, but for
\* one that has no log file: that one runs on, and no line of it has been read.  And a
\* mongos is only given up for its port when it is the filter for the port that found the
\* failure.
FailureIsClean ==
  /\ starting \in {"spawn", "failed"} => server \in {"none", "exited"}
  /\ starting \in {"log", "abandoned"} => answer = "none" /\ ~info /\ ~errors
  /\ starting = "failed" /\ binary = "mongos" => ~errors \/ answer = "takenNetwork"

StartIsSound == LogIsReadOn /\ FailureIsClean
=============================================================================
