------------------------------- MODULE Runner -------------------------------
(* mongodb-runner: a cluster is started by `start` or `exec`, described in a  *)
(* file of the runner directory, and stopped or pruned from that file by      *)
(* other processes.  A group is a MongoCluster that starts mongod processes   *)
(* (a replica set or a standalone server); Mongos is the group of the mongos  *)
(* processes of a sharded cluster, which starts when the others have.         *)
EXTENDS FiniteSets

CONSTANTS Servers,   \* the processes of the cluster
          Groups,    \* the groups they are started in
          GroupOf,   \* the group of each server
          KindOf,    \* what each server is
          Mongos,    \* the group of the mongos processes, if there is one
          Commands,  \* the processes that run `stop` or `prune`
          Options    \* the options `start` may be called with

ServerKinds == {"data", "arbiter", "mongos", "configsvr"}
OptionType == [exec : BOOLEAN,     \* run by `exec` rather than by `start`
               compose : BOOLEAN,  \* disaggregated storage, started by docker
               oidc : BOOLEAN,     \* with a mock provider
               keyFile : BOOLEAN,  \* servers accept nothing before there are users
               users : BOOLEAN,
               lenient : BOOLEAN]  \* docker, or no client keys are added

ASSUME RunnerAssumption ==
  /\ GroupOf \in [Servers -> Groups]
  /\ KindOf \in [Servers -> ServerKinds]
  /\ Options \subseteq OptionType
  /\ Mongos \notin Groups => \A g, h \in Groups : g = h

VARIABLES
  opt,       \* the options
  main,      \* where start() or exec() is
  grp,       \* where the start of each group is
  srv,       \* the MongoServer objects of the starting process
  proc,      \* the server processes
  entry,     \* the servers whose database has a mongodbrunner entry
  foreign,   \* the servers whose port was taken over by another server
  helpers,   \* the compose project and the OIDC provider
  file,      \* is there a file that describes the instance?
  cmd,       \* the commands
  mistaken,  \* the servers that ran when a command took them for dead
  pruned     \* was the file removed by prune?

progress == <<main, grp, srv>>
runnerVars == <<opt, progress, proc, entry, foreign, helpers, file, cmd,
                mistaken, pruned>>

MainStates == {"begin", "oidc", "compose", "ready", "servers", "write", "run",
               "started", "ended", "failed"}
GroupStates == {"idle", "starting", "initiate", "auth", "assert", "done", "failed"}
ServerStates == {"idle", "spawned", "started", "failed"}
Checks == {"unchecked", "open", "closing", "closed", "noprocess"}

Unstarted == [pc |-> "idle", info |-> FALSE, marked |-> FALSE]
NoCommand == [pc |-> "idle", check |-> [s \in Servers |-> "unchecked"]]

RunnerInit ==
  /\ opt \in Options
  /\ main = "begin"
  /\ grp = [g \in Groups |-> "idle"]
  /\ srv = [s \in Servers |-> Unstarted]
  /\ proc = [s \in Servers |-> "none"]
  /\ entry = {} /\ foreign = {}
  /\ helpers = [oidc |-> "none", compose |-> "none", project |-> FALSE]
  /\ file = FALSE
  /\ cmd = [c \in Commands |-> NoCommand]
  /\ mistaken = {} /\ pruned = FALSE

MembersOf(g) == {s \in Servers : GroupOf[s] = g}
Top(g) == g = Mongos \/ Mongos \notin Groups
\* allServers(): those of the cluster and of its shards.
AllServers(g) == IF g = Mongos THEN Servers ELSE MembersOf(g)
Up == {s \in Servers : proc[s] = "up"}
Settled(g) == grp[g] \in {"done", "failed"}

-----------------------------------------------------------------------------
(* The helpers of the cluster.  Nothing that was started before the try block *)
(* is stopped when a later step fails, the compose project excepted.          *)

Fail == main' = "failed"

Begin(ok) ==
  /\ main = "begin"
  /\ IF ok THEN main' = "oidc" ELSE Fail
  /\ UNCHANGED <<helpers, grp, srv, proc, entry, file>>

StartOidc(ok) ==
  /\ main = "oidc"
  /\ IF ok THEN /\ main' = "compose"
                /\ helpers' = [helpers EXCEPT !.oidc = IF opt.oidc THEN "up" ELSE @]
     ELSE opt.oidc /\ Fail /\ UNCHANGED helpers
  /\ UNCHANGED <<grp, srv, proc, entry, file>>

StartCompose(ok) ==
  /\ main = "compose"
  /\ IF ok \/ ~opt.compose
     THEN /\ main' = "ready"
          /\ helpers' = [helpers EXCEPT !.compose = IF opt.compose THEN "up" ELSE @,
                                        !.project = opt.compose]
     ELSE /\ Fail
          /\ \E left \in {"none", "up"} : helpers' = [helpers EXCEPT !.compose = left]
  /\ UNCHANGED <<grp, srv, proc, entry, file>>

\* The catch block of _start: the compose project is taken down.
TakenDown == [helpers EXCEPT !.compose = IF helpers.project THEN "asked" ELSE @]
CloseProject == helpers' = TakenDown

WaitForReady(ok) ==
  /\ main = "ready"
  /\ IF ok \/ ~opt.compose THEN main' = "servers" /\ UNCHANGED helpers
     ELSE Fail /\ CloseProject
  /\ UNCHANGED <<grp, srv, proc, entry, file>>

-----------------------------------------------------------------------------
(* Servers.  _populateBuildInfo('insert-new') never throws; what it leaves    *)
(* behind depends on how far it comes.                                        *)

SkipsMetadata(s) == opt.compose \/ KindOf[s] = "arbiter"

Populated(s) ==
  IF SkipsMetadata(s)
  THEN {[info |-> TRUE, marked |-> srv[s].marked, entry |-> s \in entry, err |-> FALSE]}
  ELSE IF s \in entry /\ KindOf[s] # "mongos" THEN {}
  ELSE {[info |-> TRUE, marked |-> TRUE, entry |-> TRUE, err |-> FALSE],
        \* buildInfo failed after the insertion
        [info |-> srv[s].info, marked |-> TRUE, entry |-> TRUE, err |-> TRUE],
        \* the answer to the insertion was lost
        [info |-> srv[s].info, marked |-> srv[s].marked, entry |-> TRUE, err |-> TRUE]}
AsBefore(s, err) ==
  [info |-> srv[s].info, marked |-> srv[s].marked, entry |-> s \in entry, err |-> err]
NotPopulated(s) == AsBefore(s, TRUE)
InsertOutcomes(s) ==
  {NotPopulated(s)} \cup (IF proc[s] = "up" THEN Populated(s) ELSE {})

SetServer(s, pc) == srv' = [srv EXCEPT ![s].pc = pc]

Spawn(s) ==
  /\ grp[GroupOf[s]] = "starting" /\ srv[s].pc = "idle"
  /\ SetServer(s, "spawned")
  /\ proc' = [proc EXCEPT ![s] = "up"]
  /\ UNCHANGED <<main, grp, helpers, entry, file>>

\* The key file, the directory or the binary is not there.
SpawnFails(s) ==
  /\ grp[GroupOf[s]] = "starting" /\ srv[s].pc = "idle"
  /\ SetServer(s, "failed")
  /\ UNCHANGED <<main, grp, helpers, proc, entry, file>>

\* The log file cannot be opened: this is outside the try block.
LogFileFails(s) ==
  /\ srv[s].pc = "spawned"
  /\ SetServer(s, "failed")
  /\ UNCHANGED <<main, grp, helpers, proc, entry, file>>

\* The server reports its port.  Its build information may be in its log.
Listens(s) ==
  /\ srv[s].pc = "spawned" /\ proc[s] = "up"
  /\ \E logged \in BOOLEAN, out \in InsertOutcomes(s) :
       LET o == IF opt.keyFile THEN NotPopulated(s) ELSE out
       IN /\ srv' = [srv EXCEPT ![s] = [pc |-> "started", info |-> o.info \/ logged,
                                        marked |-> o.marked]]
          /\ entry' = IF o.entry THEN entry \cup {s} ELSE entry
  /\ UNCHANGED <<main, grp, helpers, proc, file>>

\* The log ends without a port, and close() kills what is left.  A mongos
\* whose port is taken is started again on the next one.
StartFails(s) ==
  /\ srv[s].pc = "spawned"
  /\ \E pc \in IF KindOf[s] = "mongos" THEN {"idle", "failed"} ELSE {"failed"} :
       srv' = [srv EXCEPT ![s] = [Unstarted EXCEPT !.pc = pc]]
  /\ proc' = [proc EXCEPT ![s] = "dead"]
  /\ UNCHANGED <<main, grp, helpers, entry, file>>

-----------------------------------------------------------------------------
(* Groups.                                                                    *)

GroupTo(g, pc) == grp' = [grp EXCEPT ![g] = pc]

StartGroup(g, ok) ==
  /\ main = "servers" /\ grp[g] = "idle"
  /\ g = Mongos => \A h \in Groups \ {g} : grp[h] = "done"
  /\ GroupTo(g, IF ok \/ ~opt.compose THEN "starting" ELSE "failed")
  /\ UNCHANGED <<main, srv, helpers, proc, entry, file>>

\* safePromiseAll: the servers that did start are left as they are.
GroupStarted(g) ==
  /\ grp[g] = "starting"
  /\ \A s \in MembersOf(g) : srv[s].pc \in {"started", "failed"}
  /\ GroupTo(g, IF \A s \in MembersOf(g) : srv[s].pc = "started" THEN "initiate"
                ELSE "failed")
  /\ UNCHANGED <<main, srv, helpers, proc, entry, file>>

Initiate(g, ok) ==
  /\ grp[g] = "initiate"
  /\ ok => MembersOf(g) \cap Up # {}
  /\ GroupTo(g, IF ok THEN "auth" ELSE "failed")
  /\ UNCHANGED <<main, srv, helpers, proc, entry, file>>

HasUsers(g) == opt.users /\ \A s \in MembersOf(g) : KindOf[s] # "configsvr"

AddAuth(g, ok) ==
  /\ grp[g] = "auth"
  /\ IF ~HasUsers(g) THEN GroupTo(g, "assert") /\ UNCHANGED srv
     ELSE IF ok
     THEN /\ AllServers(g) \subseteq Up
          /\ GroupTo(g, "assert")
          /\ srv' = [s \in Servers |-> IF s \in AllServers(g)
                                       THEN [srv[s] EXCEPT !.info = TRUE] ELSE srv[s]]
     ELSE GroupTo(g, "failed") /\ UNCHANGED srv
  /\ UNCHANGED <<main, helpers, proc, entry, file>>

\* assertHasInsertedLocalMetadata: insert what is missing, then insist on it.
MayLackEntry(s) == KindOf[s] # "data" \/ opt.compose
\* Deviation: only the build information is insisted on.
LacksInfo(s, o) == ~o.info

AssertFails(s, o) ==
  \/ o.err /\ (KindOf[s] \notin {"mongos", "configsvr"} /\ ~opt.compose)
  \/ ~o.info
  \/ ~o.marked /\ ~MayLackEntry(s)
AssertOutcomes(s) ==
  IF srv[s].marked THEN {AsBefore(s, FALSE)} ELSE InsertOutcomes(s)

AssertMetadata(g) ==
  /\ grp[g] = "assert"
  /\ \E out \in [AllServers(g) -> UNION {AssertOutcomes(s) : s \in AllServers(g)}] :
       /\ \A s \in AllServers(g) : out[s] \in AssertOutcomes(s)
       /\ srv' = [s \in Servers |->
                    IF s \in AllServers(g)
                    THEN [srv[s] EXCEPT !.info = out[s].info, !.marked = out[s].marked]
                    ELSE srv[s]]
       /\ entry' = entry \cup {s \in AllServers(g) : out[s].entry}
       /\ GroupTo(g, IF ~opt.lenient /\ \E s \in AllServers(g) : AssertFails(s, out[s])
                     THEN "failed" ELSE "done")
  /\ UNCHANGED <<main, helpers, proc, file>>

ClusterStarts ==
  /\ main = "servers"
  /\ \E g \in Groups : Top(g) /\ grp[g] = "done"
  /\ main' = IF opt.exec THEN "run" ELSE "write"
  /\ UNCHANGED <<grp, srv, helpers, proc, entry, file>>

ClusterFails ==
  /\ main = "servers"
  /\ \E g \in Groups : grp[g] = "failed"
  /\ \A g \in Groups : Settled(g) \/ g = Mongos
  /\ Mongos \in Groups => Settled(Mongos) \/ grp[Mongos] = "idle"
  /\ Fail /\ CloseProject
  /\ UNCHANGED <<grp, srv, proc, entry, file>>

WriteFile(ok) ==
  /\ main = "write"
  /\ main' = IF ok THEN "started" ELSE "failed"
  /\ file' = ok
  /\ UNCHANGED <<grp, srv, helpers, proc, entry>>

\* close() of the provider, which rejects when the request to it fails.
CloseOidc == {IF helpers.oidc \in {"up", "stuck"} THEN r ELSE helpers.oidc :
                r \in {"asked", "stuck"}}

\* cluster.close(): the project is taken down once everything else was closed.
ClosedHelpers(oidc, closed) ==
  [IF closed /\ oidc # "stuck" THEN TakenDown ELSE helpers EXCEPT !.oidc = oidc]

\* The command that was executed ends: cluster.close() kills the children.
ExecEnds ==
  /\ main = "run"
  /\ main' = "ended"
  /\ proc' = [s \in Servers |-> IF proc[s] = "up" THEN "dead" ELSE proc[s]]
  /\ \E oidc \in CloseOidc : helpers' = ClosedHelpers(oidc, TRUE)
  /\ UNCHANGED <<grp, srv, entry, file>>

StartStep ==
  /\ \/ \E ok \in BOOLEAN :
          \/ Begin(ok) \/ StartOidc(ok) \/ StartCompose(ok) \/ WaitForReady(ok)
          \/ WriteFile(ok)
          \/ \E g \in Groups : StartGroup(g, ok) \/ Initiate(g, ok) \/ AddAuth(g, ok)
     \/ \E g \in Groups : GroupStarted(g) \/ AssertMetadata(g)
     \/ \E s \in Servers :
          Spawn(s) \/ SpawnFails(s) \/ LogFileFails(s) \/ Listens(s) \/ StartFails(s)
     \/ ClusterStarts \/ ClusterFails \/ ExecEnds
  /\ UNCHANGED <<opt, foreign, cmd, mistaken, pruned>>

-----------------------------------------------------------------------------
(* The world: a server dies, and another program listens where it did.        *)

ServerDies(s) ==
  /\ proc[s] = "up"
  /\ proc' = [proc EXCEPT ![s] = "dead"]
  /\ UNCHANGED <<opt, progress, entry, foreign, helpers, file, cmd, mistaken, pruned>>

PortTakenOver(s) ==
  /\ proc[s] = "dead"
  /\ foreign' = foreign \cup {s}
  /\ UNCHANGED <<opt, progress, proc, entry, helpers, file, cmd, mistaken, pruned>>

-----------------------------------------------------------------------------
(* Commands.                                                                  *)

SetCommand(c, pc) == cmd' = [cmd EXCEPT ![c].pc = pc]
SetCheck(c, s, r) == cmd' = [cmd EXCEPT ![c].check[s] = r]

ReadInstance(c, kind) ==
  /\ cmd[c].pc = "idle" /\ file
  /\ SetCommand(c, kind)
  /\ UNCHANGED <<opt, progress, proc, entry, foreign, helpers, file, mistaken, pruned>>

\* The entry is compared only by a server that knows to have inserted it.
Recognised(s, hasInserted) == ~hasInserted \/ s \notin foreign

\* deserialize() does not restore hasInsertedMetadataCollEntry.
RestoredMark(s) == FALSE

\* deserialize: `closing`, without a pid, is what does not answer as it should.
RestoreCheck(c, s) ==
  /\ cmd[c].pc \in {"stop", "prune"} /\ cmd[c].check[s] = "unchecked"
  /\ \E answers \in BOOLEAN :
       /\ answers => s \in Up \cup foreign
       /\ SetCheck(c, s, IF answers /\ Recognised(s, RestoredMark(s)) THEN "open"
                         ELSE "closing")
       /\ mistaken' = IF ~answers /\ s \in Up THEN mistaken \cup {s} ELSE mistaken
  /\ UNCHANGED <<opt, progress, proc, entry, foreign, helpers, file, pruned>>

Restored(c) == \A s \in Servers : cmd[c].check[s] # "unchecked"

\* close() of a restored server: SIGKILL by pid, which throws if there is no
\* such process; another process may have got the pid.
Kill(c, s) ==
  /\ cmd[c].pc = "stop" /\ Restored(c) /\ cmd[c].check[s] = "open"
  /\ \E r \in {"closed", "noprocess"} :
       (s \in Up => r = "closed") /\ SetCheck(c, s, r)
  /\ proc' = [proc EXCEPT ![s] = IF @ = "up" THEN "dead" ELSE @]
  /\ UNCHANGED <<opt, progress, entry, foreign, helpers, file, mistaken, pruned>>

\* Deviation: one server that was closed is enough.
SomeKilled(c) ==
  \E s \in Servers : cmd[c].check[s] \in {"closing", "closed", "noprocess"}

Killed(c) == \A s \in Servers : cmd[c].check[s] \in {"closing", "closed", "noprocess"}
AllClosed(c) == Killed(c) /\ \A s \in Servers : cmd[c].check[s] # "noprocess"

\* If anything could not be closed the file stays.
StopHelpers(c) ==
  /\ cmd[c].pc = "stop" /\ Killed(c)
  /\ \E oidc \in CloseOidc :
       /\ SetCommand(c, IF AllClosed(c) /\ oidc # "stuck" THEN "remove" ELSE "over")
       /\ helpers' = ClosedHelpers(oidc, AllClosed(c))
  /\ UNCHANGED <<opt, progress, proc, entry, foreign, file, mistaken, pruned>>

RemoveFile(c) ==
  /\ cmd[c].pc = "remove"
  /\ SetCommand(c, "over")
  /\ file' = FALSE
  /\ UNCHANGED <<opt, progress, proc, entry, foreign, helpers, mistaken, pruned>>

\* prune: the file goes unless a client can be connected.
Prune(c, connects) ==
  /\ cmd[c].pc = "prune" /\ Restored(c)
  /\ connects => Up \cup foreign # {}
  /\ SetCommand(c, "over")
  /\ file' = (file /\ connects)
  /\ pruned' = (pruned \/ ~connects)
  /\ mistaken' = IF connects THEN mistaken ELSE mistaken \cup Up
  /\ UNCHANGED <<opt, progress, proc, entry, foreign, helpers>>

CommandStep(c) ==
  \/ \E kind \in {"stop", "prune"} : ReadInstance(c, kind)
  \/ \E s \in Servers : RestoreCheck(c, s) \/ Kill(c, s)
  \/ StopHelpers(c) \/ RemoveFile(c)
  \/ \E connects \in BOOLEAN : Prune(c, connects)

RunnerNext ==
  \/ StartStep
  \/ \E s \in Servers : ServerDies(s) \/ PortTakenOver(s)
  \/ \E c \in Commands : CommandStep(c)

RunnerSpec == RunnerInit /\ [][RunnerNext]_runnerVars

-----------------------------------------------------------------------------
(* Properties.                                                                *)

\* The types of the variables.
RunnerTypeOK ==
  /\ opt \in Options /\ main \in MainStates
  /\ grp \in [Groups -> GroupStates]
  /\ srv \in [Servers -> [pc : ServerStates, info : BOOLEAN, marked : BOOLEAN]]
  /\ proc \in [Servers -> {"none", "up", "dead"}]
  /\ entry \subseteq Servers /\ foreign \subseteq Servers /\ mistaken \subseteq Servers
  /\ helpers \in [oidc : {"none", "up", "asked", "stuck"},
                  compose : {"none", "up", "asked"}, project : BOOLEAN]
  /\ file \in BOOLEAN /\ pruned \in BOOLEAN
  /\ cmd \in [Commands -> [pc : {"idle", "stop", "prune", "remove", "over"},
                           check : [Servers -> Checks]]]

\* A server of a cluster that was started runs on after its file is gone, or
\* after exec() ended, only if some command found that it did not answer; and
\* its compose project is then taken down, unless the file was pruned or the
\* OIDC provider could not be closed.
NothingForgotten ==
  main \in {"started", "ended"} /\ ~file =>
    /\ Up \subseteq mistaken
    /\ helpers.compose = "up" => pruned \/ helpers.oidc = "stuck"

\* A cluster that was started with strict checks can be recognised later: every
\* server that holds data has its entry, and the object knows so.
StartedIsMarked ==
  main \in {"write", "run", "started"} /\ ~opt.lenient =>
    \A s \in Servers : /\ srv[s].info
                       /\ MayLackEntry(s) \/ (srv[s].marked /\ s \in entry)

\* A cluster can be found again for as long as it runs: by its file, and by the
\* entries of its servers.
ClustersAreFound == NothingForgotten /\ StartedIsMarked
=============================================================================
