----------------------------- MODULE ClusterPlan -----------------------------
(* mongodb-runner: what the options of a cluster ask for.  The arguments of    *)
(* every server are made from those of the cluster; with disaggregated storage *)
(* the ports are chosen before the servers start, since the storage has to be  *)
(* told of them; then the members of a replica set are initiated, and shards   *)
(* are added through the first mongos.                                         *)
EXTENDS Integers, SequencesExt

CONSTANTS
  Plans,        \* the options MongoCluster.start() is called with
  ComposeFiles, \* the compose files, as sequences of lines
  PortRange,    \* the ports of this host
  NoPort,       \* no argument for a port, not listening
  NoName,       \* the name of no replica set
  Unasked       \* an option that is not given

\* Arguments: the values of --port, in one form, in their order, the roles (--configsvr,
\* --shardsvr) and the name of the replica set.
Arguments == [ports : Seq(Nat), roles : SUBSET {"configsvr", "shardsvr"},
              name : {NoName} \cup STRING]
MemberOptions ==
  [priority : {Unasked} \cup Nat, arbiter : BOOLEAN, args : Arguments]

\* MongoClusterOptions; a list of members, shards or mongos processes is not empty.
PlanOptions ==
  [topology : {"standalone", "replset", "sharded"}, args : Arguments, storage : BOOLEAN,
   secondaries : {Unasked} \cup Nat, arbiters : {Unasked} \cup Nat,
   rsMembers : {Unasked} \cup (Seq(MemberOptions) \ {<<>>}),
   shards : {Unasked} \cup [number : Nat] \cup [list : Seq(Arguments) \ {<<>>}],
   mongosArgs : Seq(Arguments) \ {<<>>}]

\* What a line of a compose file is read as.
ComposeLine ==
  [kind : {"top", "key"}, name : STRING]
  \cup [kind : {"port"}, name : STRING, listed : BOOLEAN]

ASSUME PlanAssumption ==
  /\ Plans \subseteq PlanOptions /\ ComposeFiles \subseteq Seq(ComposeLine)
  /\ PortRange \subseteq Nat \ {0} /\ NoPort \notin Nat
  /\ Unasked \notin Int /\ NoName # "services"

VARIABLES
  plan,          \* the options
  composeLines,  \* the compose file
  slsServices,   \* what it runs, with the ports
  foreignPorts,  \* the ports that others listen on
  sets,          \* the replica sets, or the standalone server, in their order
  routers,       \* the mongos processes
  slsLogs,       \* the logs that the storage has started
  startOf,       \* where the start of the cluster is
  addedShards    \* those that the first mongos was told of

planVars == <<plan, composeLines, slsServices, foreignPorts, sets, routers, slsLogs,
              startOf, addedShards>>

-----------------------------------------------------------------------------
(* Arguments.                                                                 *)

Args(ports, roles, name) == [ports |-> ports, roles |-> roles, name |-> name]
NoArgs == Args(<<>>, {}, NoName)
PortArg(p) == Args(<<p>>, {}, NoName)
Plus(a, b) ==
  Args(a.ports \o b.ports, a.roles \cup b.roles, IF a.name = NoName THEN b.name ELSE a.name)

HasPortArg(args) == args.ports # <<>>
RemovePortArg(args) == [args EXCEPT !.ports = IF @ = <<>> THEN @ ELSE Tail(@)]
GetPortArg(args) == IF ~HasPortArg(args) \/ args.ports[1] = 0 THEN NoPort ELSE args.ports[1]

OrElse(option, default) == IF option = Unasked THEN default ELSE option

-----------------------------------------------------------------------------
(* The members of a replica set.                                              *)

\* The first whose own priority is not 0, whatever the others have, or which has none while
\* no other has more than 0: `??` binds weaker than `>=`.
PrimaryIndex(members) ==
  LET Chosen(i) == IF members[i].priority # Unasked THEN members[i].priority # 0
                   ELSE \A j \in DOMAIN members : OrElse(members[j].priority, 0) <= 0
  IN SelectInSeq([i \in DOMAIN members |-> i], Chosen)

NewMember(priority, arbiter, args) ==
  [priority |-> priority, arbiter |-> arbiter, args |-> args]

\* Deviation: every member gets the port of the cluster.
SamePortForAll(o, fresh) ==
  LET named == IF o.args.name = NoName THEN [o.args EXCEPT !.name = fresh] ELSE o.args
      Of(i) == IF i = 1 THEN 1 ELSE 0
  IN [i \in 1..(1 + OrElse(o.secondaries, 2)) |-> NewMember(Of(i), FALSE, named)]

ProcessRSMembers(o, fresh) ==
  LET named == IF o.args.name = NoName THEN [o.args EXCEPT !.name = fresh] ELSE o.args
      secondaryArgs == Plus(RemovePortArg(named), PortArg(0))
  IN IF o.rsMembers = Unasked
     THEN <<NewMember(1, FALSE, named)>>
          \o [i \in 1..OrElse(o.secondaries, 2) |-> NewMember(0, FALSE, secondaryArgs)]
          \o [i \in 1..OrElse(o.arbiters, 0) |-> NewMember(0, TRUE, secondaryArgs)]
     ELSE [i \in DOMAIN o.rsMembers |->
             LET m == o.rsMembers[i] IN
             NewMember(m.priority, m.arbiter,
                    Plus(m.args, IF HasPortArg(m.args) \/ i = PrimaryIndex(o.rsMembers)
                                 THEN named ELSE secondaryArgs))]

-----------------------------------------------------------------------------
(* The shards, of which there is a number or a list of their own arguments, *)
(* and the mongos processes of a sharded cluster.                           *)

ShardOptions(o) ==
  LET asked == IF o.shards # Unasked /\ "list" \in DOMAIN o.shards THEN o.shards.list
               ELSE LET number == IF o.shards = Unasked THEN 3 ELSE o.shards.number
                    IN [i \in 1..(number + 1) |-> NoArgs]
      Role(i) == Args(<<>>, IF asked[i].roles # {} THEN {}
                            ELSE IF i = 1 THEN {"configsvr"} ELSE {"shardsvr"}, NoName)
  IN [i \in DOMAIN asked |->
        [o EXCEPT !.topology = "replset",
                  !.args = Plus(Plus(RemovePortArg(o.args), asked[i]), Role(i))]]

MongosArgs(o) ==
  [i \in DOMAIN o.mongosArgs |->
     Plus(IF i = 1 /\ ~HasPortArg(o.mongosArgs[1]) THEN o.args ELSE RemovePortArg(o.args),
          o.mongosArgs[i])]

-----------------------------------------------------------------------------
(* The storage: services of the compose file, whose lines are keys of the top *)
(* level, keys below, and ports (in a list of ports or elsewhere).            *)

NothingFound == [top |-> NoName, service |-> NoName, ports |-> <<>>]
ReadComposeLine(found, line) ==
  CASE line.kind = "top" -> [found EXCEPT !.top = line.name, !.service = NoName]
    [] line.kind = "key" /\ found.top = "services" -> [found EXCEPT !.service = line.name]
    [] line.kind = "port" /\ line.listed /\ found.service # NoName ->
         LET mapping == [service |-> found.service, var |-> line.name]
         IN [found EXCEPT !.ports = Append(@, mapping)]
    [] OTHER -> found
ParseServices(lines) ==
  LET found[n \in 0..Len(lines)] ==
        IF n = 0 THEN NothingFound ELSE ReadComposeLine(found[n - 1], lines[n])
  IN found[Len(lines)].ports

MetadataService == "cms"
HasMetadataService == \E i \in DOMAIN slsServices : slsServices[i].service = MetadataService

-----------------------------------------------------------------------------
(* The start of the cluster.                                                   *)

FirstLog == 1

NewServer(args) == [args |-> args, state |-> "idle", port |-> NoPort]
ReplicaSet(i, members, isConfig) ==
  [pc |-> IF plan.storage THEN "allocate" ELSE "serve", isConfig |-> isConfig,
   members |-> members, servers |-> [m \in DOMAIN members |-> NewServer(members[m].args)],
   told |-> <<>>,   \* the ports that the storage was told of
   name |-> NoName, log |-> FirstLog + i - 1]

PlanInit ==
  /\ plan \in Plans /\ foreignPorts = {}
  /\ composeLines \in IF plan.storage THEN ComposeFiles ELSE {<<>>}
  /\ slsServices = <<>> /\ sets = <<>> /\ routers = <<>> /\ slsLogs = {} /\ addedShards = <<>>
  /\ startOf = IF plan.storage THEN "environment" ELSE "plan"

Listening ==
  foreignPorts
  \cup {slsServices[i].port : i \in DOMAIN slsServices}
  \cup UNION {{sets[g].servers[i].port : i \in DOMAIN sets[g].servers} : g \in DOMAIN sets}
  \cup {routers[i].port : i \in DOMAIN routers}
Free == PortRange \ Listening

\* External, bound: one process that listens on one port.
OthersListen ==
  /\ foreignPorts = {} /\ \E p \in Free : foreignPorts' = {p}
  /\ UNCHANGED <<plan, composeLines, slsServices, sets, routers, slsLogs, startOf, addedShards>>

\* createSLSMultiCellEnvironment(), and docker compose, for which two services cannot have
\* one port.  What allocatePort() has found is free until somebody listens on it.
CreateEnvironment ==
  /\ startOf = "environment"
  /\ LET found == ParseServices(composeLines) IN
     \E ports \in [DOMAIN found -> Free] :
       IF found # <<>> /\ IsInjective(ports)
       THEN /\ slsServices' = [i \in DOMAIN found |->
                 [service |-> found[i].service, var |-> found[i].var, port |-> ports[i]]]
            /\ startOf' = "plan"
       ELSE startOf' = "failed" /\ UNCHANGED slsServices
  /\ UNCHANGED <<plan, composeLines, foreignPorts, sets, routers, slsLogs, addedShards>>

MakePlan ==
  /\ startOf = "plan" /\ startOf' = "sets"
  /\ LET o == [plan EXCEPT !.secondaries = IF plan.storage THEN OrElse(@, 1) ELSE @]
         shards == ShardOptions(o)
     IN CASE o.topology = "standalone" ->
               /\ sets' = <<ReplicaSet(1, <<NewMember(1, FALSE, o.args)>>, FALSE)>>
               /\ routers' = <<>>
          [] o.topology = "replset" ->
               sets' = <<ReplicaSet(1, ProcessRSMembers(o, "set1"), FALSE)>> /\ routers' = <<>>
          [] o.topology = "sharded" ->
               /\ sets' = [i \in DOMAIN shards |->
                             ReplicaSet(i, ProcessRSMembers(shards[i], "set" \o ToString(i)),
                                        "configsvr" \in shards[i].args.roles)]
               /\ routers' = [i \in DOMAIN o.mongosArgs |-> NewServer(MongosArgs(o)[i])]
  /\ UNCHANGED <<plan, composeLines, slsServices, foreignPorts, slsLogs, addedShards>>

-----------------------------------------------------------------------------
(* One replica set, while others start.                                       *)

\* Deviation: the port that the storage is told of is not given to the server.
AllocateForStorage(g) ==
  /\ sets[g].pc = "allocate"
  /\ \E p \in Free :
       sets' = [sets EXCEPT ![g].told = Append(@, p),
                  ![g].pc = IF Len(sets[g].told) + 1 = Len(sets[g].members) THEN "setup" ELSE @]
  /\ UNCHANGED <<plan, composeLines, slsServices, foreignPorts, routers, slsLogs, startOf,
                 addedShards>>

\* The ports of the members are chosen one after the other.
Allocate(g) ==
  /\ sets[g].pc = "allocate"
  /\ LET i == Len(sets[g].told) + 1
         args == sets[g].servers[i].args
         asked == GetPortArg(args)
     IN \E p \in IF asked = NoPort THEN Free ELSE {asked} :
          sets' = [sets EXCEPT ![g].told = Append(@, p),
                     ![g].servers[i].args =
                       IF asked = NoPort THEN Plus(RemovePortArg(args), PortArg(p)) ELSE args,
                     ![g].pc = IF i = Len(sets[g].members) THEN "setup" ELSE @]
  /\ UNCHANGED <<plan, composeLines, slsServices, foreignPorts, routers, slsLogs, startOf,
                 addedShards>>

\* setupShard(), for which a log that exists is as good as a new one, and config().
SetUpShard(g) ==
  /\ sets[g].pc = "setup"
  /\ \E started \in BOOLEAN :
       /\ slsLogs' = IF started THEN slsLogs \cup {sets[g].log} ELSE slsLogs
       /\ sets' = [sets EXCEPT ![g].pc =
                     IF started /\ HasMetadataService THEN "serve" ELSE "failed"]
  /\ UNCHANGED <<plan, composeLines, slsServices, foreignPorts, routers, startOf, addedShards>>

Elects(g) == plan.topology # "standalone"

\* External: a server that is given two ports does not start, nor one whose port is taken.
Starts(server) ==
  LET ports == server.args.ports
      asked == IF ports = <<>> THEN 0 ELSE ports[1]
      open == IF Len(ports) > 1 THEN {} ELSE IF asked = 0 THEN Free ELSE {asked} \cap Free
  IN IF open = {} THEN {[server EXCEPT !.state = "failed"]}
     ELSE {[server EXCEPT !.state = "up", !.port = p] : p \in open}

StartMember(g) ==
  /\ sets[g].pc = "serve"
  /\ Elects(g) => PrimaryIndex(sets[g].members) # 0
  /\ \E i \in DOMAIN sets[g].servers :
       /\ sets[g].servers[i].state = "idle"
       /\ \E s \in Starts(sets[g].servers[i]) : sets' = [sets EXCEPT ![g].servers[i] = s]
  /\ UNCHANGED <<plan, composeLines, slsServices, foreignPorts, routers, slsLogs, startOf,
                 addedShards>>

States(servers) == {servers[i].state : i \in DOMAIN servers}
Advance(g, pc) ==
  /\ sets' = [sets EXCEPT ![g].pc = pc]
  /\ UNCHANGED <<plan, composeLines, slsServices, foreignPorts, routers, slsLogs, startOf,
                 addedShards>>

\* safePromiseAll() waits for all of them.
ServersSettle(g) ==
  /\ sets[g].pc = "serve"
  /\ \/ Elects(g) /\ PrimaryIndex(sets[g].members) = 0 /\ Advance(g, "failed")
     \/ /\ "idle" \notin States(sets[g].servers)
        /\ Advance(g, IF "failed" \in States(sets[g].servers) THEN "failed"
                      ELSE IF ~Elects(g) THEN "up"
                      ELSE IF plan.storage THEN "elect" ELSE "initiate")

\* The priority that the set is initiated with, or that the storage was told.
Priority(g, i) ==
  OrElse(sets[g].members[i].priority,
         IF i = PrimaryIndex(sets[g].members) /\ ~plan.storage THEN 1 ELSE 0)
Electable(g, i) == Priority(g, i) > 0 /\ ~sets[g].members[i].arbiter

\* External: the member that initiates the set has to be electable.
InitiateSet(g) ==
  /\ sets[g].pc = "initiate"
  /\ Advance(g, IF Electable(g, PrimaryIndex(sets[g].members)) THEN "elect" ELSE "failed")

SetName(g) == sets[g].members[1].args.name

ElectPrimary(g) ==
  /\ sets[g].pc = "elect" /\ \E i \in DOMAIN sets[g].members : Electable(g, i)
  /\ sets' = [sets EXCEPT ![g].pc = "up", ![g].name = SetName(g)]
  /\ UNCHANGED <<plan, composeLines, slsServices, foreignPorts, routers, slsLogs, startOf,
                 addedShards>>

\* After a minute the set is taken as it is, and has no name.
StopWaiting(g) == sets[g].pc = "elect" /\ Advance(g, "up")

-----------------------------------------------------------------------------
(* The whole cluster.                                                         *)

ConfigSets == {g \in DOMAIN sets : sets[g].isConfig}
ConfigSet == CHOOSE g \in ConfigSets : \A h \in ConfigSets : g <= h
Shardsvrs == DOMAIN sets \ ConfigSets
OwnSets == IF plan.topology = "sharded" THEN {ConfigSet} \cup Shardsvrs ELSE DOMAIN sets

Enter(state) ==
  /\ startOf' = state
  /\ UNCHANGED <<plan, composeLines, slsServices, foreignPorts, sets, slsLogs, addedShards>>

\* Without any config server, find() has found nothing to read from.
SetsSettle ==
  /\ startOf = "sets" /\ \A g \in DOMAIN sets : sets[g].pc \in {"up", "failed"}
  /\ Enter(IF \E g \in DOMAIN sets : sets[g].pc = "failed" THEN "failed"
           ELSE IF plan.topology # "sharded" THEN "up"
           ELSE IF ConfigSets = {} THEN "failed" ELSE "mongos")
  /\ UNCHANGED routers

\* A mongos does not listen before it has found its config servers by their name.
StartMongos ==
  /\ startOf = "mongos"
  /\ \E i \in DOMAIN routers :
       /\ routers[i].state = "idle"
       /\ LET outcomes == IF sets[ConfigSet].name = NoName
                          THEN {[routers[i] EXCEPT !.state = "failed"]} ELSE Starts(routers[i])
          IN \E s \in outcomes : routers' = [routers EXCEPT ![i] = s]
  /\ Enter(startOf)

MongosSettle ==
  /\ startOf = "mongos" /\ "idle" \notin States(routers)
  /\ Enter(IF "failed" \in States(routers) THEN "failed" ELSE "add")
  /\ UNCHANGED routers

Ports(g) == [i \in DOMAIN sets[g].servers |-> sets[g].servers[i].port]

ShardSpec(g, name) == [set |-> g, name |-> name, ports |-> Ports(g)]
ToAdd == Shardsvrs \ {addedShards[i].set : i \in DOMAIN addedShards}

AddShard ==
  /\ startOf = "add"
  /\ LET g == Min(ToAdd) IN
     IF ToAdd = {} THEN startOf' = "up" /\ UNCHANGED addedShards
     ELSE IF sets[g].name = NoName THEN startOf' = "failed" /\ UNCHANGED addedShards
     ELSE addedShards' = Append(addedShards, ShardSpec(g, sets[g].name)) /\ UNCHANGED startOf
  /\ UNCHANGED <<plan, composeLines, slsServices, foreignPorts, sets, routers, slsLogs>>

PlanNext ==
  \/ OthersListen \/ CreateEnvironment \/ MakePlan
  \/ \E g \in DOMAIN sets :
       \/ Allocate(g) \/ SetUpShard(g) \/ StartMember(g) \/ ServersSettle(g)
       \/ InitiateSet(g) \/ ElectPrimary(g) \/ StopWaiting(g)
  \/ SetsSettle \/ StartMongos \/ MongosSettle \/ AddShard

PlanSpec == PlanInit /\ [][PlanNext]_planVars

PlanTypeOK ==
  /\ plan \in Plans /\ foreignPorts \subseteq PortRange /\ slsLogs \subseteq Nat
  /\ startOf \in {"environment", "plan", "sets", "mongos", "add", "up", "failed"}
  /\ \A g \in DOMAIN sets :
       /\ sets[g].pc \in {"allocate", "setup", "serve", "initiate", "elect", "up", "failed"}
       /\ \A i \in DOMAIN sets[g].servers : sets[g].servers[i].port \in PortRange \cup {NoPort}
  /\ \A i \in DOMAIN routers : routers[i].port \in PortRange \cup {NoPort}

-----------------------------------------------------------------------------
(* What was asked for is what runs.                                           *)

\* The storage knows every member that runs by its port, and has the log of its set.
StorageKnowsMembers ==
  plan.storage => \A g \in DOMAIN sets : \A i \in DOMAIN sets[g].servers :
    sets[g].servers[i].state = "up" =>
      sets[g].told[i] = sets[g].servers[i].port /\ sets[g].log \in slsLogs

\* A port that the cluster is given is given to one server, the one that is talked to first,
\* unless members have ports of their own or something else is given the same one.
MainPort == GetPortArg(plan.args)
GivenOnce ==
  /\ Len(plan.args.ports) = 1
  /\ plan.rsMembers # Unasked =>
       \A i \in DOMAIN plan.rsMembers : ~HasPortArg(plan.rsMembers[i].args)
  /\ plan.shards # Unasked /\ "list" \in DOMAIN plan.shards =>
       \A i \in DOMAIN plan.shards.list : MainPort \notin ToSet(plan.shards.list[i].ports)
  /\ \A i \in DOMAIN plan.mongosArgs : MainPort \notin ToSet(plan.mongosArgs[i].ports)
Users ==
  {n \in UNION {{g} \X DOMAIN sets[g].members : g \in DOMAIN sets} :
     MainPort \in ToSet(sets[n[1]].members[n[2]].args.ports)}
  \cup {<<0, i>> : i \in {j \in DOMAIN routers : MainPort \in ToSet(routers[j].args.ports)}}
OneServerHasThePort ==
  MainPort # NoPort /\ sets # <<>> /\ GivenOnce =>
    Users = CASE plan.topology = "standalone" -> {<<1, 1>>}
              [] plan.topology = "replset" ->
                   {1} \X ({PrimaryIndex(sets[1].members)} \ {0})
              [] plan.topology = "sharded" ->
                   IF HasPortArg(plan.mongosArgs[1]) THEN {} ELSE {<<0, 1>>}

\* Members that can be meant: arbiters have the priority 0, and one of the others has a
\* higher one, or none, which without a storage is made up for.
AreMeant(members) ==
  /\ \A i \in DOMAIN members : members[i].arbiter => members[i].priority = 0
  /\ \E i \in DOMAIN members :
       /\ ~members[i].arbiter /\ members[i].priority # 0
       /\ plan.storage => members[i].priority # Unasked

\* Whoever asks for a set without a list of members, or with one that can be meant, gets
\* a set whose first member, which it is initiated with, can be elected.
FirstIsElectable ==
  \A g \in DOMAIN sets :
    Elects(g) /\ (plan.rsMembers = Unasked \/ AreMeant(sets[g].members)) =>
      LET first == PrimaryIndex(sets[g].members)
      IN first # 0 /\ Electable(g, first)

\* A cluster that is up has added every shard once, as it runs, and owns all sets but a
\* second one of config servers.
ShardsAreAdded ==
  startOf = "up" /\ plan.topology = "sharded" =>
    /\ \A i \in DOMAIN addedShards : addedShards[i].set \in Shardsvrs
    /\ \A g \in Shardsvrs : \E i \in DOMAIN addedShards :
         /\ addedShards[i] = ShardSpec(g, SetName(g))
         /\ \A j \in DOMAIN addedShards : addedShards[j].set = g => j = i
    /\ NoName # sets[ConfigSet].name
    /\ Cardinality(ConfigSets) = 1 => OwnSets = DOMAIN sets

\* Ports are chosen for the lists of ports of services, and for nothing else in the file.
PortsAreOfServices ==
  \A i \in DOMAIN slsServices :
    \E s, p \in DOMAIN composeLines :
      /\ s < p /\ composeLines[s] = [kind |-> "key", name |-> slsServices[i].service]
      /\ composeLines[p].kind = "port" /\ composeLines[p].name = slsServices[i].var
      /\ \A k \in s+1..p : composeLines[k].kind = "port"
      /\ \E t \in 1..s : /\ composeLines[t] = [kind |-> "top", name |-> "services"]
                         /\ \A k \in t+1..s : composeLines[k].kind # "top"

\* Of a cluster with a storage, that elects or with shards, every part knows of the others.
ClusterIsWhole == StorageKnowsMembers /\ FirstIsElectable /\ ShardsAreAdded

\* Ports are given as the options say.
PortsAreAsAsked == OneServerHasThePort /\ PortsAreOfServices
=============================================================================
