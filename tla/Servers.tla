------------------------------- MODULE Servers -------------------------------
(* Servers (mongodb-runner) and those who read what they log: the start of a    *)
(* mongod or mongos, which waits for a port; the plan of a cluster of them; and *)
(* the checker of warnings (mongodb-server-log-checker).                        *)
EXTENDS ServerStart, ClusterPlan, LogChecker

ServersSpec == StartSpec /\ PlanSpec /\ CheckerSpec

\* What servers log is read: by start(), which waits for the port (mongoserver.ts), and
\* on behalf of those who watch for warnings (mongodb-server-log-checker); and the servers
\* of a cluster know of each other and have the ports they were given (mongocluster.ts).
ServersAreSound ==
  StartIsSound /\ ClusterIsWhole /\ PortsAreAsAsked /\ UnexpectedIsReported
=============================================================================
