-------------------------------- MODULE Connect --------------------------------
(***************************************************************************)
(* connectMongoClient of devtools-connect (src/connect.ts): at most two    *)
(* attempts per call, each with an agent, a Socks5 tunnel, a client that   *)
(* checks for encryption and the client that is returned, and a list of    *)
(* cleanups that the 'close' event of that client and the catch block of   *)
(* the attempt both work off.                                              *)
(*                                                                         *)
(* An action is the code between two awaits that wait for I/O.  The driver,*)
(* the agents and the tunnel are external; heartbeats stop with close().   *)
(***************************************************************************)
EXTENDS Naturals, Sequences, SequencesExt

CONSTANTS
  Calls,       \* calls of connectMongoClient; all share parentState
  Servers,     \* addresses of servers
  ServersOf,   \* ServersOf[c]: those a topology of call c may know
  OptionsOf,   \* OptionsOf[c]: the options call c may be given
  SharedAgent  \* the agent callers may pass in

Kinds     == {"tls", "refused"}      \* the failures that are fail-fast
Proxies   == {"none", "options", "agent"}
Options   == [proxy : Proxies, proxyHost : BOOLEAN, fle : BOOLEAN,
              systemCA : BOOLEAN]

ASSUME OptionsAssumption == OptionsOf \in [Calls -> SUBSET Options]

Attempts  == Calls \X {1, 2}
Runners   == {"event", "catch"}      \* who runs runClose
Items     == {"agent", "tunnel"}     \* what cleanupOnClientClose holds
Roles     == {"pre", "main"}         \* the clients of an attempt
Agents    == Attempts \cup {SharedAgent}

ASSUME ServersAssumption == ServersOf \in [Calls -> SUBSET Servers]

ASSUME SharedAgentAssumption == SharedAgent \notin Attempts

VARIABLES
  opt,         \* the options of each call
  pc,          \* what each attempt awaits
  err,         \* what it will throw
  todo,        \* cleanupOnClientClose
  runner,      \* the cleanup each runClose awaits, or "none"
  agents,      \* the agents that were not destroyed
  tunnels,     \* the attempts whose tunnel listens
  client,      \* state of the clients of each attempt
  known,       \* servers in the topology of the client that connects
  failed,      \* failedConnections, in the order of the Map
  early,       \* failEarlyClosePromise is set
  broken,      \* ghost: attempts one of whose cleanups rejected
  down         \* ghost: servers whose last telling heartbeat was fail-fast

heartbeatVars == <<known, failed, early, down>>
cleanupVars   == <<todo, runner, agents, tunnels, broken>>
vars == <<opt, pc, err, client, cleanupVars, heartbeatVars>>

PCs == {"idle", "systemCA", "listen", "preConnect", "buildInfo", "preClose",
        "preCloseThrow", "resolveSrv", "connect", "catch", "returned", "threw"}
ClientStates == {"none", "connecting", "open", "closing", "closed"}

Init ==
  /\ opt \in {o \in [Calls -> Options] : \A c \in Calls : o[c] \in OptionsOf[c]}
  /\ pc = [a \in Attempts |-> "idle"]
  /\ err = [a \in Attempts |-> "none"]
  /\ todo = [a \in Attempts |-> <<>>]
  /\ runner = [a \in Attempts |-> [r \in Runners |-> "none"]]
  /\ agents = {SharedAgent}
  /\ tunnels = {}
  /\ client = [a \in Attempts |-> [k \in Roles |-> "none"]]
  /\ known = [a \in Attempts |-> {}]
  /\ failed = [a \in Attempts |-> <<>>]
  /\ early = [a \in Attempts |-> FALSE]
  /\ broken = {}
  /\ down = [a \in Attempts |-> {}]

-----------------------------------------------------------------------------
OptionsFor(a) == opt[a[1]]

(* The agent an attempt uses (line 522).                                   *)
AgentOf(a) == IF OptionsFor(a).proxy = "agent" THEN SharedAgent ELSE a
HasAgent(a)  == OptionsFor(a).proxy # "none"
HasTunnel(a) == HasAgent(a) /\ ~OptionsFor(a).proxyHost

(* Deviations a small slip in the code would give; no Spec uses them.      *)
KeepFailed(f, s)          == f
RunByEveryClient(k)       == TRUE
RunByNoClient(k)          == FALSE
NeverRetried(e)           == FALSE
OnlyTunnel(a)             == IF HasTunnel(a) THEN <<"tunnel">> ELSE <<>>
TunnelTwice(a)            == <<"agent", "tunnel", "tunnel">>

(* The client whose connect() the attempt awaits.                          *)
Role(a) == IF pc[a] = "preConnect" THEN "pre" ELSE "main"
Connecting(a) == pc[a] \in {"preConnect", "connect"}

Topologies(a) == SUBSET ServersOf[a[1]] \ {{}}

FailedServers(f) == {f[i][1] : i \in DOMAIN f}

(* Map.set keeps the place of a key that is there; a key is there once.    *)
SetFailed(f, s, kind) ==
  IF s \in FailedServers(f)
  THEN [i \in DOMAIN f |-> IF f[i][1] = s THEN <<s, kind>> ELSE f[i]]
  ELSE Append(f, <<s, kind>>)
DeleteFailed(f, s) ==
  IF s \in FailedServers(f)
  THEN RemoveAt(f, CHOOSE i \in DOMAIN f : f[i][1] = s)
  ELSE f

(* Every server of the topology failed (lines 100-101).                    *)
AllFailed(f, servers) == servers \subseteq FailedServers(f)

-----------------------------------------------------------------------------
(* runClose (lines 478-482).                                               *)

(* r begins: it takes the first cleanup, if there is one.                  *)
Shift(a, r, items) ==
  /\ todo' = [todo EXCEPT ![a] = IF items = <<>> THEN items ELSE Tail(items)]
  /\ runner' = [runner EXCEPT ![a][r] =
       IF items = <<>> THEN "none" ELSE Head(items)]

(* Cleanups there are for a, in the order they are pushed (528, 557).      *)
CleanupsOf(a) == IF HasTunnel(a) THEN <<"agent", "tunnel">> ELSE <<"agent">>

(* The catch block of an attempt that is to throw e.                       *)
Catch(a, e) ==
  /\ err' = [err EXCEPT ![a] = e]
  /\ Shift(a, "catch", todo[a])
  /\ pc' = [pc EXCEPT ![a] = IF todo[a] = <<>> THEN "threw" ELSE "catch"]
  /\ UNCHANGED <<agents, tunnels, broken>>

(* Closing a tunnel destroys its agent too (socks5.ts:289).                *)
Cleaned(a, item) ==
  /\ agents' = IF HasAgent(a) THEN agents \ {AgentOf(a)} ELSE agents
  /\ tunnels' = IF item = "tunnel" THEN tunnels \ {a} ELSE tunnels

CleanupDone(a, r) ==
  /\ runner[a][r] # "none"
  /\ Cleaned(a, runner[a][r])
  /\ Shift(a, r, todo[a])
  /\ pc' = IF r = "catch" /\ todo[a] = <<>> THEN [pc EXCEPT ![a] = "threw"] ELSE pc
  /\ UNCHANGED <<opt, err, client, broken, heartbeatVars>>

(* destroy() rejects: for an agent without its own tunnel, or the caller's.*)
(* The catch block then throws that error instead.                         *)
CleanupRejects(a, r) ==
  /\ runner[a][r] = "agent"
  /\ HasAgent(a)
  /\ a \in tunnels => AgentOf(a) = SharedAgent
  /\ runner' = [runner EXCEPT ![a][r] = "none"]
  /\ broken' = broken \cup {a}
  /\ IF r = "catch"
     THEN /\ pc' = [pc EXCEPT ![a] = "threw"]
          /\ err' = [err EXCEPT ![a] = "other"]
     ELSE UNCHANGED <<pc, err>>
  /\ UNCHANGED <<opt, client, todo, agents, tunnels, heartbeatVars>>

-----------------------------------------------------------------------------
(* connectWithFailFast (lines 61-150).                                     *)

(* A new client connects; the topology starts with some servers.           *)
StartConnect(a, k) ==
  /\ pc' = [pc EXCEPT ![a] = IF k = "pre" THEN "preConnect" ELSE "connect"]
  /\ client' = [client EXCEPT ![a][k] = "connecting"]
  /\ \E s \in Topologies(a) : known' = [known EXCEPT ![a] = s]
  /\ failed' = [failed EXCEPT ![a] = <<>>]
  /\ early' = [early EXCEPT ![a] = FALSE]
  /\ down' = [down EXCEPT ![a] = {}]

(* It is over: its listeners and its map are gone (lines 138-143).         *)
EndConnect(a) ==
  /\ known' = [known EXCEPT ![a] = {}]
  /\ failed' = [failed EXCEPT ![a] = <<>>]
  /\ early' = [early EXCEPT ![a] = FALSE]
  /\ down' = [down EXCEPT ![a] = {}]

(* The topology learns of servers and forgets others.                      *)
TopologyChanges(a) ==
  /\ Connecting(a) /\ client[a][Role(a)] = "connecting"
  /\ \E s \in Topologies(a) : known' = [known EXCEPT ![a] = s]
  /\ UNCHANGED <<opt, pc, err, client, cleanupVars, failed, early, down>>

(* Failures that are not fail-fast or of unknown servers change nothing.   *)
HeartbeatFailed(a, s, kind) ==
  /\ Connecting(a) /\ client[a][Role(a)] = "connecting"
  /\ s \in known[a]
  /\ LET f == SetFailed(failed[a], s, kind)
         all == AllFailed(f, known[a])
     IN /\ failed' = [failed EXCEPT ![a] = f]
        /\ early' = [early EXCEPT ![a] = all]
        /\ client' = IF all THEN [client EXCEPT ![a][Role(a)] = "closing"] ELSE client
  /\ down' = [down EXCEPT ![a] = @ \cup {s}]
  /\ UNCHANGED <<opt, pc, err, cleanupVars, known>>

HeartbeatSucceeded(a, s) ==
  /\ Connecting(a) /\ client[a][Role(a)] = "connecting"
  /\ failed' = [failed EXCEPT ![a] = DeleteFailed(failed[a], s)]
  /\ down' = [down EXCEPT ![a] = @ \ {s}]
  /\ UNCHANGED <<opt, pc, err, client, cleanupVars, known, early>>

(* connect() resolves; the options are tested for encryption (620-633).    *)
Connected(a) ==
  /\ Connecting(a) /\ client[a][Role(a)] = "connecting"
  /\ client' = [client EXCEPT ![a][Role(a)] = "open"]
  /\ pc' = [pc EXCEPT ![a] = IF Role(a) = "pre" THEN "buildInfo" ELSE "returned"]
  /\ EndConnect(a)
  /\ UNCHANGED <<opt, err, cleanupVars>>

(* connect() rejects: the driver gave up, or close() was called.           *)
ConnectFails(a, e) ==
  /\ Connecting(a)
  /\ ~early[a]
  /\ Catch(a, e)
  /\ client' = [client EXCEPT ![a][Role(a)] = IF @ = "connecting" THEN "closed" ELSE @]
  /\ EndConnect(a)
  /\ UNCHANGED opt

(* The attempt awaited the close() it failed early with (lines 124-127).   *)
FailEarly(a) ==
  /\ Connecting(a)
  /\ early[a]
  /\ client[a][Role(a)] = "closed"
  /\ Catch(a, IF failed[a][1][2] = "tls" THEN "tls" ELSE "other")
  /\ EndConnect(a)
  /\ UNCHANGED <<opt, client>>

-----------------------------------------------------------------------------
(* connectMongoClientImpl (lines 460-660).                                 *)

UsesSystemCA(a) == a[2] = 1 /\ OptionsFor(a).systemCA

(* Agent and tunnel are made (lines 522-583); then on to the clients.      *)
Continue(a) ==
  IF OptionsFor(a).fle
  THEN StartConnect(a, "pre")
  ELSE /\ pc' = [pc EXCEPT ![a] = "resolveSrv"]
       /\ UNCHANGED <<client, heartbeatVars>>

Prepare(a) ==
  /\ agents' = IF OptionsFor(a).proxy = "options" THEN agents \cup {a} ELSE agents
  /\ todo' = [todo EXCEPT ![a] = CleanupsOf(a)]
  /\ IF HasTunnel(a)
     THEN /\ pc' = [pc EXCEPT ![a] = "listen"]
          /\ UNCHANGED <<client, heartbeatVars>>
     ELSE Continue(a)

(* The second attempt is made only for a TLS error of the first (447-455). *)
Retried(e) == e = "tls"

Begin(a) ==
  /\ pc[a] = "idle"
  /\ a[2] = 2 => pc[<<a[1], 1>>] = "threw" /\ Retried(err[<<a[1], 1>>])
  /\ IF UsesSystemCA(a)
     THEN /\ pc' = [pc EXCEPT ![a] = "systemCA"]
          /\ UNCHANGED <<agents, todo, client, heartbeatVars>>
     ELSE Prepare(a)
  /\ UNCHANGED <<opt, err, runner, tunnels, broken>>

SystemCARead(a) ==
  /\ pc[a] = "systemCA"
  /\ Prepare(a)
  /\ UNCHANGED <<opt, err, runner, tunnels, broken>>

SystemCAFails(a) ==
  /\ pc[a] = "systemCA"
  /\ Catch(a, "other")
  /\ UNCHANGED <<opt, client, heartbeatVars>>

Listening(a) ==
  /\ pc[a] = "listen"
  /\ tunnels' = tunnels \cup {a}
  /\ Continue(a)
  /\ UNCHANGED <<opt, err, todo, runner, agents, broken>>

ListenFails(a) ==
  /\ pc[a] = "listen"
  /\ Catch(a, "other")
  /\ UNCHANGED <<opt, client, heartbeatVars>>

(* buildInfo answers; whether the server is enterprise is tested after the *)
(* client was closed (lines 632-642).                                      *)
BuildInfo(a) ==
  /\ pc[a] = "buildInfo"
  /\ client[a]["pre"] = "open"
  /\ client' = [client EXCEPT ![a]["pre"] = "closing"]
  /\ \E next \in {"preClose", "preCloseThrow"} : pc' = [pc EXCEPT ![a] = next]
  /\ UNCHANGED <<opt, err, cleanupVars, heartbeatVars>>

BuildInfoFails(a) ==
  /\ pc[a] = "buildInfo"
  /\ Catch(a, "other")
  /\ UNCHANGED <<opt, client, heartbeatVars>>

SrvResolved(a) ==
  /\ pc[a] = "resolveSrv"
  /\ StartConnect(a, "main")
  /\ UNCHANGED <<opt, err, cleanupVars>>

SrvFails(a) ==
  /\ pc[a] = "resolveSrv"
  /\ Catch(a, "other")
  /\ UNCHANGED <<opt, client, heartbeatVars>>

-----------------------------------------------------------------------------
(* close() of a client; it always emits 'close' (lines 722-733), on which  *)
(* the main client runs the cleanups (line 646).                           *)
RunsCleanup(k) == k = "main"

ClientClosed(a, k) ==
  /\ client[a][k] = "closing"
  /\ client' = [client EXCEPT ![a][k] = "closed"]
  /\ IF RunsCleanup(k) /\ runner[a]["event"] = "none"
     THEN Shift(a, "event", todo[a])
     ELSE UNCHANGED <<todo, runner>>
  /\ UNCHANGED <<opt, pc, err, agents, tunnels, broken, heartbeatVars>>

(* The attempt goes on once the client without encryption is closed.       *)
PreClosed(a) ==
  /\ client[a]["pre"] = "closed"
  /\ \/ /\ pc[a] = "preClose"
        /\ pc' = [pc EXCEPT ![a] = "resolveSrv"]
        /\ UNCHANGED <<err, cleanupVars>>
     \/ /\ pc[a] = "preCloseThrow"
        /\ Catch(a, "other")
  /\ UNCHANGED <<opt, client, heartbeatVars>>

(* The user closes the client that was returned.                           *)
UserCloses(a) ==
  /\ pc[a] = "returned"
  /\ client[a]["main"] = "open"
  /\ client' = [client EXCEPT ![a]["main"] = "closing"]
  /\ UNCHANGED <<opt, pc, err, cleanupVars, heartbeatVars>>

(* The OIDC plugin of the shared state reports that authentication failed: *)
(* every client that is registered with it is closed (lines 739-743).      *)
Live(s) == s \in {"connecting", "open"}
AuthFails ==
  /\ \E a \in Attempts, k \in Roles : Live(client[a][k])
  /\ client' = [a \in Attempts |-> [k \in Roles |->
       IF Live(client[a][k]) THEN "closing" ELSE client[a][k]]]
  /\ UNCHANGED <<opt, pc, err, cleanupVars, heartbeatVars>>

-----------------------------------------------------------------------------
(* What the code and the driver do by themselves.                          *)
Step(a) ==
  \/ Begin(a)       \/ SystemCARead(a)  \/ SystemCAFails(a)
  \/ Listening(a)   \/ ListenFails(a)
  \/ Connected(a)   \/ \E e \in {"tls", "other"} : ConnectFails(a, e)
  \/ FailEarly(a)
  \/ BuildInfo(a)   \/ BuildInfoFails(a) \/ PreClosed(a)
  \/ SrvResolved(a) \/ SrvFails(a)
Cleanup(a, r) == CleanupDone(a, r) \/ CleanupRejects(a, r)

(* What happens to an attempt.                                             *)
Event(a) ==
  \/ TopologyChanges(a)
  \/ \E s \in Servers : \/ \E kind \in Kinds : HeartbeatFailed(a, s, kind)
                        \/ HeartbeatSucceeded(a, s)
  \/ UserCloses(a)

Next ==
  \/ \E a \in Attempts : \/ Step(a)
                         \/ Event(a)
                         \/ \E r \in Runners : Cleanup(a, r)
                         \/ \E k \in Roles : ClientClosed(a, k)
  \/ AuthFails

Spec == Init /\ [][Next]_vars

(* The event loop runs what is ready; the driver and the agents answer.    *)
Fairness ==
  \A a \in Attempts : /\ WF_vars(Step(a))
                      /\ \A r \in Runners : WF_vars(Cleanup(a, r))
                      /\ \A k \in Roles : WF_vars(ClientClosed(a, k))
FairSpec == Spec /\ Fairness

-----------------------------------------------------------------------------
(* Types.                                                                  *)
TypeOK ==
  /\ opt \in [Calls -> Options]
  /\ pc \in [Attempts -> PCs]
  /\ err \in [Attempts -> {"none", "tls", "other"}]
  /\ todo \in [Attempts -> {<<>>, <<"agent">>, <<"tunnel">>, <<"agent", "tunnel">>}]
  /\ runner \in [Attempts -> [Runners -> Items \cup {"none"}]]
  /\ agents \in SUBSET Agents
  /\ tunnels \in SUBSET Attempts
  /\ client \in [Attempts -> [Roles -> ClientStates]]
  /\ known \in [Attempts -> SUBSET Servers]
  /\ failed \in [Attempts -> Seq(Servers \X Kinds)]
  /\ early \in [Attempts -> BOOLEAN]
  /\ broken \in SUBSET Attempts
  /\ down \in [Attempts -> SUBSET Servers]

(* Nobody still works off the cleanups of a.                               *)
Idle(a) == \A r \in Runners : runner[a][r] = "none"

(* Two runClose may share one list, and each leaves when it finds it empty;*)
(* still, once an attempt has thrown and none is at work, its agent, its   *)
(* tunnel and its main client are gone.  Excepted: a cleanup that rejects  *)
(* ends its runClose (line 481).                                           *)
FailureLeavesNothing ==
  \A a \in Attempts :
    pc[a] = "threw" /\ Idle(a) /\ a \notin broken =>
      /\ a \notin agents
      /\ a \notin tunnels
      /\ todo[a] = <<>>
      /\ ~Live(client[a]["main"])

(* While a returned client is open, the agent made for it and its tunnel   *)
(* are there: closing the client that checked for encryption, failing an   *)
(* earlier attempt or closing another call's client does not take them.    *)
ReturnedIsServed ==
  \A a \in Attempts :
    pc[a] = "returned" /\ client[a]["main"] = "open" =>
      /\ OptionsFor(a).proxy = "options" => a \in agents
      /\ HasTunnel(a) => a \in tunnels

(* The agent and the tunnel are up for those who need them, and for them   *)
(* alone.                                                                  *)
ProxyFollowsClient == FailureLeavesNothing /\ ReturnedIsServed

(* An attempt is given up early only when the last telling heartbeat of    *)
(* every server of the topology was a fail-fast failure (lines 98-105).    *)
EarlyMeansAllDown ==
  [][\A a \in Attempts : early'[a] /\ ~early[a] => known[a] \subseteq down'[a]]_vars

(* Every call returns or throws, also when its clients are closed by the   *)
(* authentication failure of another, or fail early while connecting.      *)
CallSettles ==
  \A c \in Calls :
    (pc[<<c, 1>>] # "idle") ~>
      \/ \E i \in {1, 2} : pc[<<c, i>>] = "returned"
      \/ pc[<<c, 1>>] = "threw" /\ err[<<c, 1>>] # "tls"
      \/ pc[<<c, 2>>] = "threw"

(* A returned client that is closed takes its agent and its tunnel with it.*)
CloseCleansUp ==
  \A a \in Attempts :
    (pc[a] = "returned" /\ client[a]["main"] = "closed") ~>
      (a \in broken \/ (a \notin agents /\ a \notin tunnels))

(* Calls come to their end, and so does what their clients used.           *)
ConnectSettles == CallSettles /\ CloseCleansUp
=============================================================================
