---------------------------- MODULE Socks5Tunnel ----------------------------
(***************************************************************************)
(* The Socks5 tunnel of devtools-proxy-support (src/socks5.ts): a local    *)
(* server whose requests are forwarded through an agent that listen() or   *)
(* the first request initializes, until close().                           *)
(*                                                                         *)
(* An action is the code up to the next await that waits for I/O; what     *)
(* resumes on a promise settled by it belongs to the action.  close() is   *)
(* called, as in devtools-connect (connect.ts:557), by one owner once      *)
(* listen() has settled.                                                   *)
(***************************************************************************)
EXTENDS Naturals, FiniteSets

CONSTANTS
  Peers,      \* sockets of clients of the server, each used once
  Listen,     \* listen(), as a user of ensureAgentInitialized
  None

ASSUME PeersAssumption == Listen \notin Peers /\ None \notin Peers \cup {Listen}

Users == Peers \cup {Listen}

VARIABLES
  closed, agentInitialized,
  agentInitPromise,   \* the user that called agent.initialize(), or None
  connections,        \* the sockets closeOpenConnections knows of
  handle,             \* of the net.Server: none, opening or listening
  listen,             \* where listen() is
  listened,           \* has listen() seen 'listening'?
  close,              \* where close() is: what it still waits for
  init,               \* where each ensureAgentInitialized is
  req,                \* where each socks5Request is
  sock,               \* the socket of each request
  agentUp             \* ghost: agent.initialize() succeeded

agentVars  == <<agentInitialized, agentInitPromise, agentUp>>
socketVars == <<connections, sock>>
serverVars == <<closed, handle, close, listen, listened>>
vars == <<agentVars, socketVars, serverVars, init, req>>

Closing == [pc : {"none", "running", "done"}, server : BOOLEAN,
            sockets : SUBSET Peers]

Init ==
  /\ closed = TRUE
  /\ agentInitialized = FALSE
  /\ agentInitPromise = None
  /\ connections = {}
  /\ handle = "none"
  /\ listen = "idle"
  /\ listened = FALSE
  /\ close = [pc |-> "none", server |-> FALSE, sockets |-> {}]
  /\ init = [u \in Users |-> "none"]
  /\ req = [p \in Peers |-> "none"]
  /\ sock = [p \in Peers |-> "none"]
  /\ agentUp = FALSE

-----------------------------------------------------------------------------
(* Deviations a small slip in the code would give; no Spec uses them.      *)
InitializedRegardless(ok) == TRUE
NoInitCheck               == TRUE
KeepListening(h)          == h
HandleForgotten(h)        == None
ServerNotAwaited(c)       == c.pc = "running" /\ c.sockets = {}

(* Line 265 is reached only if initialize() succeeded.                     *)
InitializedAfter(ok) == ok

(* net.Server.close(): no more connections; a server that has no handle    *)
(* yet is not stopped from getting one.                                    *)
HandleAfterClose(h) == IF h = "listening" THEN "none" ELSE h

(* Users that return agentInitPromise instead of initializing (line 243).  *)
Joined(u) == init[u] = "shared"

(* Nobody is initializing the agent.                                       *)
MayInitialize == agentInitPromise = None

(* Somebody called serverClose() and waits for it.                         *)
AwaitsServer == close.server \/ \E u \in Users : init[u] = "serverClose"

SocketsGone == \A p \in Peers : sock[p] \in {"none", "closed"}

-----------------------------------------------------------------------------
(* listen().                                                               *)

CallListen ==
  /\ listen = "idle"
  /\ listen' = "credentials"
  /\ closed' = FALSE
  /\ UNCHANGED <<agentVars, socketVars, handle, close, listened, init, req>>

(* Credentials are there, or were not asked for; ensureAgentInitialized is  *)
(* called without waiting for the server (line 226).                        *)
StartListening ==
  /\ listen = "credentials"
  /\ listen' = "waiting"
  /\ handle' = "opening"
  /\ init' = [init EXCEPT ![Listen] = "agent"]
  /\ agentInitPromise' = Listen
  /\ UNCHANGED <<agentInitialized, agentUp, socketVars, closed, close, listened, req>>

(* Promise.all of listen() is satisfied.                                   *)
ListenResult(seen, i) ==
  IF listen = "waiting" /\ seen /\ i[Listen] = "ok" THEN "ok" ELSE listen

(* Without a handle 'close' is emitted at once (see ServerClosed).         *)
Listening ==
  /\ handle = "opening"
  /\ ~AwaitsServer
  /\ handle' = "listening"
  /\ listened' = TRUE
  /\ listen' = ListenResult(TRUE, init)
  /\ UNCHANGED <<agentVars, socketVars, closed, close, init, req>>

-----------------------------------------------------------------------------
(* close() of a tunnel that is not closed, up to its await.                *)
BeginClose ==
  /\ closed' = TRUE
  /\ handle' = HandleAfterClose(handle)
  /\ close' = [pc |-> "running", server |-> TRUE, sockets |-> connections]
  /\ sock' = [p \in Peers |->
       IF p \in connections /\ sock[p] = "open" THEN "destroyed" ELSE sock[p]]

CallClose ==
  /\ listen = "ok"
  /\ ~closed
  /\ BeginClose
  /\ UNCHANGED <<agentVars, connections, listen, listened, init, req>>

(* The server cannot listen: listen() closes the tunnel before it throws.  *)
ListenError ==
  /\ handle = "opening"
  /\ handle' = "none"
  /\ IF listen = "waiting"
     THEN /\ listen' = "closing"
          /\ closed' = TRUE
          /\ close' = [pc |-> "running", server |-> TRUE, sockets |-> {}]
     ELSE UNCHANGED <<listen, closed, close>>
  /\ UNCHANGED <<agentVars, socketVars, listened, init, req>>

(* close() settles as soon as it waits for nothing any more.               *)
Finished(c)    == c.pc = "running" /\ ~c.server /\ c.sockets = {}
AfterWait(c)   == IF Finished(c) THEN [c EXCEPT !.pc = "done"] ELSE c
ListenAfter(c) == IF Finished(c) /\ listen = "closing" THEN "failed" ELSE listen

(* 'close' of the server, for everyone who called serverClose(): close()   *)
(* and users whose initialize() failed, which throw now (line 261).        *)
ServerClosed ==
  /\ handle # "listening"
  /\ SocketsGone
  /\ AwaitsServer
  /\ init' = [u \in Users |-> IF init[u] = "serverClose" THEN "failed" ELSE init[u]]
  /\ req' = [p \in Peers |-> IF init[p] = "serverClose" THEN "denied" ELSE req[p]]
  /\ IF init[Listen] = "serverClose" /\ listen = "waiting"
     THEN /\ listen' = "closing"
          /\ BeginClose
     ELSE LET c == [close EXCEPT !.server = FALSE] IN
          /\ close' = AfterWait(c)
          /\ listen' = ListenAfter(c)
          /\ UNCHANGED <<closed, handle, sock>>
  /\ UNCHANGED <<agentVars, connections, listened>>

-----------------------------------------------------------------------------
(* The agent.                                                              *)

Waiters(u) == {w \in Users : w = u \/ Joined(w)}

(* agent.initialize() succeeds: everyone who waits for it goes on.         *)
AgentReady(u) ==
  /\ init[u] = "agent"
  /\ agentInitPromise' = None
  /\ agentInitialized' = (agentInitialized \/ InitializedAfter(TRUE))
  /\ agentUp' = TRUE
  /\ init' = [w \in Users |-> IF w \in Waiters(u) THEN "ok" ELSE init[w]]
  /\ req' = [p \in Peers |-> IF p \in Waiters(u) THEN "forward" ELSE req[p]]
  /\ listen' = ListenResult(listened, init')
  /\ UNCHANGED <<socketVars, closed, handle, close, listened>>

(* It fails: the one who called it closes the server and waits for that;   *)
(* those who only joined throw at once.                                    *)
AgentFails(u) ==
  /\ init[u] = "agent"
  /\ agentInitPromise' = None
  /\ agentInitialized' = (agentInitialized \/ InitializedAfter(FALSE))
  /\ init' = [w \in Users |->
       IF w = u THEN "serverClose" ELSE IF Joined(w) THEN "failed" ELSE init[w]]
  /\ req' = [p \in Peers |-> IF Joined(p) THEN "denied" ELSE req[p]]
  /\ handle' = HandleAfterClose(handle)
  /\ UNCHANGED <<agentUp, socketVars, closed, close, listen, listened>>

-----------------------------------------------------------------------------
(* Requests.                                                               *)

Connect(p) ==
  /\ handle = "listening"
  /\ sock[p] = "none"
  /\ sock' = [sock EXCEPT ![p] = "open"]
  /\ req' = [req EXCEPT ![p] = "handshake"]
  /\ UNCHANGED <<agentVars, connections, serverVars, init>>

(* socks5Request with ensureAgentInitialized (lines 239-253).              *)
Request(p) ==
  /\ req[p] = "handshake"
  /\ sock[p] = "open"
  /\ \/ /\ agentInitialized
        /\ req' = [req EXCEPT ![p] = "forward"]
        /\ UNCHANGED <<init, agentInitPromise>>
     \/ /\ ~agentInitialized
        /\ ~MayInitialize
        /\ req' = [req EXCEPT ![p] = "init"]
        /\ init' = [init EXCEPT ![p] = "shared"]
        /\ UNCHANGED agentInitPromise
     \/ /\ ~agentInitialized
        /\ MayInitialize
        /\ closed
        /\ req' = [req EXCEPT ![p] = "denied"]
        /\ UNCHANGED <<init, agentInitPromise>>
     \/ /\ ~agentInitialized
        /\ MayInitialize
        /\ ~closed
        /\ req' = [req EXCEPT ![p] = "init"]
        /\ init' = [init EXCEPT ![p] = "agent"]
        /\ agentInitPromise' = p
  /\ UNCHANGED <<agentInitialized, agentUp, socketVars, serverVars>>

(* The agent's channel is there: the socket is accepted and remembered,    *)
(* in whatever state it is by now.                                         *)
Accept(p) ==
  /\ req[p] = "forward"
  /\ req' = [req EXCEPT ![p] = "piped"]
  /\ connections' = connections \cup {p}
  /\ UNCHANGED <<agentVars, sock, serverVars, init>>

(* The agent has no channel for it.                                        *)
Deny(p) ==
  /\ req[p] = "forward"
  /\ req' = [req EXCEPT ![p] = "denied"]
  /\ UNCHANGED <<agentVars, socketVars, serverVars, init>>

(* 'close' of the socket: it was destroyed, its channel closed, or the     *)
(* peer hung up.                                                           *)
SocketClosed(p) ==
  /\ sock[p] \in {"open", "destroyed"}
  /\ sock' = [sock EXCEPT ![p] = "closed"]
  /\ LET c == [close EXCEPT !.sockets = @ \ {p}] IN
     /\ connections' = IF p \in close.sockets /\ c.sockets = {} THEN {}
                       ELSE connections \ {p}
     /\ close' = AfterWait(c)
     /\ listen' = ListenAfter(c)
  /\ UNCHANGED <<agentVars, closed, handle, listened, init, req>>

-----------------------------------------------------------------------------
AgentSettles == \E u \in Users : AgentReady(u) \/ AgentFails(u)

Server == StartListening \/ Listening \/ ListenError \/ ServerClosed

Next ==
  \/ CallListen \/ CallClose \/ Server \/ AgentSettles
  \/ \E p \in Peers :
       Connect(p) \/ Request(p) \/ Accept(p) \/ Deny(p) \/ SocketClosed(p)

Spec == Init /\ [][Next]_vars

(* Peers give up what is not answered, and everything once the tunnel is   *)
(* closed: its owner closes the client of the tunnel first (connect.ts:646)*)
Leave(p) == (closed \/ req[p] # "piped") /\ SocketClosed(p)

Fairness ==
  /\ WF_vars(Server)
  /\ WF_vars(AgentSettles)
  /\ \A p \in Peers : WF_vars(Leave(p)) /\ WF_vars(Accept(p) \/ Deny(p))

FairSpec == Spec /\ Fairness

-----------------------------------------------------------------------------
(* Every variable has a value of its kind.                                 *)
TypeOK ==
  /\ closed \in BOOLEAN /\ agentInitialized \in BOOLEAN
  /\ agentInitPromise \in Users \cup {None}
  /\ connections \subseteq Peers
  /\ handle \in {"none", "opening", "listening"}
  /\ listen \in {"idle", "credentials", "waiting", "closing", "ok", "failed"}
  /\ listened \in BOOLEAN
  /\ close \in Closing
  /\ init \in [Users -> {"none", "agent", "shared", "serverClose", "ok", "failed"}]
  /\ req \in [Peers -> {"none", "handshake", "init", "forward", "piped", "denied"}]
  /\ sock \in [Peers -> {"none", "open", "destroyed", "closed"}]
  /\ agentUp \in BOOLEAN

(* agent.initialize() runs at most once at a time, and whoever waits for   *)
(* agentInitPromise waits for a call that is still under way.              *)
OneInitialize ==
  /\ \A u \in Users : init[u] = "agent" <=> agentInitPromise = u
  /\ (\E u \in Users : Joined(u)) => agentInitPromise # None

(* No request is forwarded, and listen() does not resolve, before the      *)
(* agent was initialized successfully, whoever initialized it.             *)
ForwardsInitialized ==
  /\ \A p \in Peers : req[p] \in {"forward", "piped"} => agentUp
  /\ listen = "ok" => agentUp

(* The agent is initialized by one user at a time, and used by none before *)
(* that has succeeded.                                                     *)
AgentIsReady == OneInitialize /\ ForwardsInitialized

(* "we want to await on closing the connections" (socks5.ts:286): when the *)
(* close() of a tunnel that was listening returns, the server is down and  *)
(* no peer is connected, not even one whose request was forwarded so late  *)
(* that closeOpenConnections missed it.                                    *)
ClosedIsQuiet ==
  listen = "ok" /\ close.pc = "done" =>
    handle = "none" /\ SocketsGone

(* "A socks5 request could come in after we deliberately closed the        *)
(* connection. Don't reconnect in that case." (socks5.ts:248): a request   *)
(* that meets a closed tunnel is not handed to the agent.                  *)
NoForwardOnceClosed ==
  [][closed => \A p \in Peers : req[p] = "handshake" => req'[p] # "forward"]_vars

(* close() waits for a socket that was gone before it was accepted, and of *)
(* which no 'close' event is to come.                                      *)
Stuck == \E p \in close.sockets : sock[p] = "closed"

(* close() settles, also while requests are being forwarded, unless it is  *)
(* Stuck; nothing else can keep it waiting.                                *)
CloseSettles == close.pc = "running" ~> close.pc = "done" \/ Stuck

(* listen() settles, whatever requests meet it half-way, unless a second   *)
(* initialize() succeeded and a peer keeps its connection.                 *)
ListenSettles ==
  listen = "waiting" ~>
    listen # "waiting" \/ \E p \in Peers : req[p] = "piped"

(* Neither of the two calls of a tunnel waits for ever, except as said.    *)
TunnelSettles == CloseSettles /\ ListenSettles
=============================================================================
