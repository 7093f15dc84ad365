------------------------- MODULE Socks5Tunnel_proofs -------------------------
(***************************************************************************)
(* Theorems about Socks5Tunnel, for any number of peers, and about what    *)
(* decides on its way: the cache of agents (AgentCache), for any requests  *)
(* and size, and the readers of the options (ProxyRoutes), for any options.*)
(***************************************************************************)
EXTENDS Socks5Tunnel, Proxies, SequenceTheorems, TLAPS

(* Before the server is asked to listen nothing has happened to anybody.     *)
Early ==
  listen \in {"idle", "credentials"} =>
    /\ handle = "none" /\ ~listened
    /\ agentInitPromise = None
    /\ \A u \in Users : init[u] = "none"
    /\ \A p \in Peers : sock[p] = "none"

(* A request begins with its connection, and an initialization with it.      *)
Places ==
  \A p \in Peers :
    /\ sock[p] = "none" => req[p] = "none"
    /\ req[p] \in {"none", "handshake"} => init[p] = "none"

(* What says that the agent was initialized.                                 *)
Known ==
  /\ agentInitialized => agentUp
  /\ init[Listen] = "ok" => agentUp

(* The server listens at most once; close() begins when listen() has given   *)
(* up or resolved, and once the server is closed nothing connects.           *)
Course ==
  /\ handle = "opening" => ~listened
  /\ listen = "ok" => listened
  /\ close.pc # "none" => listen \in {"closing", "failed", "ok"}
  /\ close.pc = "done" => ~close.server
  /\ listen = "ok" /\ close.pc # "none" /\ ~close.server =>
       handle = "none" /\ SocketsGone

IInv ==
  /\ TypeOK /\ OneInitialize /\ ForwardsInitialized
  /\ Early /\ Places /\ Known /\ Course

-----------------------------------------------------------------------------
LEMMA Distinct == Listen \in Users /\ Peers \subseteq Users /\ None \notin Users
                  /\ Listen \notin Peers
BY PeersAssumption DEF Users

LEMMA ServerDown ==
  ASSUME NEW STATE c, c \in Closing
  PROVE  /\ [c EXCEPT !.server = FALSE] \in Closing
         /\ [c EXCEPT !.server = FALSE].pc = c.pc
         /\ ~[c EXCEPT !.server = FALSE].server
BY DEF Closing

LEMMA SocketLeft ==
  ASSUME NEW STATE c, c \in Closing, NEW p
  PROVE  /\ [c EXCEPT !.sockets = @ \ {p}] \in Closing
         /\ [c EXCEPT !.sockets = @ \ {p}].pc = c.pc
         /\ [c EXCEPT !.sockets = @ \ {p}].server = c.server
BY DEF Closing

LEMMA Waited ==
  ASSUME NEW STATE c, c \in Closing
  PROVE  /\ AfterWait(c) \in Closing
         /\ AfterWait(c).server = c.server
         /\ AfterWait(c).pc # "none" => c.pc # "none"
         /\ AfterWait(c).pc = "done" => c.pc = "done" \/ ~c.server
<1>1. CASE Finished(c)
  <2>1. AfterWait(c) = [c EXCEPT !.pc = "done"] /\ c.pc = "running"
        BY <1>1 DEF AfterWait, Finished
  <2>2. [c EXCEPT !.pc = "done"] \in Closing
        /\ [c EXCEPT !.pc = "done"].server = c.server
        BY DEF Closing
  <2>3. QED BY <1>1, <2>1, <2>2 DEF Finished
<1>2. CASE ~Finished(c)
      BY <1>2 DEF AfterWait
<1>3. QED BY <1>1, <1>2

LEMMA InitOK == Init => IInv
<1> SUFFICES ASSUME Init
             PROVE  IInv
    OBVIOUS
<1>1. close \in Closing /\ close.pc = "none"
      BY DEF Init, Closing
<1>2. TypeOK
      BY <1>1 DEF Init, TypeOK
<1>3. OneInitialize /\ ForwardsInitialized
      BY Distinct DEF Init, OneInitialize, ForwardsInitialized, Joined
<1>4. Early /\ Places /\ Known /\ Course
      BY <1>1, Distinct DEF Init, Early, Places, Known, Course
<1>5. QED BY <1>2, <1>3, <1>4 DEF IInv

-----------------------------------------------------------------------------
(* listen() and the events of the server.                                    *)
LEMMA ListenSteps ==
  IInv /\ (CallListen \/ StartListening \/ Listening) => IInv'
<1> SUFFICES ASSUME IInv, CallListen \/ StartListening \/ Listening
             PROVE  IInv'
    OBVIOUS
<1> USE DEF IInv
<1>1. CASE CallListen
      BY <1>1 DEF CallListen, agentVars, socketVars, TypeOK, OneInitialize,
         ForwardsInitialized, Early, Places, Known, Course, Joined, SocketsGone
<1>2. CASE StartListening
  <2> USE <1>2 DEF StartListening, agentVars, socketVars
  <2>1. TypeOK'
        BY Distinct DEF TypeOK
  <2>2. OneInitialize'
        BY Distinct DEF TypeOK, OneInitialize, Early, Joined
  <2>3. Early' /\ Known'
        BY Distinct DEF TypeOK, Early, Known
  <2>4. Places'
        BY Distinct DEF TypeOK, Places
  <2>5. ForwardsInitialized' /\ Course'
        BY DEF TypeOK, ForwardsInitialized, Early, Course, SocketsGone
  <2>6. QED BY <2>1, <2>2, <2>3, <2>4, <2>5
<1>3. CASE Listening
  <2> USE <1>3 DEF Listening, agentVars, socketVars
  <2>1. /\ listen' \in {listen, "ok"}
        /\ listen' # listen => listen = "waiting" /\ init[Listen] = "ok"
        BY DEF ListenResult
  <2>2. TypeOK'
        BY <2>1 DEF TypeOK
  <2>3. OneInitialize' /\ Places' /\ Known'
        BY DEF OneInitialize, Places, Known, Joined
  <2>4. ForwardsInitialized' /\ Early' /\ Course'
        BY <2>1 DEF ForwardsInitialized, Early, Known, Course
  <2>5. QED BY <2>2, <2>3, <2>4
<1>4. QED BY <1>1, <1>2, <1>3

LEMMA CloseSteps ==
  IInv /\ (CallClose \/ ListenError \/ ServerClosed) => IInv'
<1> SUFFICES ASSUME IInv, CallClose \/ ListenError \/ ServerClosed
             PROVE  IInv'
    OBVIOUS
<1> USE DEF IInv
<1>1. CASE CallClose
  <2> USE <1>1 DEF CallClose, BeginClose, agentVars
  <2>1. /\ handle' \in {"none", handle}
        /\ \A p \in Peers : sock'[p] = sock[p] \/ (sock[p] = "open"
                                                   /\ sock'[p] = "destroyed")
        BY DEF HandleAfterClose
  <2>2. TypeOK'
        BY <2>1 DEF TypeOK, Closing
  <2>3. OneInitialize' /\ ForwardsInitialized' /\ Early' /\ Known' /\ Course'
        BY <2>1 DEF OneInitialize, Joined, ForwardsInitialized, Early, Known, Course
  <2>4. Places'
        BY <2>1 DEF Places
  <2>5. QED BY <2>2, <2>3, <2>4
<1>2. CASE ListenError
  <2> USE <1>2 DEF ListenError, agentVars, socketVars
  <2>1. TypeOK'
    <3>1. [pc |-> "running", server |-> TRUE, sockets |-> {}] \in Closing
          BY DEF Closing
    <3>2. close' \in Closing
          BY <3>1 DEF TypeOK
    <3>3. QED BY <3>2 DEF TypeOK
  <2>2. OneInitialize' /\ ForwardsInitialized' /\ Early' /\ Places' /\ Known'
        BY DEF OneInitialize, Joined, ForwardsInitialized, Early, Places, Known
  <2>3. Course'
        BY DEF Course
  <2>4. QED BY <2>1, <2>2, <2>3
<1>3. CASE ServerClosed
  <2> USE <1>3 DEF ServerClosed, agentVars
  <2>1. /\ \A u \in Users : init'[u] = init[u] \/ (init[u] = "serverClose"
                                                   /\ init'[u] = "failed")
        /\ \A p \in Peers : req'[p] = req[p] \/ (init[p] = "serverClose"
                                                 /\ req'[p] = "denied")
        /\ init' \in [Users -> {"none", "agent", "shared", "serverClose", "ok", "failed"}]
        /\ req' \in [Peers -> {"none", "handshake", "init", "forward", "piped", "denied"}]
        BY Distinct DEF TypeOK
  <2>2. listen \in {"idle", "credentials"} => handle = "none"
        BY DEF Early
  <2>3. OneInitialize'
        BY <2>1, Distinct DEF TypeOK, OneInitialize, Joined
  <2>4. CASE init[Listen] = "serverClose" /\ listen = "waiting"
    <3> USE <2>4 DEF BeginClose
    <3>1. /\ handle' \in {"none", handle}
          /\ \A p \in Peers : sock'[p] = sock[p] \/ (sock[p] = "open"
                                                     /\ sock'[p] = "destroyed")
          BY DEF HandleAfterClose
    <3>2. TypeOK'
      <4>1. [pc |-> "running", server |-> TRUE, sockets |-> connections] \in Closing
            BY DEF TypeOK, Closing
      <4>2. closed' = TRUE /\ listen' = "closing" /\ close' \in Closing
            BY <2>4, <4>1
      <4>3. sock' \in [Peers -> {"none", "open", "destroyed", "closed"}]
            BY DEF TypeOK
      <4>4. QED BY <2>1, <3>1, <4>2, <4>3 DEF TypeOK
    <3>3. ForwardsInitialized' /\ Early' /\ Known' /\ Course'
          BY <2>1, <3>1, Distinct DEF ForwardsInitialized, Early, Known, Course
    <3>4. Places'
          BY <2>1, <3>1, Distinct DEF Places
    <3>5. QED BY <2>3, <3>2, <3>3, <3>4
  <2>5. CASE ~(init[Listen] = "serverClose" /\ listen = "waiting")
    <3> DEFINE c == [close EXCEPT !.server = FALSE]
    <3>1. /\ c \in Closing /\ c.pc = close.pc
          /\ ~c.server
          /\ close' = AfterWait(c) /\ listen' = ListenAfter(c)
          /\ UNCHANGED <<closed, handle, sock, connections, listened>>
      <4>1. close \in Closing
            BY DEF TypeOK
      <4>2. c \in Closing /\ c.pc = close.pc /\ ~c.server
            BY <4>1, ServerDown
      <4>3. QED BY <2>5, <4>2
    <3> HIDE DEF c
    <3>2. /\ close' \in Closing /\ ~close'.server
          /\ close'.pc # "none" => close.pc # "none"
          BY <3>1, Waited
    <3>3. listen' = listen \/ (listen = "closing" /\ listen' = "failed")
          BY <3>1 DEF ListenAfter
    <3>4. TypeOK'
          BY <2>1, <3>1, <3>2, <3>3 DEF TypeOK
    <3>5. ForwardsInitialized' /\ Known'
          BY <2>1, <3>3, Distinct DEF ForwardsInitialized, Known
    <3>6. Early'
          BY <2>1, <3>1, <3>3, Distinct DEF Early
    <3>7. Places'
          BY <2>1, <3>1, Distinct DEF Places
    <3>8. Course'
      <4>1. listen' = "ok" => handle' = "none" /\ SocketsGone'
            BY <3>1, <3>3 DEF TypeOK, Course, SocketsGone
      <4>2. QED BY <3>1, <3>2, <3>3, <4>1 DEF Course
    <3>9. QED BY <2>3, <3>4, <3>5, <3>6, <3>7, <3>8
  <2>6. QED BY <2>4, <2>5
<1>4. QED BY <1>1, <1>2, <1>3

-----------------------------------------------------------------------------
(* The agent: only u had called initialize(), and everybody else joined.     *)
LEMMA AgentSteps ==
  ASSUME IInv, NEW u \in Users, AgentReady(u) \/ AgentFails(u)
  PROVE  IInv'
<1> USE DEF IInv
<1>1. agentInitPromise = u /\ \A w \in Users : init[w] = "agent" => w = u
  <2>1. init[u] = "agent"
        BY DEF AgentReady, AgentFails
  <2>2. QED BY <2>1 DEF OneInitialize
<1>2. CASE AgentReady(u)
  <2> USE <1>2 DEF AgentReady, socketVars
  <2>1. /\ init' \in [Users -> {"none", "agent", "shared", "serverClose", "ok", "failed"}]
        /\ \A w \in Users : init'[w] = IF w = u \/ init[w] = "shared" THEN "ok" ELSE init[w]
        /\ req' \in [Peers -> {"none", "handshake", "init", "forward", "piped", "denied"}]
        /\ \A p \in Peers :
             req'[p] = IF p = u \/ init[p] = "shared" THEN "forward" ELSE req[p]
        BY Distinct DEF TypeOK, Waiters, Joined
  <2>2. /\ listen' \in {listen, "ok"}
        /\ listen' # listen => listen = "waiting" /\ listened
        BY DEF ListenResult
  <2>3. TypeOK'
        BY <2>1, <2>2 DEF TypeOK
  <2>4. OneInitialize'
        BY <1>1, <2>1, Distinct DEF OneInitialize, Joined
  <2>5. ForwardsInitialized' /\ Known'
        BY DEF ForwardsInitialized, Known
  <2>6. Early'
        BY <1>1, <2>2, Distinct DEF Early
  <2>7. Places'
        BY <2>1, Distinct DEF Places
  <2>8. Course'
        BY <2>2 DEF Course, SocketsGone
  <2>9. QED BY <2>3, <2>4, <2>5, <2>6, <2>7, <2>8
<1>3. CASE AgentFails(u)
  <2> USE <1>3 DEF AgentFails, socketVars
  <2>1. /\ init' \in [Users -> {"none", "agent", "shared", "serverClose", "ok", "failed"}]
        /\ init'[u] = "serverClose"
        /\ \A w \in Users : w # u =>
             init'[w] = IF init[w] = "shared" THEN "failed" ELSE init[w]
        /\ req' \in [Peers -> {"none", "handshake", "init", "forward", "piped", "denied"}]
        /\ \A p \in Peers : req'[p] = IF init[p] = "shared" THEN "denied" ELSE req[p]
        BY Distinct DEF TypeOK, Joined
  <2>2. handle' \in {"none", handle} /\ (handle = "none" => handle' = "none")
        BY DEF HandleAfterClose
  <2>3. TypeOK'
        BY <2>1, <2>2 DEF TypeOK, InitializedAfter
  <2>4. OneInitialize'
        BY <1>1, <2>1, Distinct DEF OneInitialize, Joined
  <2>5. ForwardsInitialized'
        BY <2>1 DEF ForwardsInitialized
  <2>6. Known'
        BY <2>1, Distinct DEF Known, InitializedAfter, TypeOK
  <2>7. Early'
        BY <1>1, Distinct DEF Early
  <2>8. Places'
    <3>1. init[u] = "agent"
          OBVIOUS
    <3>2. QED BY <2>1, <3>1, Distinct DEF Places
  <2>9. Course'
        BY <2>2 DEF Course, SocketsGone
  <2>10. QED BY <2>3, <2>4, <2>5, <2>6, <2>7, <2>8, <2>9
<1>4. QED BY <1>2, <1>3

-----------------------------------------------------------------------------
(* Requests.                                                                 *)
LEMMA RequestSteps ==
  ASSUME IInv, NEW p \in Peers,
         Connect(p) \/ Request(p) \/ Accept(p) \/ Deny(p) \/ SocketClosed(p)
  PROVE  IInv'
<1> USE DEF IInv
<1>1. CASE Connect(p)
  <2> USE <1>1 DEF Connect, agentVars, serverVars
  <2>1. TypeOK' /\ OneInitialize' /\ Known' /\ ForwardsInitialized'
        BY DEF TypeOK, OneInitialize, Joined, Known, ForwardsInitialized
  <2>2. Early' /\ Course'
        BY DEF Early, Course
  <2>3. Places'
        BY DEF Places, TypeOK
  <2>4. QED BY <2>1, <2>2, <2>3
<1>2. CASE Request(p)
  <2> USE <1>2 DEF Request, socketVars, serverVars
  <2>1. init[p] = "none" /\ sock[p] = "open"
        BY DEF Places
  <2>2. Early' /\ Course'
        BY <2>1 DEF Early, Course, SocketsGone
  <2>3. CASE agentInitialized \/ (MayInitialize /\ closed)
    <3>1. UNCHANGED <<init, agentInitPromise>> /\ req' \in
            {[req EXCEPT ![p] = "forward"], [req EXCEPT ![p] = "denied"]}
          /\ (~agentInitialized => req' = [req EXCEPT ![p] = "denied"])
          BY <2>3
    <3>2. TypeOK' /\ OneInitialize' /\ Known'
          BY <3>1 DEF TypeOK, OneInitialize, Joined, Known
    <3>3. Places' /\ ForwardsInitialized'
          BY <2>1, <3>1 DEF TypeOK, Places, ForwardsInitialized, Known
    <3>4. QED BY <2>2, <3>2, <3>3
  <2>4. CASE ~agentInitialized /\ ~(MayInitialize /\ closed)
    <3>1. /\ req' = [req EXCEPT ![p] = "init"]
          /\ \/ /\ ~MayInitialize /\ init' = [init EXCEPT ![p] = "shared"]
                /\ UNCHANGED agentInitPromise
             \/ /\ MayInitialize /\ init' = [init EXCEPT ![p] = "agent"]
                /\ agentInitPromise' = p
          BY <2>4
    <3>2. TypeOK'
          BY <3>1, Distinct DEF TypeOK
    <3>3. OneInitialize'
          BY <2>1, <3>1, Distinct DEF TypeOK, OneInitialize, Joined, MayInitialize
    <3>4. Places'
          BY <2>1, <3>1, Distinct DEF TypeOK, Places
    <3>5. ForwardsInitialized' /\ Known'
          BY <3>1, Distinct DEF TypeOK, ForwardsInitialized, Known
    <3>6. QED BY <2>2, <3>2, <3>3, <3>4, <3>5
  <2>5. QED BY <2>3, <2>4
<1>3. CASE Accept(p) \/ Deny(p)
  <2> USE <1>3 DEF Accept, Deny, agentVars, socketVars, serverVars
  <2>1. /\ req' \in {[req EXCEPT ![p] = "piped"], [req EXCEPT ![p] = "denied"]}
        /\ req[p] = "forward" /\ connections' \subseteq connections \cup {p}
        /\ UNCHANGED <<agentVars, sock, serverVars, init>>
        OBVIOUS
  <2>2. TypeOK'
        BY <2>1 DEF TypeOK
  <2>3. OneInitialize' /\ Known' /\ Early' /\ Course'
        BY <2>1 DEF OneInitialize, Joined, Known, Early, Course, SocketsGone
  <2>4. Places' /\ ForwardsInitialized'
        BY <2>1 DEF TypeOK, Places, ForwardsInitialized
  <2>5. QED BY <2>2, <2>3, <2>4
<1>4. CASE SocketClosed(p)
  <2> USE <1>4 DEF SocketClosed, agentVars
  <2> DEFINE c == [close EXCEPT !.sockets = @ \ {p}]
  <2>1. /\ c \in Closing /\ c.pc = close.pc /\ c.server = close.server
        /\ close' = AfterWait(c) /\ listen' = ListenAfter(c)
        /\ connections' \subseteq connections
        BY SocketLeft DEF TypeOK
  <2> HIDE DEF c
  <2>2. /\ close' \in Closing
        /\ close'.server = close.server
        /\ close'.pc # "none" => close.pc # "none"
        /\ close'.pc = "done" => close.pc = "done" \/ ~close.server
        BY <2>1, Waited
  <2>3. listen' = listen \/ (listen = "closing" /\ listen' = "failed")
        BY <2>1 DEF ListenAfter
  <2>4. TypeOK'
        BY <2>1, <2>2, <2>3 DEF TypeOK
  <2>5. OneInitialize' /\ Known' /\ ForwardsInitialized'
        BY <2>3 DEF OneInitialize, Joined, Known, ForwardsInitialized
  <2>6. Early' /\ Places'
        BY <2>3 DEF TypeOK, Early, Places
  <2>7. Course'
    <3>1. SocketsGone => SocketsGone'
          BY DEF TypeOK, SocketsGone
    <3>2. QED BY <2>2, <2>3, <3>1 DEF Course
  <2>8. QED BY <2>4, <2>5, <2>6, <2>7
<1>5. QED BY <1>1, <1>2, <1>3, <1>4

LEMMA Stutter == IInv /\ UNCHANGED vars => IInv'
BY DEF vars, agentVars, socketVars, serverVars, IInv, TypeOK, OneInitialize,
   ForwardsInitialized, Early, Places, Known, Course, Joined, SocketsGone

LEMMA IInvNext == IInv /\ [Next]_vars => IInv'
<1> SUFFICES ASSUME IInv, [Next]_vars
             PROVE  IInv'
    OBVIOUS
<1>1. CASE CallListen \/ StartListening \/ Listening
      BY <1>1, ListenSteps
<1>2. CASE CallClose \/ ListenError \/ ServerClosed
      BY <1>2, CloseSteps
<1>3. CASE AgentSettles
      BY <1>3, AgentSteps DEF AgentSettles
<1>4. ASSUME NEW p \in Peers,
             Connect(p) \/ Request(p) \/ Accept(p) \/ Deny(p) \/ SocketClosed(p)
      PROVE  IInv'
      BY <1>4, RequestSteps
<1>5. CASE UNCHANGED vars
      BY <1>5, Stutter
<1>6. QED BY <1>1, <1>2, <1>3, <1>4, <1>5 DEF Next, Server

LEMMA Invariant == Spec => []IInv
BY InitOK, IInvNext, PTL DEF Spec

-----------------------------------------------------------------------------
(* The types of Socks5Tunnel (socks5.ts), for any peers.                     *)
THEOREM TypeCorrect == Spec => []TypeOK
<1>1. IInv => TypeOK
      BY DEF IInv
<1>2. QED BY <1>1, Invariant, PTL

(* However many requests meet listen() half-way, ensureAgentInitialized      *)
(* calls agent.initialize() once at a time, and those who wait for           *)
(* agentInitPromise wait for that call.                                      *)
THEOREM InitializedOnce == Spec => []OneInitialize
<1>1. IInv => OneInitialize
      BY DEF IInv
<1>2. QED BY <1>1, Invariant, PTL

(* socks5Request forwards nothing, and listen() does not resolve, before     *)
(* agent.initialize() succeeded.                                             *)
THEOREM NothingTooEarly == Spec => []ForwardsInitialized
<1>1. IInv => ForwardsInitialized
      BY DEF IInv
<1>2. QED BY <1>1, Invariant, PTL

(* Both of it: the agent is initialized once at a time and used by none      *)
(* before that, whatever arrives while listen() and close() are under way.   *)
THEOREM ReadyBeforeUse == Spec => []AgentIsReady
<1>1. OneInitialize /\ ForwardsInitialized => AgentIsReady
      BY DEF AgentIsReady
<1>2. QED BY <1>1, InitializedOnce, NothingTooEarly, PTL

(* When the close() of a tunnel that was listening returns, the server is    *)
(* down and no peer is connected, whichever requests were accepted after     *)
(* closeOpenConnections had looked.                                          *)
THEOREM CloseIsFinal == Spec => []ClosedIsQuiet
<1>1. IInv => ClosedIsQuiet
  <2> SUFFICES ASSUME IInv, listen = "ok", close.pc = "done"
               PROVE  handle = "none" /\ SocketsGone
      BY DEF ClosedIsQuiet
  <2>1. QED BY DEF IInv, Course
<1>2. QED BY <1>1, Invariant, PTL

-----------------------------------------------------------------------------
(* AgentCache.  The cache has one entry of a key and of an agent; what is   *)
(* not in it has been ended.                                                *)

CacheEntry == [key : Keys, agent : Nat]

Shaped(s) ==
  /\ s \in Seq(CacheEntry)
  /\ \A i, j \in 1..Len(s) : i # j => s[i].key # s[j].key /\ s[i].agent # s[j].agent

AgentsOf(s) == {s[i].agent : i \in 1..Len(s)}
KeysOf(s) == {s[i].key : i \in 1..Len(s)}

CacheInv ==
  /\ Shaped(agentCache) /\ Len(agentCache) <= CacheSize
  /\ created \in Nat /\ ended \subseteq 1..created /\ AgentsOf(agentCache) \subseteq 1..created
  /\ agentReq \in [AgentRequests -> [pc : {"idle", "importing", "has"}, key : Keys \cup {Nil},
                                     agent : Nat \cup {Nil}]]
  /\ \A r \in AgentRequests : agentReq[r].pc = "importing" => agentReq[r].key \in Keys
  /\ 1..created \ AgentsOf(agentCache) \subseteq ended
  /\ ~destroyed => AgentsOf(agentCache) \cap ended = {}

LEMMA RemoveAtProperties ==
  ASSUME NEW S, NEW s \in Seq(S), NEW e \in 1..Len(s)
  PROVE  /\ RemoveAt(s, e) \in Seq(S) /\ Len(RemoveAt(s, e)) = Len(s) - 1
         /\ \A i \in 1..Len(s) - 1 : RemoveAt(s, e)[i] = IF i < e THEN s[i] ELSE s[i + 1]
<1> DEFINE a == SubSeq(s, 1, e - 1)  b == SubSeq(s, e + 1, Len(s))
<1>1. Len(s) \in Nat /\ e \in Int /\ 1 <= e /\ e <= Len(s) /\ \A i \in 1..Len(s) : s[i] \in S
      BY LenProperties
<1>2. a \in Seq(S) /\ Len(a) = e - 1 /\ \A i \in 1..e - 1 : a[i] = s[i]
  <2>1. \A i \in 1..e - 1 : s[i] \in S
        BY <1>1
  <2>2. e - 1 \in Int /\ 1 \in Int
        BY <1>1
  <2>3. /\ a \in Seq(S) /\ Len(a) = IF 1 <= e - 1 THEN (e - 1) - 1 + 1 ELSE 0
        /\ \A i \in 1..(e - 1) - 1 + 1 : a[i] = s[1 + i - 1]
        BY <2>1, <2>2, SubSeqProperties
  <2> HIDE DEF a
  <2> QED
      BY <1>1, <2>3
<1>3. b \in Seq(S) /\ Len(b) = Len(s) - e /\ \A i \in 1..Len(s) - e : b[i] = s[e + i]
  <2>1. \A i \in e + 1..Len(s) : s[i] \in S
        BY <1>1
  <2>2. e + 1 \in Int /\ Len(s) \in Int
        BY <1>1
  <2>3. /\ b \in Seq(S) /\ Len(b) = IF e + 1 <= Len(s) THEN Len(s) - (e + 1) + 1 ELSE 0
        /\ \A i \in 1..Len(s) - (e + 1) + 1 : b[i] = s[(e + 1) + i - 1]
        BY <2>1, <2>2, SubSeqProperties
  <2> HIDE DEF b
  <2> QED
      BY <1>1, <2>3
<1>4. RemoveAt(s, e) = a \o b
      BY DEF RemoveAt
<1> HIDE DEF a, b
<1>5. /\ a \o b \in Seq(S) /\ Len(a \o b) = Len(a) + Len(b)
      /\ \A i \in 1..Len(a) + Len(b) : (a \o b)[i] = IF i <= Len(a) THEN a[i] ELSE b[i - Len(a)]
      BY <1>2, <1>3, ConcatProperties
<1>6. ASSUME NEW i \in 1..Len(s) - 1 PROVE (a \o b)[i] = IF i < e THEN s[i] ELSE s[i + 1]
  <2>1. CASE i < e
        BY <1>1, <1>2, <1>3, <1>5, <2>1
  <2>2. CASE ~(i < e)
    <3>1. i - (e - 1) \in 1..Len(s) - e /\ e + (i - (e - 1)) = i + 1
          BY <1>1, <2>2
    <3>2. (a \o b)[i] = b[i - (e - 1)]
          BY <1>1, <1>2, <1>3, <1>5, <2>2
    <3> QED
        BY <1>3, <2>2, <3>1, <3>2
  <2> QED
      BY <2>1, <2>2
<1> QED
    BY <1>1, <1>2, <1>3, <1>4, <1>5, <1>6

LEMMA ShapedAppend ==
  ASSUME NEW s, Shaped(s), NEW x \in CacheEntry,
         x.key \notin KeysOf(s), x.agent \notin AgentsOf(s)
  PROVE  /\ Shaped(Append(s, x)) /\ Len(Append(s, x)) = Len(s) + 1
         /\ AgentsOf(Append(s, x)) = AgentsOf(s) \cup {x.agent}
<1> DEFINE t == Append(s, x)
<1>1. /\ t \in Seq(CacheEntry) /\ Len(t) = Len(s) + 1 /\ Len(s) \in Nat
      /\ \A i \in 1..Len(s) : t[i] = s[i]
      /\ t[Len(s) + 1] = x
      BY AppendProperties, LenProperties DEF Shaped
<1> HIDE DEF t
<1>2. \A i \in 1..Len(t) : i \in 1..Len(s) \/ i = Len(s) + 1
      BY <1>1
<1>3. Shaped(t)
  <2>1. \A i \in 1..Len(s) : s[i].key # x.key /\ s[i].agent # x.agent
        BY DEF KeysOf, AgentsOf
  <2> QED
      BY <1>1, <1>2, <2>1 DEF Shaped
<1>4. AgentsOf(t) \subseteq AgentsOf(s) \cup {x.agent}
      BY <1>1, <1>2 DEF AgentsOf
<1>5. AgentsOf(s) \cup {x.agent} \subseteq AgentsOf(t)
  <2>1. \A i \in 1..Len(s) : i \in 1..Len(t)
        BY <1>1
  <2>2. Len(s) + 1 \in 1..Len(t)
        BY <1>1
  <2> QED
      BY <1>1, <2>1, <2>2 DEF AgentsOf
<1> QED
    BY <1>1, <1>3, <1>4, <1>5 DEF t

LEMMA ShapedRemove ==
  ASSUME NEW s, Shaped(s), NEW e \in 1..Len(s)
  PROVE  /\ Shaped(RemoveAt(s, e)) /\ Len(RemoveAt(s, e)) = Len(s) - 1
         /\ AgentsOf(RemoveAt(s, e)) = AgentsOf(s) \ {s[e].agent}
         /\ KeysOf(RemoveAt(s, e)) = KeysOf(s) \ {s[e].key}
<1> DEFINE t == RemoveAt(s, e)
           from(i) == IF i < e THEN i ELSE i + 1
           to(j) == IF j < e THEN j ELSE j - 1
<1>1. /\ t \in Seq(CacheEntry) /\ Len(t) = Len(s) - 1 /\ Len(s) \in Nat
      /\ \A i \in 1..Len(s) - 1 : t[i] = IF i < e THEN s[i] ELSE s[i + 1]
      BY RemoveAtProperties, LenProperties DEF Shaped
<1> HIDE DEF t
<1>2. \A i \in 1..Len(t) : from(i) \in 1..Len(s) /\ from(i) # e /\ t[i] = s[from(i)]
      BY <1>1
<1>3. \A i, j \in 1..Len(t) : i # j => from(i) # from(j)
      BY <1>1
<1>4. \A j \in 1..Len(s) : j # e => to(j) \in 1..Len(t) /\ t[to(j)] = s[j]
  <2> SUFFICES ASSUME NEW j \in 1..Len(s), j # e PROVE to(j) \in 1..Len(t) /\ t[to(j)] = s[j]
      OBVIOUS
  <2>1. CASE j < e
        BY <1>1, <2>1
  <2>2. CASE j > e
    <3>1. j - 1 \in 1..Len(s) - 1 /\ ~(j - 1 < e) /\ (j - 1) + 1 = j
          BY <1>1, <2>2
    <3> QED
        BY <1>1, <2>2, <3>1
  <2> QED
      BY <2>1, <2>2
<1> HIDE DEF from, to
<1>5. Shaped(t)
      BY <1>1, <1>2, <1>3 DEF Shaped
<1>6. AgentsOf(t) \subseteq AgentsOf(s) \ {s[e].agent} /\ KeysOf(t) \subseteq KeysOf(s) \ {s[e].key}
      BY <1>2 DEF AgentsOf, KeysOf, Shaped
<1>7. AgentsOf(s) \ {s[e].agent} \subseteq AgentsOf(t) /\ KeysOf(s) \ {s[e].key} \subseteq KeysOf(t)
      BY <1>4 DEF AgentsOf, KeysOf
<1> QED
    BY <1>1, <1>5, <1>6, <1>7 DEF t

LEMMA ShapedTail ==
  ASSUME NEW s, Shaped(s), s # <<>>
  PROVE  /\ Shaped(Tail(s)) /\ Len(Tail(s)) = Len(s) - 1
         /\ AgentsOf(Tail(s)) = AgentsOf(s) \ {s[1].agent}
         /\ KeysOf(Tail(s)) \subseteq KeysOf(s)
<1> DEFINE t == Tail(s)
<1>1. /\ t \in Seq(CacheEntry) /\ Len(t) = Len(s) - 1 /\ Len(s) \in Nat \ {0}
      /\ \A i \in 1..Len(t) : t[i] = s[i + 1]
      BY HeadTailProperties, LenProperties, EmptySeq DEF Shaped
<1> HIDE DEF t
<1>2. \A i \in 1..Len(t) : i + 1 \in 1..Len(s) /\ i + 1 # 1
      BY <1>1
<1>3. \A j \in 1..Len(s) : j # 1 => j - 1 \in 1..Len(t) /\ t[j - 1] = s[j]
      BY <1>1
<1>4. Shaped(t)
  <2> SUFFICES ASSUME NEW i \in 1..Len(t), NEW j \in 1..Len(t), i # j
               PROVE  t[i].key # t[j].key /\ t[i].agent # t[j].agent
      BY <1>1 DEF Shaped
  <2>1. i + 1 # j + 1
        OBVIOUS
  <2> QED
      BY <1>1, <1>2, <2>1 DEF Shaped
<1>5. 1 \in 1..Len(s)
      BY <1>1
<1>6. AgentsOf(t) \subseteq AgentsOf(s) \ {s[1].agent} /\ KeysOf(t) \subseteq KeysOf(s)
  <2>1. ASSUME NEW i \in 1..Len(t)
        PROVE  /\ t[i].agent \in AgentsOf(s) /\ t[i].agent # s[1].agent
               /\ t[i].key \in KeysOf(s)
    <3>1. /\ t[i] = s[i + 1] /\ i + 1 \in 1..Len(s) /\ i + 1 # 1
          /\ s[i + 1].agent # s[1].agent
          BY <1>1, <1>2, <1>5 DEF Shaped
    <3> QED
        BY <3>1 DEF AgentsOf, KeysOf
  <2> QED
      BY <2>1 DEF AgentsOf, KeysOf
<1>7. AgentsOf(s) \ {s[1].agent} \subseteq AgentsOf(t)
      BY <1>3 DEF AgentsOf
<1> QED
    BY <1>1, <1>4, <1>6, <1>7 DEF t

(* What stays when the entry of a key is taken out.                          *)
LEMMA WithoutFacts ==
  ASSUME CacheInv, NEW k \in Keys
  PROVE  /\ Shaped(Without(k)) /\ Len(Without(k)) <= Len(agentCache)
         /\ k \notin KeysOf(Without(k))
         /\ AgentsOf(Without(k)) = AgentsOf(agentCache) \ {agentCache[i].agent : i \in Entries(k)}
         /\ Entries(k) = {} => Without(k) = agentCache
         /\ Entries(k) # {} => Len(Without(k)) = Len(agentCache) - 1
<1>1. Shaped(agentCache) /\ DOMAIN agentCache = 1..Len(agentCache) /\ Len(agentCache) \in Nat
      BY LenProperties DEF CacheInv, Shaped
<1>2. CASE Entries(k) = {}
  <2>1. Without(k) = agentCache
        BY <1>2 DEF Without
  <2>2. k \notin KeysOf(agentCache)
        BY <1>1, <1>2 DEF Entries, KeysOf
  <2> QED
      BY <1>1, <1>2, <2>1, <2>2
<1>3. CASE Entries(k) # {}
  <2> DEFINE e == CHOOSE i \in Entries(k) : TRUE
  <2>1. e \in Entries(k)
        BY <1>3
  <2>2. Without(k) = RemoveAt(agentCache, e)
        BY <1>3 DEF Without
  <2> HIDE DEF e
  <2>3. e \in 1..Len(agentCache) /\ agentCache[e].key = k
        BY <1>1, <2>1 DEF Entries
  <2>4. Entries(k) = {e}
        BY <1>1, <2>3 DEF Entries, Shaped
  <2>5. /\ Shaped(Without(k)) /\ Len(Without(k)) = Len(agentCache) - 1
        /\ AgentsOf(Without(k)) = AgentsOf(agentCache) \ {agentCache[e].agent}
        /\ KeysOf(Without(k)) = KeysOf(agentCache) \ {agentCache[e].key}
    <3>1. /\ Shaped(RemoveAt(agentCache, e)) /\ Len(RemoveAt(agentCache, e)) = Len(agentCache) - 1
          /\ AgentsOf(RemoveAt(agentCache, e)) = AgentsOf(agentCache) \ {agentCache[e].agent}
          /\ KeysOf(RemoveAt(agentCache, e)) = KeysOf(agentCache) \ {agentCache[e].key}
          BY <1>1, <2>3, ShapedRemove
    <3> QED
        BY <2>2, <3>1
  <2>6. {agentCache[i].agent : i \in Entries(k)} = {agentCache[e].agent}
        BY <2>4
  <2>7. k \notin KeysOf(Without(k))
        BY <2>3, <2>5
  <2>8. AgentsOf(Without(k)) = AgentsOf(agentCache) \ {agentCache[i].agent : i \in Entries(k)}
        BY <2>5, <2>6
  <2>9. Len(Without(k)) <= Len(agentCache)
        BY <1>1, <2>5
  <2> QED
      BY <1>3, <2>5, <2>7, <2>8, <2>9
<1> QED
    BY <1>2, <1>3

LEMMA CachedAgents == ASSUME CacheInv PROVE Cached = AgentsOf(agentCache)
  BY LenProperties DEF CacheInv, Shaped, Cached, AgentsOf

LEMMA LookupKeeps ==
  ASSUME CacheInv, NEW r \in AgentRequests, NEW k \in Keys, Lookup(r, k)
  PROVE  CacheInv'
<1>1. UNCHANGED <<created, ended, destroyed>>
      BY DEF Lookup
<1>2. DOMAIN agentCache = 1..Len(agentCache) /\ Len(agentCache) \in Nat
      BY LenProperties DEF CacheInv, Shaped
<1>3. CASE Entries(k) = {}
  <2>1. /\ agentReq' = [agentReq EXCEPT ![r] = [pc |-> "importing", key |-> k, agent |-> Nil]]
        /\ agentCache' = agentCache
        BY <1>3 DEF Lookup
  <2> QED
      BY <1>1, <2>1 DEF CacheInv
<1>4. CASE Entries(k) # {}
  <2> DEFINE i == CHOOSE n \in Entries(k) : TRUE
             e == agentCache[i]
  <2>1. i \in Entries(k)
        BY <1>4
  <2>2. /\ agentReq' = [agentReq EXCEPT ![r] = [pc |-> "has", key |-> k, agent |-> e.agent]]
        /\ agentCache' = Append(Without(k), e)
        BY <1>4 DEF Lookup
  <2> HIDE DEF i
  <2>3. i \in 1..Len(agentCache) /\ e.key = k /\ e \in CacheEntry
        BY <1>2, <2>1 DEF Entries, CacheInv, Shaped
  <2>4. \A n \in Entries(k) : n = i
        BY <1>2, <2>1 DEF Entries, CacheInv, Shaped
  <2>5. /\ Shaped(Without(k)) /\ Len(Without(k)) = Len(agentCache) - 1
        /\ k \notin KeysOf(Without(k))
        /\ AgentsOf(Without(k)) = AgentsOf(agentCache) \ {e.agent}
    <3>1. {agentCache[n].agent : n \in Entries(k)} = {e.agent}
          BY <2>1, <2>4
    <3> QED
        BY <1>4, <3>1, WithoutFacts
  <2>6. e.agent \in AgentsOf(agentCache) /\ e.agent \notin AgentsOf(Without(k)) /\ e.agent \in Nat
        BY <2>3, <2>5 DEF AgentsOf, CacheEntry
  <2> HIDE DEF e
  <2>7. /\ Shaped(agentCache') /\ Len(agentCache') = Len(agentCache)
        /\ AgentsOf(agentCache') = AgentsOf(agentCache)
    <3>1. /\ Shaped(Append(Without(k), e)) /\ Len(Append(Without(k), e)) = Len(Without(k)) + 1
          /\ AgentsOf(Append(Without(k), e)) = AgentsOf(Without(k)) \cup {e.agent}
          BY <2>3, <2>5, <2>6, ShapedAppend
    <3> QED
        BY <1>2, <2>2, <2>5, <2>6, <3>1
  <2>8. /\ agentReq' \in [AgentRequests -> [pc : {"idle", "importing", "has"}, key : Keys \cup {Nil},
                                          agent : Nat \cup {Nil}]]
        /\ \A q \in AgentRequests : agentReq'[q].pc = "importing" => agentReq'[q].key \in Keys
        BY <2>2, <2>6 DEF CacheInv
  <2> QED
      BY <1>1, <2>7, <2>8 DEF CacheInv
<1> QED
    BY <1>3, <1>4

(* The entry of the new agent takes the place of what is disposed of.        *)
LEMMA ImportedKeeps ==
  ASSUME CacheInv, NEW r \in AgentRequests, Imported(r)
  PROVE  CacheInv'
<1> DEFINE k == agentReq[r].key
           full == Len(Without(k)) = CacheSize
           rest == IF full THEN Tail(agentCache) ELSE Without(k)
           entry == [key |-> k, agent |-> created + 1]
<1>1. /\ agentReq[r].pc = "importing" /\ created' = created + 1
      /\ agentCache' = Append(rest, entry) /\ ended' = ended \cup Disposed(k)
      /\ agentReq' = [agentReq EXCEPT ![r].pc = "has", ![r].agent = created + 1]
      /\ destroyed' = destroyed
      BY DEF Imported
<1>2. k \in Keys /\ created \in Nat /\ entry \in CacheEntry /\ Len(agentCache) \in Nat
      /\ Len(agentCache) <= CacheSize /\ CacheSize \in Nat \ {0}
      BY <1>1, CacheAssumption, LenProperties DEF CacheInv, CacheEntry, Shaped
<1>3. /\ Shaped(Without(k)) /\ Len(Without(k)) <= Len(agentCache)
      /\ k \notin KeysOf(Without(k))
      /\ AgentsOf(Without(k)) = AgentsOf(agentCache) \ {agentCache[i].agent : i \in Entries(k)}
      /\ Entries(k) = {} => Without(k) = agentCache
      /\ Entries(k) # {} => Len(Without(k)) = Len(agentCache) - 1
      BY <1>2, WithoutFacts
<1>4. /\ Shaped(rest) /\ Len(rest) \in Nat /\ Len(rest) < CacheSize /\ k \notin KeysOf(rest)
      /\ AgentsOf(rest) = AgentsOf(agentCache) \ Disposed(k)
  <2>1. CASE full
    <3>1. Entries(k) = {} /\ Without(k) = agentCache /\ agentCache # <<>>
          BY <1>2, <1>3, <2>1, EmptySeq
    <3>2. rest = Tail(agentCache) /\ Disposed(k) = {agentCache[1].agent}
          BY <2>1, <3>1 DEF Disposed
    <3>3. /\ Shaped(Tail(agentCache)) /\ Len(Tail(agentCache)) = Len(agentCache) - 1
          /\ AgentsOf(Tail(agentCache)) = AgentsOf(agentCache) \ {agentCache[1].agent}
          /\ KeysOf(Tail(agentCache)) \subseteq KeysOf(agentCache)
          BY <3>1, ShapedTail DEF CacheInv
    <3>4. Len(agentCache) = CacheSize
          BY <2>1, <3>1
    <3> QED
        BY <1>2, <1>3, <3>1, <3>2, <3>3, <3>4
  <2>2. CASE ~full
    <3>1. rest = Without(k) /\ Disposed(k) = {agentCache[i].agent : i \in Entries(k)}
          BY <2>2 DEF Disposed
    <3>2. Len(Without(k)) \in Nat
          BY <1>3, LenProperties DEF Shaped
    <3> QED
        BY <1>2, <1>3, <2>2, <3>1, <3>2
  <2> QED
      BY <2>1, <2>2
<1>5. Disposed(k) \subseteq AgentsOf(agentCache)
  <2>1. {agentCache[i].agent : i \in Entries(k)} \subseteq AgentsOf(agentCache)
        BY LenProperties DEF Entries, AgentsOf, CacheInv, Shaped
  <2>2. full => 1 \in 1..Len(agentCache)
        BY <1>2, <1>3
  <2> QED
      BY <2>1, <2>2 DEF Disposed, AgentsOf
<1> HIDE DEF rest, full
<1>6. created + 1 \notin AgentsOf(rest) /\ AgentsOf(rest) \subseteq 1..created
      BY <1>2, <1>4 DEF CacheInv
<1>7. /\ Shaped(agentCache') /\ Len(agentCache') <= CacheSize
      /\ AgentsOf(agentCache') = (AgentsOf(agentCache) \ Disposed(k)) \cup {created + 1}
  <2>1. /\ Shaped(Append(rest, entry)) /\ Len(Append(rest, entry)) = Len(rest) + 1
        /\ AgentsOf(Append(rest, entry)) = AgentsOf(rest) \cup {entry.agent}
        BY <1>2, <1>4, <1>6, ShapedAppend
  <2> QED
      BY <1>1, <1>2, <1>4, <2>1
<1>8. /\ agentReq' \in [AgentRequests -> [pc : {"idle", "importing", "has"}, key : Keys \cup {Nil},
                                        agent : Nat \cup {Nil}]]
      /\ \A q \in AgentRequests : agentReq'[q].pc = "importing" => agentReq'[q].key \in Keys
  <2>1. agentReq'[r].pc = "has" /\ \A q \in AgentRequests \ {r} : agentReq'[q] = agentReq[q]
        BY <1>1 DEF CacheInv
  <2>2. agentReq[r] \in [pc : {"idle", "importing", "has"}, key : Keys \cup {Nil},
                         agent : Nat \cup {Nil}]
        BY DEF CacheInv
  <2>3. agentReq' = [agentReq EXCEPT ![r] = [agentReq[r] EXCEPT !.pc = "has", !.agent = created + 1]]
        BY <1>1 DEF CacheInv
  <2>4. [agentReq[r] EXCEPT !.pc = "has", !.agent = created + 1]
        \in [pc : {"idle", "importing", "has"}, key : Keys \cup {Nil}, agent : Nat \cup {Nil}]
    <3>1. created + 1 \in Nat \cup {Nil}
          BY <1>2
    <3> QED
        BY <2>2, <3>1
  <2> QED
      BY <2>1, <2>3, <2>4 DEF CacheInv
<1>9. /\ 1..(created + 1) = (1..created) \cup {created + 1} /\ created + 1 \notin 1..created
      BY <1>2
<1>10. ended' \subseteq 1..created' /\ AgentsOf(agentCache') \subseteq 1..created'
      BY <1>1, <1>5, <1>7, <1>9 DEF CacheInv
<1>11. 1..created' \ AgentsOf(agentCache') \subseteq ended'
      BY <1>1, <1>7, <1>9 DEF CacheInv
<1>12. ~destroyed' => AgentsOf(agentCache') \cap ended' = {}
  <2>1. created + 1 \notin ended
        BY <1>9 DEF CacheInv
  <2> QED
      BY <1>1, <1>5, <1>7, <2>1, <1>9 DEF CacheInv
<1> QED
    BY <1>1, <1>2, <1>7, <1>8, <1>10, <1>11, <1>12 DEF CacheInv

LEMMA CacheInvHolds == CacheSpec => []CacheInv
<1>1. CacheInit => CacheInv
  <2> SUFFICES ASSUME CacheInit PROVE CacheInv
      OBVIOUS
  <2>1. agentCache = <<>> /\ Len(agentCache) = 0 /\ 1..created = {} /\ ended = {}
        BY DEF CacheInit
  <2>2. Shaped(agentCache) /\ AgentsOf(agentCache) = {}
        BY <2>1 DEF Shaped, AgentsOf
  <2> QED
      BY <2>1, <2>2, CacheAssumption DEF CacheInit, CacheInv
<1>2. CacheInv /\ [CacheNext]_agentCacheVars => CacheInv'
  <2> SUFFICES ASSUME CacheInv, [CacheNext]_agentCacheVars PROVE CacheInv'
      OBVIOUS
  <2>1. CASE UNCHANGED agentCacheVars
        BY <2>1 DEF agentCacheVars, CacheInv, Shaped, AgentsOf
  <2>2. CASE Destroy
    <3>1. /\ ended' = ended \cup AgentsOf(agentCache) /\ destroyed' = TRUE
          /\ UNCHANGED <<agentCache, created, agentReq>>
          BY <2>2, CachedAgents DEF Destroy, AgentsToEnd
    <3> QED
        BY <3>1 DEF CacheInv
  <2>3. ASSUME NEW r \in AgentRequests, ImportFails(r) PROVE CacheInv'
    <3>1. /\ agentReq' = [agentReq EXCEPT ![r].pc = "idle", ![r].key = Nil]
          /\ UNCHANGED <<agentCache, created, ended, destroyed>>
          BY <2>3 DEF ImportFails
    <3>2. agentReq[r] \in [pc : {"idle", "importing", "has"}, key : Keys \cup {Nil},
                           agent : Nat \cup {Nil}]
          BY DEF CacheInv
    <3>3. agentReq' = [agentReq EXCEPT ![r] = [agentReq[r] EXCEPT !.pc = "idle", !.key = Nil]]
          BY <3>1 DEF CacheInv
    <3>4. /\ [agentReq[r] EXCEPT !.pc = "idle", !.key = Nil]
              \in [pc : {"idle", "importing", "has"}, key : Keys \cup {Nil}, agent : Nat \cup {Nil}]
          /\ [agentReq[r] EXCEPT !.pc = "idle", !.key = Nil].pc = "idle"
          BY <3>2
    <3>5. /\ agentReq' \in [AgentRequests -> [pc : {"idle", "importing", "has"}, key : Keys \cup {Nil},
                                            agent : Nat \cup {Nil}]]
          /\ \A q \in AgentRequests : agentReq'[q].pc = "importing" => agentReq'[q].key \in Keys
          BY <3>3, <3>4 DEF CacheInv
    <3> QED
        BY <3>1, <3>5 DEF CacheInv
  <2> QED
      BY <2>1, <2>2, <2>3, LookupKeeps, ImportedKeeps DEF CacheNext
<1> QED
    BY <1>1, <1>2, PTL DEF CacheSpec

(* No agent is forgotten: what is not in the cache was ended, and before    *)
(* destroy() nothing else was (agent.ts), for any size of the cache.        *)
THEOREM NoAgentForgotten == CacheSpec => []OthersAreEnded
<1>1. CacheInv => OthersAreEnded
      BY CachedAgents DEF CacheInv, OthersAreEnded
<1> QED
    BY <1>1, CacheInvHolds, PTL

-----------------------------------------------------------------------------
(* ProxyRoutes.  Saving and loading gives the same options back; what was   *)
(* made of them is what would be made of them now.                          *)

RouteInv ==
  /\ routeOptions \in RouteOptions
  /\ routeTunnel \in {NotYet, CreateSocks5Tunnel(routeOptions)}
  /\ electron \in {NotYet, TranslateToElectron(routeOptions)}
  /\ stored \in {NotYet, Extracted(routeOptions)}

LEMMA PasswordBack ==
  ASSUME NEW p \in ProxyUrls
  PROVE  /\ [p EXCEPT !.password = ""] \in ProxyUrls
         /\ [p EXCEPT !.password = ""].password = ""
         /\ [[p EXCEPT !.password = ""] EXCEPT !.password = p.password] = p
         /\ p.password = "" => [p EXCEPT !.password = ""] = p
<1> DEFINE q == [p EXCEPT !.password = ""]
<1>1. /\ q \in ProxyUrls /\ q.protocol = p.protocol /\ q.username = p.username
      /\ q.password = "" /\ q.path = p.path
  <2>1. "" \in STRING
        BY BlankAssumption
  <2>2. q \in ProxyUrls
        BY <2>1 DEF ProxyUrls
  <2>3. q.protocol = p.protocol /\ q.username = p.username /\ q.path = p.path
        BY DEF ProxyUrls
  <2>4. q.password = ""
        BY DEF ProxyUrls
  <2> QED
      BY <2>2, <2>3, <2>4
<1> HIDE DEF q
<1> DEFINE r == [q EXCEPT !.password = p.password]
<1>2. /\ r \in ProxyUrls /\ r.protocol = p.protocol /\ r.username = p.username
      /\ r.password = p.password /\ r.path = p.path
      BY <1>1 DEF ProxyUrls
<1> HIDE DEF r
<1>3. r = p
      BY <1>2 DEF ProxyUrls
<1>4. ASSUME p.password = "" PROVE q = p
  <2>1. q.password = p.password
        BY <1>1, <1>4
  <2>2. /\ q \in ProxyUrls /\ q.protocol = p.protocol /\ q.username = p.username
        /\ q.password = p.password /\ q.path = p.path
        BY <1>1, <2>1
  <2> QED
      BY <2>2 DEF ProxyUrls
<1> QED
    BY <1>1, <1>3, <1>4 DEF q, r

LEMMA MergedIsSame ==
  ASSUME NEW o \in RouteOptions
  PROVE  /\ Merged(Extracted(o)) = o
         /\ Extracted(o).options.passphrase = ""
         /\ Extracted(o).options.proxy # Direct => Extracted(o).options.proxy.password = ""
<1>1. o \in OptionsType /\ Direct \notin ProxyUrls
      BY RouteAssumption
<1> DEFINE bare == IF o.proxy = Direct THEN Direct ELSE [o.proxy EXCEPT !.password = ""]
           saved == [o EXCEPT !.proxy = bare, !.passphrase = ""]
           secret == IF o.proxy = Direct THEN "" ELSE o.proxy.password
<1>2. Extracted(o) = [options |-> saved, secrets |-> [password |-> secret, passphrase |-> o.passphrase]]
      BY <1>1 DEF Extracted, OptionsType
<1>3. saved.proxy = bare /\ saved.passphrase = ""
      BY <1>1 DEF OptionsType
<1>4. o.proxy # Direct => o.proxy \in ProxyUrls
      BY <1>1 DEF OptionsType
<1>5. o.proxy # Direct => bare \in ProxyUrls /\ bare.password = ""
      BY <1>4, PasswordBack
<1>6. o.proxy # Direct => /\ [bare EXCEPT !.password = o.proxy.password] = o.proxy
                          /\ o.proxy.password = "" => bare = o.proxy
      BY <1>4, PasswordBack
<1>7. o.proxy = Direct => bare = Direct
      OBVIOUS
<1>8. [saved EXCEPT !.proxy = o.proxy, !.passphrase = o.passphrase] = o
      BY <1>1 DEF OptionsType
<1> HIDE DEF bare
<1>9. (IF secret # "" /\ bare # Direct THEN [bare EXCEPT !.password = secret] ELSE bare) = o.proxy
      BY <1>1, <1>5, <1>6, <1>7
<1>10. (IF o.passphrase # "" THEN o.passphrase ELSE saved.passphrase) = o.passphrase
      BY <1>3
<1> HIDE DEF saved, secret
<1> DEFINE s == Extracted(o)
<1>11. s.options = saved /\ s.secrets.password = secret /\ s.secrets.passphrase = o.passphrase
      BY <1>2
<1>12. Merged(s) = o
  <2> HIDE DEF s
  <2>1. Merged(s) =
          [s.options EXCEPT
             !.proxy = IF s.secrets.password # "" /\ s.options.proxy # Direct
                       THEN [s.options.proxy EXCEPT !.password = s.secrets.password]
                       ELSE s.options.proxy,
             !.passphrase = IF s.secrets.passphrase # "" THEN s.secrets.passphrase
                            ELSE s.options.passphrase]
        BY DEF Merged
  <2>2. (IF s.secrets.password # "" /\ s.options.proxy # Direct
         THEN [s.options.proxy EXCEPT !.password = s.secrets.password]
         ELSE s.options.proxy) = o.proxy
        BY <1>3, <1>9, <1>11
  <2>3. (IF s.secrets.passphrase # "" THEN s.secrets.passphrase
         ELSE s.options.passphrase) = o.passphrase
        BY <1>10, <1>11
  <2>4. Merged(s) = [s.options EXCEPT !.proxy = o.proxy, !.passphrase = o.passphrase]
        BY <2>1, <2>2, <2>3
  <2> QED
      BY <1>8, <1>11, <2>4
<1>13. Extracted(o).options = saved
      BY <1>2
<1>14. bare # Direct => bare.password = ""
      BY <1>5, <1>7
<1> QED
    BY <1>3, <1>12, <1>13, <1>14

LEMMA RouteInvHolds == RouteSpec => []RouteInv
<1>1. RouteInit => RouteInv
      BY DEF RouteInit, RouteInv
<1>2. RouteInv /\ [RouteNext]_routeVars => RouteInv'
  <2> SUFFICES ASSUME RouteInv, [RouteNext]_routeVars PROVE RouteInv'
      OBVIOUS
  <2>1. CASE UNCHANGED routeVars
        BY <2>1 DEF routeVars, RouteInv
  <2>2. CASE CreateTunnel
        BY <2>2 DEF CreateTunnel, RouteInv
  <2>3. CASE Translate
        BY <2>3 DEF Translate, RouteInv
  <2>4. CASE Save
        BY <2>4 DEF Save, RouteInv
  <2>5. CASE Load
    <3>1. stored = Extracted(routeOptions)
          BY <2>5 DEF Load, RouteInv
    <3>2. routeOptions' = routeOptions
          BY <2>5, <3>1, MergedIsSame DEF Load, RouteInv
    <3> QED
        BY <2>5, <3>2 DEF Load, RouteInv
  <2> QED
      BY <2>1, <2>2, <2>3, <2>4, <2>5 DEF RouteNext
<1> QED
    BY <1>1, <1>2, PTL DEF RouteSpec

(* What Electron is told leads where the agent leads.                        *)
LEMMA ElectronReadsAlike ==
  ASSUME RouteInv, NEW url \in Urls, url.protocol \in {"http", "https", "ftp"}, ReadAlike(url),
         TranslateToElectron(routeOptions) # Throws
  PROVE  ElectronRoute(TranslateToElectron(routeOptions), url) = ProxyForUrl(routeOptions, url)
<1> DEFINE o == routeOptions
           config == TranslateToElectron(o)
           rules == {r \in config.rules : r.protocol \in {"any", url.protocol}}
           bypassed == \E r \in config.bypass : url.host \in r.hosts /\ r.port \in {"", url.port}
<1>1. ElectronRoute(config, url) =
        IF rules = {} \/ bypassed \/ url.host = "localhost" THEN Direct
        ELSE (CHOOSE r \in rules : TRUE).proxy
      BY DEF ElectronRoute
<1>2. url.host # "localhost"
      BY DEF ReadAlike
<1>3. ASSUME config.bypass = RulesOf(o)
      PROVE  ElectronRoute(config, url) =
               IF rules = {} \/ ~ShouldProxy(RulesOf(o), url) THEN Direct
               ELSE (CHOOSE r \in rules : TRUE).proxy
  <2>1. bypassed <=> ~ShouldProxy(RulesOf(o), url)
        BY <1>3 DEF ReadAlike, ShouldProxy, Matches
  <2> HIDE DEF rules
  <2> QED
      BY <1>1, <1>2, <2>1
<1>4. CASE o.proxy # Direct
  <2>1. config = Config({For("any", o.proxy)}, o.noProxyHosts) /\ (IsPac(o.proxy) \/ Valid(o.proxy))
        BY <1>4 DEF TranslateToElectron
  <2>2. config.rules = {For("any", o.proxy)} /\ config.bypass = RulesOf(o)
        BY <1>4, <2>1 DEF Config, RulesOf
  <2>3. rules = {For("any", o.proxy)}
        BY <2>2 DEF For
  <2>4. (CHOOSE r \in rules : TRUE).proxy = o.proxy
    <3>1. For("any", o.proxy).proxy = o.proxy
          BY DEF For
    <3> HIDE DEF rules
    <3> QED
        BY <2>3, <3>1
  <2>5. o.proxy.protocol # "direct"
        BY <2>1 DEF IsPac, Valid
  <2>6. ProxyForUrl(o, url) = IF ShouldProxy(RulesOf(o), url) THEN o.proxy ELSE Direct
        BY <1>4, <2>5 DEF ProxyForUrl, RulesOf
  <2>7. rules # {}
        BY <2>3
  <2> HIDE DEF rules
  <2> QED
      BY <1>3, <2>2, <2>4, <2>6, <2>7
<1>5. CASE o.proxy = Direct /\ ~o.useEnvironment
  <2>1. config = Config({}, {})
        BY <1>5 DEF TranslateToElectron
  <2>2. rules = {}
        BY <2>1 DEF Config
  <2>3. ProxyForUrl(o, url) = Direct
        BY <1>5 DEF ProxyForUrl
  <2> QED
      BY <1>1, <2>2, <2>3
<1>6. CASE o.proxy = Direct /\ o.useEnvironment
  <2> DEFINE p == ForProtocol(o.environment, url.protocol)
  <2>1. config = Config(EnvironmentRules(o.environment), Bypass(o))
        BY <1>6 DEF TranslateToElectron
  <2>2. config.rules = EnvironmentRules(o.environment) /\ config.bypass = RulesOf(o)
        BY <1>6, <2>1 DEF Config, RulesOf, Bypass, Combined
  <2>3. ProxyForUrl(o, url) = IF ShouldProxy(RulesOf(o), url) THEN p ELSE Direct
        BY <1>6 DEF ProxyForUrl, RulesOf
  <2>4. rules = IF p # Direct THEN {For(url.protocol, p)} ELSE {}
    <3>1. ASSUME NEW r \in rules PROVE p # Direct /\ r = For(url.protocol, p)
      <4>1. r \in EnvironmentRules(o.environment) /\ r.protocol \in {"any", url.protocol}
            BY <2>2
      <4>2. PICK q \in {"http", "https", "ftp"} :
              ForProtocol(o.environment, q) # Direct /\ r = For(q, ForProtocol(o.environment, q))
            BY <4>1 DEF EnvironmentRules
      <4>3. r.protocol = q /\ q # "any"
            BY <4>2 DEF For
      <4>4. q = url.protocol
            BY <4>1, <4>3
      <4> QED
          BY <4>2, <4>4
    <3>2. ASSUME p # Direct PROVE For(url.protocol, p) \in rules
      <4>1. For(url.protocol, p) \in EnvironmentRules(o.environment)
            BY <3>2 DEF EnvironmentRules
      <4>2. For(url.protocol, p).protocol = url.protocol
            BY DEF For
      <4> QED
          BY <2>2, <4>1, <4>2
    <3> HIDE DEF rules, p
    <3> QED
        BY <3>1, <3>2
  <2>5. p # Direct => (CHOOSE r \in rules : TRUE).proxy = p
    <3>1. For(url.protocol, p).proxy = p
          BY DEF For
    <3> HIDE DEF rules, p
    <3> QED
        BY <2>4, <3>1
  <2>6. p # Direct => rules # {}
    <3> HIDE DEF rules, p
    <3> QED
        BY <2>4
  <2>7. p = Direct => rules = {}
    <3> HIDE DEF rules, p
    <3> QED
        BY <2>4
  <2> HIDE DEF rules, p
  <2> QED
      BY <1>3, <2>2, <2>3, <2>5, <2>6, <2>7
<1> QED
    BY <1>4, <1>5, <1>6 DEF RouteInv, OptionsType, RouteAssumption

(* The way that was chosen for a tunnel is the one its connections take.     *)
LEMMA TunnelReadsAlike == RouteInv => TunnelAgrees
<1> SUFFICES ASSUME RouteInv, routeTunnel # NotYet, NEW url \in Urls, url.protocol = "mongodb",
                    ~(Through(url) = ProxyForUrl(routeOptions, url))
             PROVE  \/ routeTunnel = Direct
                       /\ \E rule \in RulesOf(routeOptions) : Matches(rule, Hostless)
                    \/ /\ routeTunnel \notin {Direct, LocalServer}
                       /\ ~ShouldProxy(RulesOf(routeOptions), url)
    BY DEF TunnelAgrees
<1> DEFINE o == routeOptions
<1>1. routeTunnel = CreateSocks5Tunnel(o)
      BY DEF RouteInv
<1>2. routeTunnel # LocalServer /\ routeTunnel # ProxyForUrl(o, url)
      BY DEF Through
<1>3. CASE ProxyForUrl(o, Hostless) = Direct
  <2>1. routeTunnel = Direct
        BY <1>1, <1>3 DEF CreateSocks5Tunnel, Socks5Only
  <2>2. ~ShouldProxy(RulesOf(o), Hostless)
    <3> SUFFICES ASSUME ShouldProxy(RulesOf(o), Hostless) PROVE ProxyForUrl(o, url) = Direct
        BY <1>2, <2>1
    <3> QED
        BY <1>3 DEF ProxyForUrl, RulesOf, Hostless
  <2> QED
      BY <2>1, <2>2 DEF ShouldProxy
<1>4. CASE ProxyForUrl(o, Hostless) # Direct
  <2>1. routeTunnel = ProxyForUrl(o, Hostless)
        BY <1>1, <1>2, <1>4 DEF CreateSocks5Tunnel, Socks5Only
  <2>2. ~ShouldProxy(RulesOf(o), url)
    <3> SUFFICES ASSUME ShouldProxy(RulesOf(o), url)
                 PROVE  ProxyForUrl(o, url) = ProxyForUrl(o, Hostless)
        BY <1>2, <2>1
    <3> QED
        BY <1>4 DEF ProxyForUrl, RulesOf, Hostless
  <2> QED
      BY <1>2, <1>4, <2>1, <2>2
<1> QED
    BY <1>3, <1>4

(* The readers of the options agree on where they lead, and no secret is    *)
(* lost, for any options.                                                   *)
THEOREM ReadersAgree == RouteSpec => []RoutesAgree
<1>1. RouteInv => RoutesAgree
  <2> SUFFICES ASSUME RouteInv PROVE RoutesAgree
      OBVIOUS
  <2>1. ElectronAgrees
        BY ElectronReadsAlike DEF ElectronAgrees, RouteInv
  <2>2. SecretsSurvive
        BY MergedIsSame DEF SecretsSurvive, RouteInv
  <2> QED
      BY <2>1, <2>2, TunnelReadsAlike DEF RoutesAgree
<1> QED
    BY <1>1, RouteInvHolds, PTL

(* Whoever sends something through a proxy sends it through the right one,   *)
(* for any requests, options and URLs.                                       *)
THEOREM ProxiesRight == ProxiesSpec => []ProxiesAreRight
<1>1. ProxiesAreRight <=> OthersAreEnded /\ RoutesAgree
      BY DEF ProxiesAreRight
<1> QED
    BY <1>1, NoAgentForgotten, ReadersAgree, PTL DEF ProxiesSpec
=============================================================================
