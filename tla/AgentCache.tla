----------------------------- MODULE AgentCache -----------------------------
(* devtools-proxy-support: ProxyAgent keeps one http.Agent for each protocol   *)
(* and proxy in an LRU cache, and loads the code of an agent, by an import     *)
(* that it awaits, between the lookup and the entry.                           *)
EXTENDS Naturals, Sequences, SequencesExt

CONSTANTS
  AgentRequests,
  Keys,       \* protocol and proxy
  CacheSize,  \* 20 in the code
  Nil,
  MaxAgents   \* bound of the model: agents that are created

ASSUME CacheAssumption == CacheSize \in Nat \ {0} /\ MaxAgents \in Nat

VARIABLES
  agentCache,  \* keys with their agents, the one used last at the end
  created,     \* how many agents there were; they are numbered
  ended,       \* the agents that destroy() was called for
  agentReq,    \* the requests: their key, the agent they have got
  destroyed    \* ProxyAgent.destroy() was called

agentCacheVars == <<agentCache, created, ended, agentReq, destroyed>>

CacheInit ==
  /\ agentCache = <<>> /\ created = 0 /\ ended = {} /\ destroyed = FALSE
  /\ agentReq = [r \in AgentRequests |-> [pc |-> "idle", key |-> Nil, agent |-> Nil]]

Entries(k) == {i \in DOMAIN agentCache : agentCache[i].key = k}

\* Deviation: an entry stays when it is used again or replaced.
Everything(k) == agentCache

\* A key has one entry at most.
Without(k) ==
  IF Entries(k) = {} THEN agentCache
  ELSE RemoveAt(agentCache, CHOOSE i \in Entries(k) : TRUE)

Cached == {agentCache[i].agent : i \in DOMAIN agentCache}

-----------------------------------------------------------------------------
(* ProxyAgent.                                                                *)

\* The proxy of a request is known: a cached agent is used again.
Lookup(r, k) ==
  /\ agentReq[r].pc # "importing"
  /\ IF Entries(k) = {}
     THEN /\ agentReq' = [agentReq EXCEPT ![r] = [pc |-> "importing", key |-> k, agent |-> Nil]]
          /\ UNCHANGED agentCache
     ELSE LET e == agentCache[CHOOSE i \in Entries(k) : TRUE] IN
          /\ agentReq' = [agentReq EXCEPT ![r] = [pc |-> "has", key |-> k, agent |-> e.agent]]
          /\ agentCache' = Append(Without(k), e)
  /\ UNCHANGED <<created, ended, destroyed>>

\* Deviation: an agent that is replaced is forgotten.
Evicted(k) == IF Len(Without(k)) = CacheSize THEN {agentCache[1].agent} ELSE {}

\* dispose: the agent that had the key, or was used longest ago.
Disposed(k) ==
  {agentCache[i].agent : i \in Entries(k)}
  \cup (IF Len(Without(k)) = CacheSize THEN {agentCache[1].agent} ELSE {})

\* The code is there: a new agent, whatever the cache has got meanwhile.
Imported(r) ==
  LET k == agentReq[r].key
      entry == [key |-> k, agent |-> created + 1]
      rest == IF Len(Without(k)) = CacheSize THEN Tail(agentCache) ELSE Without(k)
  IN
  /\ agentReq[r].pc = "importing" /\ created < MaxAgents
  /\ created' = created + 1
  /\ agentCache' = Append(rest, entry)
  /\ ended' = ended \cup Disposed(k)
  /\ agentReq' = [agentReq EXCEPT ![r].pc = "has", ![r].agent = entry.agent]
  /\ UNCHANGED destroyed

\* The import is rejected, or the protocol of the proxy is not supported.
ImportFails(r) ==
  /\ agentReq[r].pc = "importing"
  /\ agentReq' = [agentReq EXCEPT ![r].pc = "idle", ![r].key = Nil]
  /\ UNCHANGED <<agentCache, created, ended, destroyed>>

AgentsToEnd == Cached

\* destroy(): the agents stay in the cache.
Destroy ==
  /\ ended' = ended \cup AgentsToEnd
  /\ destroyed' = TRUE
  /\ UNCHANGED <<agentCache, created, agentReq>>

CacheNext ==
  \/ \E r \in AgentRequests : \/ \E k \in Keys : Lookup(r, k)
                         \/ Imported(r) \/ ImportFails(r)
  \/ Destroy

CacheSpec == CacheInit /\ [][CacheNext]_agentCacheVars

-----------------------------------------------------------------------------
(* Properties.                                                                *)

\* The types of the variables.
CacheTypeOK ==
  /\ agentCache \in Seq([key : Keys, agent : 1..created]) /\ Len(agentCache) <= CacheSize
  /\ created \in 0..MaxAgents /\ ended \subseteq 1..created
  /\ \A r \in AgentRequests :
       /\ agentReq[r].pc \in {"idle", "importing", "has"}
       /\ agentReq[r].agent \in 1..created \cup {Nil}
       /\ agentReq[r].pc = "has" => agentReq[r].agent # Nil

\* No agent with its sockets is forgotten, whoever creates a second one for its
\* key meanwhile and however many keys push it out: what is not in the cache has
\* been destroyed, and before destroy() nothing else has.
OthersAreEnded ==
  /\ 1..created \ Cached \subseteq ended
  /\ ~destroyed => Cached \cap ended = {}
=============================================================================
