----------------------------- MODULE ProxyFetch -----------------------------
(* devtools-proxy-support: requests that go through one createFetch(), its    *)
(* agent and the request lock of that agent.  The agent exists once the       *)
(* system's certificates were read, or could not be read.                     *)
EXTENDS FiniteSets

CONSTANTS Fetches,  \* the requests
          Schemes,   \* the kinds of proxy: "ssh" and others
          NoRequest

ASSUME ProxyAssumption == NoRequest \notin Fetches

VARIABLES
  scheme,    \* the kind of proxy that was configured
  inner,     \* the promise of the DevtoolsProxyAgent
  ready,     \* agentInitializedPromise
  fetching,  \* where each request is
  lock,      \* who holds _reqLock
  current,   \* _req
  decided,   \* the request each proxy decision was made from
  stuck      \* the requests that failed before getProxyForUrl was called

proxyVars == <<scheme, inner, ready, fetching, lock, current, decided, stuck>>

FetchStates == {"idle", "initialize", "connect", "waiting", "asking", "done", "failed"}
Promises == {"none", "pending", "ok", "rejected"}

ProxyInit ==
  /\ scheme \in Schemes
  /\ inner = "pending" /\ ready = "none"
  /\ fetching = [r \in Fetches |-> "idle"]
  /\ lock = NoRequest /\ current = NoRequest
  /\ decided = [r \in Fetches |-> NoRequest]
  /\ stuck = {}

StepTo(r, pc) == fetching' = [fetching EXCEPT ![r] = pc]

\* systemCA() swallows the failure to read certificates; the constructor of the
\* agent may throw.
InnerSettles ==
  /\ inner = "pending"
  /\ inner' \in {"ok", "rejected"}
  /\ UNCHANGED <<scheme, ready, fetching, lock, current, decided, stuck>>

\* fetch(): agentInitializedPromise ??= agent.initialize()
Fetch(r) ==
  /\ fetching[r] = "idle"
  /\ StepTo(r, "initialize")
  /\ ready' = IF ready = "none" THEN "pending" ELSE ready
  /\ UNCHANGED <<scheme, inner, lock, current, decided, stuck>>

\* Only an SSH agent has anything to initialize.
InitializeSettles ==
  /\ ready = "pending" /\ inner # "pending"
  /\ ready' \in IF inner = "rejected" THEN {"rejected"}
                ELSE IF scheme = "ssh" THEN {"ok", "rejected"} ELSE {"ok"}
  /\ UNCHANGED <<scheme, inner, fetching, lock, current, decided, stuck>>

Initialized(r) ==
  /\ fetching[r] = "initialize" /\ ready \in {"ok", "rejected"}
  /\ StepTo(r, IF ready = "ok" THEN "connect" ELSE "failed")
  /\ UNCHANGED <<scheme, inner, ready, lock, current, decided, stuck>>

\* Deviation: two requests may hold the lock.
NotExclusive == TRUE

MayAcquire == lock = NoRequest

\* connect(): the loop over _reqLock, and what follows it.
Connect(r) ==
  /\ fetching[r] \in {"connect", "waiting"}
  /\ IF scheme = "ssh" THEN StepTo(r, "done") /\ UNCHANGED <<lock, current>>
     ELSE IF MayAcquire
     THEN StepTo(r, "asking") /\ lock' = r /\ current' = r
     ELSE /\ fetching[r] = "connect"
          /\ StepTo(r, "waiting") /\ UNCHANGED <<lock, current>>
  /\ UNCHANGED <<scheme, inner, ready, decided, stuck>>

\* super.connect() calls getProxyForUrl, which takes the request and unlocks.
GetProxyForUrl(r) ==
  /\ fetching[r] = "asking"
  /\ IF lock = NoRequest \/ current = NoRequest
     THEN StepTo(r, "failed") /\ UNCHANGED <<lock, current, decided>>
     ELSE /\ \E pc \in {"done", "failed"} : StepTo(r, pc)
          /\ decided' = [decided EXCEPT ![r] = current]
          /\ lock' = NoRequest /\ current' = NoRequest
  /\ UNCHANGED <<scheme, inner, ready, stuck>>

\* super.connect() fails before it asks: nothing releases the lock.
ConnectFails(r) ==
  /\ fetching[r] = "asking"
  /\ StepTo(r, "failed")
  /\ stuck' = stuck \cup {r}
  /\ UNCHANGED <<scheme, inner, ready, lock, current, decided>>

ProxyNext ==
  \/ InnerSettles \/ InitializeSettles
  \/ \E r \in Fetches :
       Fetch(r) \/ Initialized(r) \/ Connect(r) \/ GetProxyForUrl(r) \/ ConnectFails(r)

ProxySpec == ProxyInit /\ [][ProxyNext]_proxyVars

-----------------------------------------------------------------------------
(* Properties.                                                                *)

\* The types of the variables.
ProxyTypeOK ==
  /\ scheme \in Schemes
  /\ inner \in Promises /\ ready \in Promises
  /\ fetching \in [Fetches -> FetchStates]
  /\ lock \in Fetches \cup {NoRequest} /\ current \in Fetches \cup {NoRequest}
  /\ decided \in [Fetches -> Fetches \cup {NoRequest}]
  /\ stuck \subseteq Fetches

\* The proxy of a request is never chosen from the headers of another one, and
\* the lock is held by a request that is about to ask, so that nobody waits in
\* vain; the exception is a request that failed before it asked.
LockServesItsHolder ==
  /\ \A r \in Fetches : decided[r] \in {r, NoRequest}
  /\ \A r \in Fetches : fetching[r] = "asking" => lock = r
  /\ lock # NoRequest => fetching[lock] = "asking" \/ lock \in stuck
=============================================================================
