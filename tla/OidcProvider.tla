---------------------------- MODULE OidcProvider ----------------------------
(* oidc-mock-provider: an authorization server for tests.  Codes are stored   *)
(* under random ids (here: numbers) and taken out by the request that         *)
(* presents them; requests are served concurrently.                           *)
EXTENDS Integers, FiniteSets

CONSTANTS HttpRequests,  \* the HTTP requests
          MaxCodes   \* bound of the model: how many codes are drawn

ASSUME ProviderAssumption == MaxCodes \in Nat

VARIABLES
  codes,    \* how many codes were drawn
  state,    \* the codes that are stored, with their payload
  handler,  \* where the handler of each request is
  tokens,   \* the codes that tokens were issued for, in order of the answers
  refused   \* the codes that were presented with a wrong verifier

providerVars == <<codes, state, handler, tokens, refused>>

CodeKinds == {"code", "device", "refresh"}
Code == 1 .. MaxCodes
Idle == [pc |-> "idle", code |-> 0, kind |-> "code"]

ProviderInit ==
  /\ codes = 0 /\ state = {}
  /\ handler = [r \in HttpRequests |-> Idle]
  /\ tokens = [c \in Code |-> 0]
  /\ refused = {}

Handle(r, pc, c, k) ==
  handler' = [handler EXCEPT ![r] = [pc |-> pc, code |-> c, kind |-> k]]

\* Deviation: the entry is left in place.
Kept(c) == state

Taken(c) == {e \in state : e.code # c}

\* storeForSingleRetrieval: the id takes an await, then the payload is stored.
Store(r, k) ==
  /\ codes < MaxCodes
  /\ codes' = codes + 1
  /\ Handle(r, "store", codes + 1, k)

\* /authorize and /device; a /authorize that asks for no code fails.
Authorize(r, k) ==
  /\ handler[r].pc = "idle" /\ k \in {"code", "device"}
  /\ Store(r, k)
  /\ UNCHANGED <<state, tokens, refused>>

Stored(r) ==
  /\ handler[r].pc = "store"
  /\ state' = state \cup {[code |-> handler[r].code, kind |-> handler[r].kind]}
  /\ handler' = [handler EXCEPT ![r] = Idle]
  /\ UNCHANGED <<codes, tokens, refused>>

\* /token: the entry is taken before anything is awaited or verified.  A code
\* that is not there, a refresh token (which has no challenge) and a wrong
\* verifier end with an error.
Token(r, c, proved) ==
  /\ handler[r].pc = "idle"
  /\ state' = Taken(c)
  /\ \E e \in state :
       /\ e.code = c
       /\ IF e.kind = "device" \/ (e.kind = "code" /\ proved)
          THEN Handle(r, "issue", c, e.kind) /\ UNCHANGED refused
          ELSE refused' = refused \cup {c} /\ UNCHANGED handler
  /\ UNCHANGED <<codes, tokens>>

\* issueToken awaits the payload and random numbers; getTokenPayload may throw.
Issue(r, ok) ==
  /\ handler[r].pc = "issue"
  /\ IF ok THEN /\ tokens' = [tokens EXCEPT ![handler[r].code] = @ + 1]
                /\ \/ Store(r, "refresh")
                   \/ handler' = [handler EXCEPT ![r] = Idle] /\ UNCHANGED codes
     ELSE handler' = [handler EXCEPT ![r] = Idle] /\ UNCHANGED <<codes, tokens>>
  /\ UNCHANGED <<state, refused>>

ProviderNext ==
  \E r \in HttpRequests :
    \/ \E k \in CodeKinds : Authorize(r, k)
    \/ Stored(r)
    \/ \E c \in Code, proved \in BOOLEAN : Token(r, c, proved)
    \/ \E ok \in BOOLEAN : Issue(r, ok)

ProviderSpec == ProviderInit /\ [][ProviderNext]_providerVars

-----------------------------------------------------------------------------
(* Properties.                                                                *)

\* The types of the variables.
ProviderTypeOK ==
  /\ codes \in 0 .. MaxCodes
  /\ state \subseteq [code : Code, kind : CodeKinds]
  /\ handler \in [HttpRequests ->
       [pc : {"idle", "store", "issue"}, code : 0 .. MaxCodes, kind : CodeKinds]]
  /\ tokens \in [Code -> Nat]
  /\ refused \subseteq Code

\* However many requests present a code at once, at most one token is issued
\* for it, and none after it was presented with a wrong verifier.
CodesAreSpentOnce ==
  \A c \in Code :
    /\ tokens[c] + Cardinality({r \in HttpRequests : handler[r].pc = "issue"
                                                /\ handler[r].code = c}) <= 1
    /\ c \in refused => tokens[c] = 0 /\ \A e \in state : e.code # c
=============================================================================
