--------------------------- MODULE Services_proofs ---------------------------
(***************************************************************************)
(* What holds of the smaller services for every value of their constants:  *)
(* the lock of the proxy agent serves who holds it (ProxyFetch), the call  *)
(* for a device id was told why it resolved as it did (DeviceId), a code   *)
(* of the OIDC provider is spent once (OidcProvider), completions are made *)
(* from what is known (Autocomplete, TsService), and a schema counts what  *)
(* the documents have (SchemaAnalyzer).                                    *)
(***************************************************************************)
EXTENDS ProxyFetch, DeviceId, OidcProvider, Completion, SchemaAnalyzer,
        FiniteSetTheorems, TLAPS

-----------------------------------------------------------------------------
(* ProxyFetch.  The property lacks that the headers and the lock change     *)
(* hands together: who is about to ask holds both.                          *)

Together ==
  /\ current = lock
  /\ \A r \in Fetches : fetching[r] = "asking" => lock = r

ProxyInv == ProxyTypeOK /\ LockServesItsHolder /\ Together

LEMMA ProxyInvInit == ProxyInit => ProxyInv
  BY ProxyAssumption
  DEF ProxyInit, ProxyInv, ProxyTypeOK, LockServesItsHolder, Together, FetchStates, Promises

LEMMA ProxyInvNext == ProxyInv /\ [ProxyNext]_proxyVars => ProxyInv'
<1> SUFFICES ASSUME ProxyInv, [ProxyNext]_proxyVars
             PROVE  ProxyInv'
    OBVIOUS
<1> USE ProxyAssumption
    DEF ProxyInv, ProxyTypeOK, LockServesItsHolder, Together, FetchStates, Promises
<1>1. CASE InnerSettles
      BY <1>1 DEF InnerSettles
<1>2. CASE InitializeSettles
      BY <1>2 DEF InitializeSettles
<1>3. ASSUME NEW r \in Fetches, Fetch(r)
      PROVE  ProxyInv'
      BY <1>3 DEF Fetch, StepTo
<1>4. ASSUME NEW r \in Fetches, Initialized(r)
      PROVE  ProxyInv'
      BY <1>4 DEF Initialized, StepTo
<1>5. ASSUME NEW r \in Fetches, Connect(r)
      PROVE  ProxyInv'
  <2>1. CASE scheme = "ssh"
        BY <1>5, <2>1 DEF Connect, StepTo
  <2>2. CASE scheme # "ssh" /\ MayAcquire
        BY <1>5, <2>2 DEF Connect, StepTo, MayAcquire
  <2>3. CASE scheme # "ssh" /\ ~MayAcquire
        BY <1>5, <2>3 DEF Connect, StepTo, MayAcquire
  <2> QED BY <2>1, <2>2, <2>3
<1>6. ASSUME NEW r \in Fetches, GetProxyForUrl(r)
      PROVE  ProxyInv'
  <2>1. lock = r /\ current = r /\ r # NoRequest
        BY <1>6 DEF GetProxyForUrl
  <2>2. PICK pc \in {"done", "failed"} : fetching' = [fetching EXCEPT ![r] = pc]
        BY <1>6, <2>1 DEF GetProxyForUrl, StepTo
  <2>3. /\ decided' = [decided EXCEPT ![r] = r]
        /\ lock' = NoRequest /\ current' = NoRequest
        /\ UNCHANGED <<scheme, inner, ready, stuck>>
        BY <1>6, <2>1 DEF GetProxyForUrl
  <2>4. ProxyTypeOK'
        BY <2>2, <2>3
  <2>5. \A s \in Fetches : fetching'[s] # "asking"
        BY <2>1, <2>2
  <2>6. QED BY <2>1, <2>3, <2>4, <2>5
<1>7. ASSUME NEW r \in Fetches, ConnectFails(r)
      PROVE  ProxyInv'
      BY <1>7 DEF ConnectFails, StepTo
<1>8. CASE UNCHANGED proxyVars
      BY <1>8 DEF proxyVars
<1>9. QED
      BY <1>1, <1>2, <1>3, <1>4, <1>5, <1>6, <1>7, <1>8 DEF ProxyNext

(* The proxy of a request is chosen from its own headers and nobody waits  *)
(* for a lock that is not about to be released, the request that failed    *)
(* before it asked excepted, for any number of requests (agent.ts).        *)
THEOREM LockIsServed == ProxySpec => []LockServesItsHolder
<1>1. ProxyInv => LockServesItsHolder
      BY DEF ProxyInv
<1>2. QED
      BY ProxyInvInit, ProxyInvNext, <1>1, PTL DEF ProxySpec

-----------------------------------------------------------------------------
(* DeviceId.  The timer runs until the call is decided and never after.     *)

Race ==
  /\ value = "pending" <=> by = "nothing"
  /\ timer = "set" => value = "pending"
  /\ value = "pending" => early = {} /\ aborted # "during" /\ machine = "pending"
  /\ aborted # "during" => told["abort"] = 0
  /\ told["timeout"] = (IF by = "timeout" THEN 1 ELSE 0)
  /\ machine = "failed" <=> told["resolutionError"] = 1

DeviceInv == DeviceTypeOK /\ ToldWhy /\ Race

LEMMA DeviceInvInit == DeviceInit => DeviceInv
  BY DEF DeviceInit, DeviceInv, DeviceTypeOK, ToldWhy, Race, HasTimer, Reasons

LEMMA DeviceInvNext == DeviceInv /\ [DeviceNext]_deviceVars => DeviceInv'
<1> SUFFICES ASSUME DeviceInv, [DeviceNext]_deviceVars
             PROVE  DeviceInv'
    OBVIOUS
<1> USE DEF DeviceInv, DeviceTypeOK, ToldWhy, Race, Reasons
<1>1. CASE MachineIdRead
      BY <1>1 DEF MachineIdRead, Resolve, Cleared
<1>2. CASE MachineIdFails
      BY <1>2 DEF MachineIdFails, Resolve, Cleared, Tell
<1>3. CASE TimerFires
      BY <1>3 DEF TimerFires, Tell
<1>4. CASE SignalAborts
      BY <1>4 DEF SignalAborts, Resolve, Cleared, Tell
<1>5. CASE UNCHANGED deviceVars
      BY <1>5 DEF deviceVars
<1>6. QED
      BY <1>1, <1>2, <1>3, <1>4, <1>5 DEF DeviceNext

(* onError was told the one reason why the call resolved as it did, and a  *)
(* timeout only of a call that it decided (get-device-id.ts).              *)
THEOREM ReasonIsTold == DeviceSpec => []ToldWhy
<1>1. DeviceInv => ToldWhy
      BY DEF DeviceInv
<1>2. QED
      BY DeviceInvInit, DeviceInvNext, <1>1, PTL DEF DeviceSpec

-----------------------------------------------------------------------------
(* OidcProvider.  A code is in one place at a time: not drawn yet, on its   *)
(* way to the store, in the store, with the one request that took it, or    *)
(* spent.                                                                   *)

Storing(c) == {r \in HttpRequests : handler[r].pc = "store" /\ handler[r].code = c}
Issuing(c) == {r \in HttpRequests : handler[r].pc = "issue" /\ handler[r].code = c}
InStore(c) == \E e \in state : e.code = c
AtMostOne(S) == \A r, s \in S : r = s

OnePlace(c) ==
  /\ c > codes => ~InStore(c) /\ Storing(c) = {} /\ Issuing(c) = {}
                  /\ tokens[c] = 0 /\ c \notin refused
  /\ AtMostOne(Storing(c)) /\ AtMostOne(Issuing(c))
  /\ InStore(c) => Storing(c) = {}
  /\ InStore(c) \/ Storing(c) # {} => Issuing(c) = {} /\ tokens[c] = 0 /\ c \notin refused
  /\ Issuing(c) # {} => tokens[c] = 0 /\ c \notin refused
  /\ c \in refused => tokens[c] = 0
  /\ tokens[c] <= 1

ProviderInv ==
  /\ ProviderTypeOK
  /\ \A r \in HttpRequests : handler[r].pc # "idle" => handler[r].code \in 1 .. codes
  /\ \A c \in Code : OnePlace(c)

LEMMA ProviderInvInit == ProviderInit => ProviderInv
  BY ProviderAssumption
  DEF ProviderInit, ProviderInv, ProviderTypeOK, OnePlace, Storing, Issuing, InStore,
      AtMostOne, Idle, Code, CodeKinds

(* What a step does to the requests that are about to store or issue c.    *)
LEMMA Moved ==
  ASSUME NEW r \in HttpRequests, \A q \in HttpRequests \ {r} : handler'[q] = handler[q],
         NEW c \in Code
  PROVE  /\ Storing(c)' = IF handler'[r].pc = "store" /\ handler'[r].code = c
                          THEN Storing(c) \cup {r} ELSE Storing(c) \ {r}
         /\ Issuing(c)' = IF handler'[r].pc = "issue" /\ handler'[r].code = c
                          THEN Issuing(c) \cup {r} ELSE Issuing(c) \ {r}
  BY DEF Storing, Issuing

LEMMA ProviderInvNext == ProviderInv /\ [ProviderNext]_providerVars => ProviderInv'
<1> SUFFICES ASSUME ProviderInv, [ProviderNext]_providerVars
             PROVE  ProviderInv'
    OBVIOUS
<1> USE ProviderAssumption DEF ProviderInv, Code, CodeKinds
<1>1. ASSUME NEW r \in HttpRequests, NEW k \in CodeKinds, Authorize(r, k)
      PROVE  ProviderInv'
  <2> DEFINE h == [pc |-> "store", code |-> codes + 1, kind |-> k]
  <2>1. /\ handler[r].pc = "idle" /\ codes < MaxCodes /\ codes' = codes + 1
        /\ handler' = [handler EXCEPT ![r] = h]
        /\ UNCHANGED <<state, tokens, refused>>
        BY <1>1 DEF Authorize, Store, Handle
  <2>2. ProviderTypeOK'
        BY <2>1 DEF ProviderTypeOK
  <2>3. \A q \in HttpRequests : handler'[q].pc # "idle" => handler'[q].code \in 1 .. codes'
        BY <2>1 DEF ProviderTypeOK
  <2>4. ASSUME NEW c \in Code
        PROVE  OnePlace(c)'
    <3>1. r \notin Storing(c) /\ r \notin Issuing(c)
          BY <2>1 DEF Storing, Issuing
    <3>2. /\ Storing(c)' = IF c = codes + 1 THEN Storing(c) \cup {r} ELSE Storing(c)
          /\ Issuing(c)' = Issuing(c)
      <4>1. /\ handler'[r].pc = "store" /\ handler'[r].code = codes + 1
            /\ \A q \in HttpRequests \ {r} : handler'[q] = handler[q]
            BY <2>1 DEF ProviderTypeOK
      <4>2. /\ Storing(c)' = IF c = codes + 1 THEN Storing(c) \cup {r} ELSE Storing(c) \ {r}
            /\ Issuing(c)' = Issuing(c) \ {r}
            BY <4>1, Moved
      <4>3. QED BY <3>1, <4>2
    <3>3. InStore(c)' = InStore(c)
          BY <2>1 DEF InStore
    <3>4. QED
          BY <2>1, <3>1, <3>2, <3>3 DEF ProviderTypeOK, OnePlace, AtMostOne
  <2>5. QED BY <2>2, <2>3, <2>4
<1>2. ASSUME NEW r \in HttpRequests, Stored(r)
      PROVE  ProviderInv'
  <2> DEFINE d == handler[r].code
  <2>1. /\ handler[r].pc = "store" /\ handler' = [handler EXCEPT ![r] = Idle]
        /\ state' = state \cup {[code |-> d, kind |-> handler[r].kind]}
        /\ UNCHANGED <<codes, tokens, refused>>
        BY <1>2 DEF Stored
  <2>2. d \in 1 .. codes /\ d \in Code
        BY <2>1 DEF ProviderTypeOK
  <2>3. ProviderTypeOK'
        BY <2>1, <2>2 DEF ProviderTypeOK, Idle
  <2>4. \A q \in HttpRequests : handler'[q].pc # "idle" => handler'[q].code \in 1 .. codes'
        BY <2>1 DEF ProviderTypeOK, Idle
  <2>5. ASSUME NEW c \in Code
        PROVE  OnePlace(c)'
    <3>1. /\ Storing(c)' = Storing(c) \ {r}
          /\ Issuing(c)' = Issuing(c) \ {r}
      <4>1. handler'[r] = Idle /\ \A q \in HttpRequests \ {r} : handler'[q] = handler[q]
            BY <2>1 DEF ProviderTypeOK
      <4>2. QED BY <4>1, Moved DEF Idle
    <3>2. r \notin Issuing(c) /\ (r \in Storing(c) <=> c = d)
          BY <2>1 DEF Storing, Issuing
    <3>3. InStore(c)' <=> InStore(c) \/ c = d
      <4> DEFINE new == [code |-> d, kind |-> handler[r].kind]
      <4>1. new.code = d /\ state' = state \cup {new}
            BY <2>1
      <4>2. QED BY <4>1 DEF InStore
    <3>4. QED
          BY <2>1, <2>2, <3>1, <3>2, <3>3 DEF ProviderTypeOK, OnePlace, AtMostOne
  <2>6. QED BY <2>3, <2>4, <2>5
<1>3. ASSUME NEW r \in HttpRequests, NEW d \in Code, NEW proved \in BOOLEAN,
             Token(r, d, proved)
      PROVE  ProviderInv'
  <2>1. PICK e \in state :
          /\ e.code = d
          /\ \/ /\ handler' = [handler EXCEPT ![r] =
                                 [pc |-> "issue", code |-> d, kind |-> e.kind]]
                /\ UNCHANGED refused
             \/ refused' = refused \cup {d} /\ UNCHANGED handler
        BY <1>3 DEF Token, Handle
  <2>2. /\ handler[r].pc = "idle" /\ state' = {f \in state : f.code # d}
        /\ UNCHANGED <<codes, tokens>>
        BY <1>3 DEF Token, Taken
  <2>3. InStore(d) /\ d \in 1 .. codes
        BY <2>1 DEF InStore, OnePlace, ProviderTypeOK
  <2>4. e.kind \in CodeKinds
        BY DEF ProviderTypeOK
  <2>5. handler' \in [HttpRequests ->
          [pc : {"idle", "store", "issue"}, code : 0 .. MaxCodes, kind : CodeKinds]]
        BY <2>1, <2>4 DEF ProviderTypeOK
  <2>6. ProviderTypeOK'
        BY <2>1, <2>2, <2>5 DEF ProviderTypeOK
  <2>10. ASSUME NEW q \in HttpRequests, handler'[q].pc # "idle"
        PROVE  handler'[q].code \in 1 .. codes'
    <3>1. handler'[q] = handler[q] \/ handler'[q].code = d
          BY <2>1 DEF ProviderTypeOK
    <3>2. QED BY <2>2, <2>3, <3>1, <2>10
  <2>7. ASSUME NEW c \in Code
        PROVE  OnePlace(c)'
    <3>1. r \notin Storing(c) /\ r \notin Issuing(c)
          BY <2>2 DEF Storing, Issuing
    <3>2. InStore(c)' <=> InStore(c) /\ c # d
          BY <2>2 DEF InStore
    <3>3. Storing(c)' = Storing(c)
      <4>1. /\ \A q \in HttpRequests \ {r} : handler'[q] = handler[q]
            /\ handler'[r].pc # "store"
            BY <2>1, <2>2 DEF ProviderTypeOK
      <4>2. QED BY <3>1, <4>1 DEF Storing
    <3>4. CASE UNCHANGED refused /\ Issuing(c)' =
                 IF c = d THEN Issuing(c) \cup {r} ELSE Issuing(c)
          BY <2>2, <2>3, <3>1, <3>2, <3>3, <3>4 DEF OnePlace, AtMostOne
    <3>5. CASE refused' = refused \cup {d} /\ Issuing(c)' = Issuing(c)
          BY <2>2, <2>3, <3>1, <3>2, <3>3, <3>5 DEF OnePlace, AtMostOne
    <3>6. CASE handler' = [handler EXCEPT ![r] =
                             [pc |-> "issue", code |-> d, kind |-> e.kind]]
      <4>1. /\ handler'[r] = [pc |-> "issue", code |-> d, kind |-> e.kind]
            /\ \A q \in HttpRequests \ {r} : handler'[q] = handler[q]
            BY <3>6 DEF ProviderTypeOK
      <4>2. Issuing(c)' = IF handler'[r].pc = "issue" /\ handler'[r].code = c
                          THEN Issuing(c) \cup {r} ELSE Issuing(c) \ {r}
            BY <4>1, Moved
      <4>3. handler'[r].pc = "issue" /\ handler'[r].code = d
            BY <4>1
      <4>4. Issuing(c)' = IF c = d THEN Issuing(c) \cup {r} ELSE Issuing(c)
            BY <3>1, <4>2, <4>3
      <4>5. refused' = refused
            BY <2>1, <2>2, <4>1
      <4>6. QED BY <3>4, <4>4, <4>5
    <3>7. CASE UNCHANGED handler
          BY <2>1, <2>2, <3>5, <3>7 DEF Issuing, ProviderTypeOK
    <3>8. QED BY <2>1, <3>6, <3>7
  <2>8. QED BY <2>6, <2>10, <2>7
<1>4. ASSUME NEW r \in HttpRequests, NEW ok \in BOOLEAN, Issue(r, ok)
      PROVE  ProviderInv'
  <2> DEFINE d == handler[r].code
             h == [pc |-> "store", code |-> codes + 1, kind |-> "refresh"]
  <2>1. /\ handler[r].pc = "issue"
        /\ UNCHANGED <<state, refused>>
        /\ tokens' = IF ok THEN [tokens EXCEPT ![d] = @ + 1] ELSE tokens
        /\ \/ codes < MaxCodes /\ codes' = codes + 1 /\ handler' = [handler EXCEPT ![r] = h]
           \/ handler' = [handler EXCEPT ![r] = Idle] /\ UNCHANGED codes
        BY <1>4 DEF Issue, Store, Handle
  <2>2. d \in 1 .. codes /\ d \in Code
        BY <2>1 DEF ProviderTypeOK
  <2>3. tokens' \in [Code -> Nat]
        BY <2>1, <2>2 DEF ProviderTypeOK
  <2>4. /\ ProviderTypeOK'
        /\ \A q \in HttpRequests : handler'[q].pc # "idle" => handler'[q].code \in 1 .. codes'
    <3>1. CASE /\ codes < MaxCodes /\ codes' = codes + 1
               /\ handler' = [handler EXCEPT ![r] = h]
          BY <2>1, <2>3, <3>1 DEF ProviderTypeOK
    <3>2. CASE handler' = [handler EXCEPT ![r] = Idle] /\ UNCHANGED codes
          BY <2>1, <2>3, <3>2 DEF ProviderTypeOK, Idle
    <3>3. QED BY <2>1, <3>1, <3>2
  <2>5. ASSUME NEW c \in Code
        PROVE  OnePlace(c)'
    <3>1. r \notin Storing(c) /\ (r \in Issuing(c) <=> c = d)
          BY <2>1 DEF Storing, Issuing
    <3>2. /\ Issuing(c)' = Issuing(c) \ {r}
          /\ Storing(c)' = Storing(c) \/ (codes' = codes + 1 /\ c = codes + 1
                                            /\ Storing(c)' = Storing(c) \cup {r})
      <4>1. /\ \A q \in HttpRequests \ {r} : handler'[q] = handler[q]
            /\ handler'[r] = Idle \/ (handler'[r] = h /\ codes' = codes + 1)
            BY <2>1 DEF ProviderTypeOK
      <4>2. CASE handler'[r] = Idle
            BY <3>1, <4>1, <4>2, Moved DEF Idle
      <4>3. CASE handler'[r] = h /\ codes' = codes + 1
            BY <3>1, <4>1, <4>3, Moved
      <4>4. QED BY <4>1, <4>2, <4>3
    <3>3. codes' \in {codes, codes + 1}
          BY <2>1
    <3>4. InStore(c)' = InStore(c)
          BY <2>1 DEF InStore
    <3>5. tokens'[c] = IF ok /\ c = d THEN tokens[c] + 1 ELSE tokens[c]
          BY <2>1, <2>2 DEF ProviderTypeOK
    <3>6. CASE c = d
          BY <2>1, <2>2, <3>1, <3>2, <3>3, <3>4, <3>5, <3>6
          DEF ProviderTypeOK, OnePlace, AtMostOne
    <3>7. CASE c # d
          BY <2>1, <2>2, <3>1, <3>2, <3>3, <3>4, <3>5, <3>7
          DEF ProviderTypeOK, OnePlace, AtMostOne
    <3>8. QED BY <3>6, <3>7
  <2>6. QED BY <2>4, <2>5
<1>5. CASE UNCHANGED providerVars
      BY <1>5
      DEF providerVars, ProviderTypeOK, OnePlace, Storing, Issuing, InStore, AtMostOne
<1>6. QED
      BY <1>1, <1>2, <1>3, <1>4, <1>5 DEF ProviderNext

LEMMA SpentOnce == ProviderInv => CodesAreSpentOnce
<1> SUFFICES ASSUME ProviderInv, NEW c \in Code
             PROVE  /\ tokens[c] + Cardinality(Issuing(c)) <= 1
                    /\ c \in refused => tokens[c] = 0 /\ ~InStore(c)
    BY DEF CodesAreSpentOnce, Issuing, InStore
<1>1. OnePlace(c) /\ tokens[c] \in Nat
      BY DEF ProviderInv, ProviderTypeOK
<1>2. CASE Issuing(c) = {}
      BY <1>1, <1>2, FS_EmptySet DEF OnePlace
<1>3. CASE Issuing(c) # {}
  <2>1. PICK r \in Issuing(c) : Issuing(c) = {r}
        BY <1>1, <1>3 DEF OnePlace, AtMostOne
  <2>2. Cardinality(Issuing(c)) = 1
        BY <2>1, FS_Singleton
  <2>3. QED BY <1>1, <1>3, <2>2 DEF OnePlace
<1>4. QED BY <1>2, <1>3

(* At most one token for a code, however many requests present it, and     *)
(* none after a wrong verifier (index.ts of oidc-mock-provider).           *)
THEOREM SpentCodes == ProviderSpec => []CodesAreSpentOnce
  BY ProviderInvInit, ProviderInvNext, SpentOnce, PTL DEF ProviderSpec

-----------------------------------------------------------------------------
(* TsService.  What the service holds of a file is current if it has the     *)
(* version the host says, unless the first text came from the fallback host. *)

ServedAs(f) == held[f] = Snapshot(codeHolder, f) \/ (f \in fellBack /\ versions[f] = 1)

HeldIsCurrent(f) ==
  /\ versions[f] = 0 <=> codeHolder[f] = NoText
  /\ held[f] # NoText =>
       /\ heldVersion[f] <= ScriptVersion(versions, f)
       /\ versions[f] = 0 => f \in fellBack
       /\ heldVersion[f] = ScriptVersion(versions, f) => ServedAs(f)

ServiceInv ==
  /\ versions \in [TsFiles -> Nat] /\ heldVersion \in [TsFiles -> Nat]
  /\ DOMAIN codeHolder = TsFiles /\ DOMAIN held = TsFiles
  /\ codeHolder = [f \in TsFiles |-> codeHolder[f]] /\ held = [f \in TsFiles |-> held[f]]
  /\ answered \subseteq TsFiles /\ fellBack \subseteq OnDisk
  /\ \A f \in TsFiles : HeldIsCurrent(f)
  /\ \A f \in answered : ServedAs(f)

LEMMA ServiceInvInit == ServiceInit => ServiceInv
  BY DEF ServiceInit, ServiceInv, HeldIsCurrent

LEMMA UpdateCodeKeeps ==
  ASSUME ServiceInv, NEW g \in TsFiles, NEW text \in TsTexts \cup {OnlyExists},
         UpdateCode(g, text)
  PROVE  ServiceInv'
<1>1. /\ codeHolder' = [codeHolder EXCEPT ![g] = text]
      /\ versions' = [versions EXCEPT ![g] = versions[g] + 1]
      /\ answered' = {} /\ UNCHANGED <<held, heldVersion, fellBack>>
      BY DEF UpdateCode, NextScriptVersion
<1>2. /\ versions' \in [TsFiles -> Nat] /\ versions'[g] = versions[g] + 1
      /\ versions[g] \in Nat /\ heldVersion[g] \in Nat
      /\ codeHolder'[g] = text /\ DOMAIN codeHolder' = TsFiles
      /\ codeHolder' = [f \in TsFiles |-> codeHolder'[f]]
      /\ \A f \in TsFiles \ {g} : versions'[f] = versions[f] /\ codeHolder'[f] = codeHolder[f]
      BY <1>1 DEF ServiceInv
<1>3. ASSUME NEW f \in TsFiles \ {g} PROVE HeldIsCurrent(f)'
      BY <1>1, <1>2, <1>3 DEF ServiceInv, HeldIsCurrent, ScriptVersion, ServedAs, Snapshot
<1>4. HeldIsCurrent(g)'
  <2>1. HeldIsCurrent(g)
        BY DEF ServiceInv
  <2> QED
      BY <1>1, <1>2, <2>1, ServiceAssumption DEF HeldIsCurrent, ScriptVersion, ServedAs
<1> QED
    BY <1>1, <1>2, <1>3, <1>4 DEF ServiceInv

LEMMA CompleteCodeKeeps ==
  ASSUME ServiceInv, NEW text \in TsTexts, NEW imported \in SUBSET OnDisk,
         CompleteCode(text, imported)
  PROVE  ServiceInv'
<1> DEFINE program == {Main} \cup InMemory \cup imported
           stale == {f \in program : \/ held[f] = NoText
                                     \/ heldVersion[f] # ScriptVersion(versions', f)}
<1>1. /\ codeHolder' = [codeHolder EXCEPT ![Main] = text]
      /\ versions' = [versions EXCEPT ![Main] = versions[Main] + 1]
      /\ held' = [f \in TsFiles |-> IF f \in stale THEN Snapshot(codeHolder', f) ELSE held[f]]
      /\ heldVersion' = [f \in TsFiles |-> IF f \in stale THEN ScriptVersion(versions', f)
                                           ELSE heldVersion[f]]
      /\ answered' = program
      /\ fellBack' = fellBack \cup {f \in stale : codeHolder'[f] = NoText}
      BY DEF CompleteCode, NextScriptVersion
<1>2. program \subseteq TsFiles /\ Main \in TsFiles \ OnDisk
      BY ServiceAssumption DEF InMemory
<1>3. /\ versions' \in [TsFiles -> Nat] /\ versions'[Main] = versions[Main] + 1
      /\ codeHolder'[Main] = text /\ DOMAIN codeHolder' = TsFiles
      /\ codeHolder' = [f \in TsFiles |-> codeHolder'[f]]
      /\ \A f \in TsFiles \ {Main} : /\ versions'[f] = versions[f]
                                     /\ codeHolder'[f] = codeHolder[f]
  <2>1. /\ codeHolder' = [codeHolder EXCEPT ![Main] = text]
        /\ versions' = [versions EXCEPT ![Main] = versions[Main] + 1] /\ Main \in TsFiles
        BY <1>1, <1>2
  <2> QED
      BY <2>1 DEF ServiceInv
<1>4. fellBack' \subseteq OnDisk /\ fellBack \subseteq fellBack'
  <2>1. ASSUME NEW f \in stale, codeHolder'[f] = NoText PROVE f \in OnDisk
    <3>1. f # Main
          BY <1>3, <2>1, ServiceAssumption
    <3> QED
        BY <1>2, <1>3, <2>1, <3>1 DEF InMemory
  <2> QED
      BY <1>1, <2>1 DEF ServiceInv
<1>5. ASSUME NEW f \in TsFiles
      PROVE  /\ heldVersion'[f] \in Nat /\ HeldIsCurrent(f)'
             /\ f \in program => ServedAs(f)'
  <2> HIDE DEF program
  <2>1. /\ HeldIsCurrent(f) /\ versions[f] \in Nat /\ versions'[f] \in Nat
        /\ heldVersion[f] \in Nat /\ ScriptVersion(versions', f) \in Nat
        BY <1>3 DEF ServiceInv, ScriptVersion
  <2>2. CASE f \in stale
    <3>1. /\ held'[f] = Snapshot(codeHolder', f)
          /\ heldVersion'[f] = ScriptVersion(versions', f)
          /\ codeHolder'[f] = NoText => f \in fellBack'
          BY <1>1, <2>2
    <3>2. versions'[f] = 0 <=> codeHolder'[f] = NoText
      <4>1. CASE f = Main
            BY <1>3, <2>1, <4>1, ServiceAssumption
      <4>2. CASE f # Main
            BY <1>3, <2>1, <4>2 DEF HeldIsCurrent
      <4> QED
          BY <4>1, <4>2
    <3>3. ServedAs(f)'
          BY <3>1 DEF ServedAs
    <3> HIDE DEF stale
    <3> QED
        BY <2>1, <3>1, <3>2, <3>3 DEF HeldIsCurrent
  <2>3. CASE f \notin stale
    <3>1. held'[f] = held[f] /\ heldVersion'[f] = heldVersion[f]
          BY <1>1, <2>3
    <3>2. f \in program => held[f] # NoText /\ heldVersion[f] = ScriptVersion(versions', f)
          BY <2>3
    <3> HIDE DEF stale
    <3>3. CASE f = Main
      <4>1. Main \in program
            BY DEF program
      <4>2. versions[f] = 0 => f \in fellBack
            BY <2>1, <3>2, <3>3, <4>1 DEF HeldIsCurrent
      <4>3. versions[f] # 0
            BY <1>2, <3>3, <4>2 DEF ServiceInv
      <4>4. heldVersion[f] <= versions[f] /\ heldVersion[f] = versions[f] + 1
            BY <1>3, <2>1, <3>2, <3>3, <4>1, <4>3 DEF HeldIsCurrent, ScriptVersion
      <4> QED
          BY <2>1, <4>4
    <3>4. CASE f # Main
      <4>1. /\ versions'[f] = versions[f] /\ codeHolder'[f] = codeHolder[f]
            /\ ScriptVersion(versions', f) = ScriptVersion(versions, f)
            /\ Snapshot(codeHolder', f) = Snapshot(codeHolder, f)
            BY <1>3, <3>4 DEF ScriptVersion, Snapshot
      <4>2. ServedAs(f) => ServedAs(f)'
            BY <1>4, <3>1, <4>1 DEF ServedAs
      <4>3. f \in program => ServedAs(f)
            BY <2>1, <3>2, <4>1 DEF HeldIsCurrent
      <4> QED
          BY <1>4, <2>1, <3>1, <4>1, <4>2, <4>3 DEF HeldIsCurrent
    <3> QED
        BY <3>3, <3>4
  <2> QED
      BY <2>2, <2>3
<1> HIDE DEF program, stale
<1>6. /\ heldVersion' = [f \in TsFiles |-> heldVersion'[f]] /\ DOMAIN held' = TsFiles
      /\ held' = [f \in TsFiles |-> held'[f]]
      BY <1>1
<1>7. heldVersion' \in [TsFiles -> Nat]
      BY <1>5, <1>6
<1> QED
    BY <1>1, <1>2, <1>3, <1>4, <1>5, <1>6, <1>7 DEF ServiceInv

LEMMA ServiceInvHolds == ServiceSpec => []ServiceInv
<1>1. ServiceInv /\ [ServiceNext]_serviceVars => ServiceInv'
  <2> SUFFICES ASSUME ServiceInv, [ServiceNext]_serviceVars PROVE ServiceInv'
      OBVIOUS
  <2>1. CASE UNCHANGED serviceVars
        BY <2>1 DEF serviceVars, ServiceInv, HeldIsCurrent, ServedAs
  <2> QED
      BY <2>1, UpdateCodeKeeps, CompleteCodeKeeps DEF ServiceNext
<1> QED
    BY <1>1, ServiceInvInit, PTL DEF ServiceSpec

(* An answer is made from the current text of every file that is asked for, *)
(* unless it came from the fallback host first, for any files and texts     *)
(* (ts-autocomplete/src/index.ts).                                          *)
THEOREM Served == ServiceSpec => []ServedIsCurrent
<1>1. ServiceInv => ServedIsCurrent
      BY DEF ServiceInv, ServedAs, ServedIsCurrent
<1> QED
    BY <1>1, ServiceInvHolds, PTL

-----------------------------------------------------------------------------
(* Autocomplete.  What is known of a database is what is listed, but for a   *)
(* call that has the list already; and what a call that is alone finds is    *)
(* what the last one has left.                                               *)

Calls ==
  [pc : {"idle", "schema", "names"}, at : ConnectionDBs \cup {Unset},
   coll : Collections \cup {Unset}, fetched : BOOLEAN, schema : Schemas \cup {Unset},
   names : SUBSET Collections, isConnectionDBChanged : BOOLEAN,
   isCollectionNameChanged : BOOLEAN, isSchemaChanged : BOOLEAN, alone : BOOLEAN,
   before : CallAnswers \cup {Unset}]

AutoTypes ==
  /\ names \in [ConnectionDBs -> SUBSET Collections]
  /\ serverSchema \in [ConnectionDBs \X Collections -> Schemas]
  /\ inUse \in ConnectionDBs \cup {Unset}
  /\ cachedNames \in [ConnectionDBs -> (SUBSET Collections) \cup {Unset}]
  /\ cachedSchema \in [ConnectionDBs \X Collections -> Schemas \cup {Unset}]
  /\ connectionSchemas = [d \in ConnectionDBs |-> connectionSchemas[d]]
  /\ schemaFile = [k \in Connections |-> schemaFile[k]]
  /\ ask \in [Completions -> Calls]
  /\ last \in CallAnswers \cup {Unset}

\* A call that has the list from the cache.
IsListed(p) == ask[p].pc = "names" /\ ~ask[p].fetched

CallIsSound(p) ==
  LET r == ask[p] IN
  /\ Waiting(p) => r.at \in ConnectionDBs /\ r.coll \in Collections /\ r.schema \in Schemas
  /\ IsListed(p) => r.names = cachedNames[r.at]

\* What a call that is alone finds.
FindsTheLast(p) ==
  LET r == ask[p] IN
  Waiting(p) /\ r.alone =>
    /\ \A q \in Completions \ {p} : ~Waiting(q)
    /\ r.pc = "names" => /\ r.coll \in DOMAIN connectionSchemas[r.at]
                         /\ Entry(connectionSchemas[r.at], r.coll) = r.schema
    /\ r.before # Unset /\ r.before.at = r.at /\ r.before.coll = r.coll
       /\ r.coll \in r.before.names =>
         /\ r.pc = "schema" => Entry(connectionSchemas[r.at], r.coll) = r.before.schema
         /\ r.pc = "names" /\ r.before.schema = r.schema => r.isSchemaChanged

LastIsKnown ==
  last # Unset =>
    /\ \A p \in Completions : ~Waiting(p)
    /\ last.coll \in last.names =>
         Entry(connectionSchemas[last.at], last.coll) = last.schema

ListedIsKnown(d) ==
  cachedNames[d] # Unset =>
    \/ DOMAIN connectionSchemas[d] = cachedNames[d]
    \/ \E p \in Completions : IsListed(p) /\ ask[p].at = d

AutoInv ==
  /\ AutoTypes
  /\ \A p \in Completions : CallIsSound(p) /\ FindsTheLast(p)
  /\ LastIsKnown
  /\ \A d \in ConnectionDBs : ListedIsKnown(d)

LEMMA NotAskedIsIdle == NotAsked \in Calls /\ NotAsked.pc = "idle"
  BY DEF NotAsked, Calls

LEMMA AutoInvInit == AutoInit => AutoInv
<1> SUFFICES ASSUME AutoInit PROVE AutoInv
    OBVIOUS
<1>1. \A p \in Completions : ask[p].pc = "idle"
      BY NotAskedIsIdle DEF AutoInit
<1>2. PICK s \in Schemas : serverSchema = [n \in ConnectionDBs \X Collections |-> s]
      BY DEF AutoInit
<1>3. AutoTypes
  <2>1. /\ names \in [ConnectionDBs -> SUBSET Collections] /\ inUse \in ConnectionDBs
        /\ serverSchema \in [ConnectionDBs \X Collections -> Schemas]
        BY <1>2 DEF AutoInit
  <2>2. ask \in [Completions -> Calls]
        BY NotAskedIsIdle DEF AutoInit
  <2>3. /\ cachedNames \in [ConnectionDBs -> (SUBSET Collections) \cup {Unset}]
        /\ cachedSchema \in [ConnectionDBs \X Collections -> Schemas \cup {Unset}]
    <3> DEFINE tables == ConnectionDBs \X Collections
    <3>1. /\ cachedNames = [d \in ConnectionDBs |-> Unset]
          /\ cachedSchema = [n \in tables |-> Unset]
          BY DEF AutoInit
    <3> HIDE DEF tables
    <3>2. cachedSchema \in [tables -> Schemas \cup {Unset}]
          BY <3>1
    <3> QED
        BY <3>1, <3>2 DEF tables
  <2>4. /\ connectionSchemas = [d \in ConnectionDBs |-> connectionSchemas[d]]
        /\ schemaFile = [k \in Connections |-> schemaFile[k]]
        BY DEF AutoInit
  <2> QED
      BY <2>1, <2>2, <2>3, <2>4 DEF AutoInit, AutoTypes
<1>4. last = Unset /\ \A d \in ConnectionDBs : cachedNames[d] = Unset
      BY DEF AutoInit
<1> QED
    BY <1>1, <1>3, <1>4
    DEF AutoInv, CallIsSound, FindsTheLast, LastIsKnown, ListedIsKnown, Waiting, IsListed

(* The world changes only while no call has an answer in its hands.          *)
LEMMA WorldKeeps == ASSUME AutoInv, ServerChanges \/ Use \/ CacheExpires PROVE AutoInv'
<1>1. /\ UNCHANGED <<connectionSchemas, schemaFile, ask, last>> /\ Quiescent
      BY DEF ServerChanges, Use, CacheExpires, fileVars
<1>2. /\ cachedNames' \in [ConnectionDBs -> (SUBSET Collections) \cup {Unset}]
      /\ cachedSchema' \in [ConnectionDBs \X Collections -> Schemas \cup {Unset}]
      /\ \A d \in ConnectionDBs : cachedNames'[d] \in {Unset, cachedNames[d]}
  <2>1. CASE ServerChanges \/ Use
        BY <2>1 DEF ServerChanges, Use, cacheVars, AutoInv, AutoTypes
  <2>2. ASSUME NEW d \in ConnectionDBs, cachedNames' = [cachedNames EXCEPT ![d] = Unset],
               UNCHANGED cachedSchema
        PROVE  <1>2!1 /\ <1>2!2 /\ <1>2!3
    <3>1. \A e \in ConnectionDBs : cachedNames'[e] \in {Unset, cachedNames[e]}
          BY <2>2 DEF AutoInv, AutoTypes
    <3> QED
        BY <2>2, <3>1 DEF AutoInv, AutoTypes
  <2>3. ASSUME NEW n \in ConnectionDBs \X Collections,
               cachedSchema' = [cachedSchema EXCEPT ![n] = Unset], UNCHANGED cachedNames
        PROVE  <1>2!1 /\ <1>2!2 /\ <1>2!3
        BY <2>3 DEF AutoInv, AutoTypes
  <2> QED
      BY <2>1, <2>2, <2>3 DEF CacheExpires
<1>3. /\ names' \in [ConnectionDBs -> SUBSET Collections]
      /\ serverSchema' \in [ConnectionDBs \X Collections -> Schemas]
      /\ inUse' \in ConnectionDBs \cup {Unset}
  <2>1. CASE ServerChanges
        BY <2>1 DEF ServerChanges, AutoInv, AutoTypes
  <2>2. CASE Use
        BY <2>2 DEF Use, AutoInv, AutoTypes
  <2>3. CASE CacheExpires
        BY <2>3 DEF CacheExpires, serverVars, AutoInv, AutoTypes
  <2> QED
      BY <2>1, <2>2, <2>3
<1>4. \A p \in Completions : ~IsListed(p)
      BY <1>1 DEF Quiescent, Waiting, IsListed
<1>5. AutoTypes'
      BY <1>1, <1>2, <1>3 DEF AutoInv, AutoTypes
<1>6. ASSUME NEW p \in Completions PROVE CallIsSound(p)' /\ FindsTheLast(p)'
      BY <1>1, <1>4 DEF AutoInv, CallIsSound, FindsTheLast, Waiting, IsListed
<1>7. LastIsKnown'
      BY <1>1 DEF AutoInv, LastIsKnown, Waiting
<1>8. ASSUME NEW d \in ConnectionDBs PROVE ListedIsKnown(d)'
      BY <1>1, <1>2, <1>4 DEF AutoInv, ListedIsKnown
<1> QED
    BY <1>5, <1>6, <1>7, <1>8 DEF AutoInv

(* A question that comes while others wait leaves none of them alone.        *)
LEMMA AskKeeps ==
  ASSUME AutoInv, NEW p \in Completions, NEW c \in Collections, Ask(p, c)
  PROVE  AutoInv'
<1> DEFINE hit == cachedSchema[<<inUse, c>>] # Unset
           said == IF hit THEN cachedSchema[<<inUse, c>>] ELSE serverSchema[<<inUse, c>>]
<1>1. /\ Quiescent /\ ~Waiting(p) /\ inUse \in ConnectionDBs /\ last' = Unset
      /\ UNCHANGED <<names, serverSchema, inUse, cachedNames, cachedSchema,
                     connectionSchemas, schemaFile>>
      BY DEF Ask, serverVars, cacheVars, fileVars, AutoInv, AutoTypes
<1>2. said \in Schemas
  <2>1. <<inUse, c>> \in ConnectionDBs \X Collections
        BY <1>1
  <2> QED
      BY <2>1 DEF AutoInv, AutoTypes
<1>3. ask' = [q \in Completions |->
         IF q # p THEN [ask[q] EXCEPT !.alone = FALSE]
         ELSE [pc |-> "schema", at |-> inUse, coll |-> c, fetched |-> ~hit, schema |-> said,
               names |-> {}, isConnectionDBChanged |-> ConnectionDBChanged(inUse),
               isCollectionNameChanged |-> (previousCollectionName # c),
               isSchemaChanged |-> FALSE,
               alone |-> (\A r \in Completions : ~Waiting(r)), before |-> last]]
      BY DEF Ask, NotAsked
<1> HIDE DEF hit, said
<1>4. ask' \in [Completions -> Calls]
  <2>1. ASSUME NEW q \in Completions \ {p} PROVE ask'[q] \in Calls
    <3>1. ask[q] \in Calls /\ ask'[q] = [ask[q] EXCEPT !.alone = FALSE]
          BY <1>3 DEF AutoInv, AutoTypes
    <3> QED
        BY <3>1 DEF Calls
  <2>2. ask'[p] \in Calls
        BY <1>1, <1>2, <1>3 DEF Calls, ConnectionDBChanged, AutoInv, AutoTypes
  <2>3. ask' = [q \in Completions |-> ask'[q]]
        BY <1>3
  <2> QED
      BY <2>1, <2>2, <2>3
<1>5. ASSUME NEW q \in Completions \ {p}
      PROVE  /\ ask'[q].pc = ask[q].pc /\ ask'[q].at = ask[q].at /\ ask'[q].coll = ask[q].coll
             /\ ask'[q].fetched = ask[q].fetched /\ ask'[q].schema = ask[q].schema
             /\ ask'[q].names = ask[q].names /\ ~ask'[q].alone
  <2>1. ask[q] \in Calls /\ ask'[q] = [ask[q] EXCEPT !.alone = FALSE]
        BY <1>3 DEF AutoInv, AutoTypes
  <2> QED
      BY <2>1 DEF Calls
<1>6. /\ ask'[p].pc = "schema" /\ ask'[p].at = inUse /\ ask'[p].coll = c
      /\ ask'[p].schema = said /\ ask'[p].before = last
      /\ ask'[p].alone <=> \A r \in Completions : ~Waiting(r)
      BY <1>3
<1>7. AutoTypes'
      BY <1>1, <1>4 DEF AutoInv, AutoTypes
<1>8. CallIsSound(p)' /\ FindsTheLast(p)'
  <2>1. CallIsSound(p)'
        BY <1>1, <1>2, <1>6 DEF CallIsSound, Waiting, IsListed
  <2>2. ask'[p].alone => \A q \in Completions \ {p} : ~Waiting(q)'
        BY <1>5, <1>6 DEF Waiting
  <2>3. last # Unset /\ last.at = inUse /\ last.coll = c /\ c \in last.names =>
          Entry(connectionSchemas[inUse], c) = last.schema
        BY DEF AutoInv, LastIsKnown
  <2> QED
      BY <1>1, <1>6, <2>1, <2>2, <2>3 DEF FindsTheLast
<1>9. ASSUME NEW q \in Completions \ {p} PROVE CallIsSound(q)' /\ FindsTheLast(q)'
      BY <1>1, <1>5 DEF AutoInv, CallIsSound, FindsTheLast, Waiting, IsListed
<1>10. ASSUME NEW d \in ConnectionDBs PROVE ListedIsKnown(d)'
  <2>1. \A q \in Completions : ~IsListed(q)
        BY <1>1 DEF Quiescent, Waiting, IsListed
  <2> QED
      BY <1>1, <2>1 DEF AutoInv, ListedIsKnown
<1>11. LastIsKnown'
       BY <1>1 DEF LastIsKnown
<1> QED
    BY <1>7, <1>8, <1>9, <1>10, <1>11 DEF AutoInv

LEMMA EndsKeep ==
  ASSUME AutoInv, NEW p \in Completions, AskOffline(p) \/ Fails(p)
  PROVE  AutoInv'
<1>1. /\ UNCHANGED <<names, serverSchema, inUse, cachedNames, cachedSchema,
                     connectionSchemas, schemaFile>>
      /\ Quiescent /\ last' \in {last, Unset}
      BY DEF AskOffline, Fails, serverVars, cacheVars, fileVars
<1>2. /\ ask' \in [Completions -> Calls] /\ ask'[p].pc = "idle"
      /\ \A q \in Completions \ {p} : ask'[q] \in {ask[q], [ask[q] EXCEPT !.alone = FALSE]}
  <2>1. CASE AskOffline(p)
    <3>1. ask' = [q \in Completions |-> IF q = p THEN NotAsked
                                        ELSE [ask[q] EXCEPT !.alone = FALSE]]
          BY <2>1 DEF AskOffline
    <3>2. ASSUME NEW q \in Completions PROVE [ask[q] EXCEPT !.alone = FALSE] \in Calls
      <4>1. ask[q] \in Calls
            BY DEF AutoInv, AutoTypes
      <4> QED
          BY <4>1 DEF Calls
    <3> QED
        BY <3>1, <3>2, NotAskedIsIdle
  <2>2. CASE Fails(p)
        BY <2>2, NotAskedIsIdle DEF Fails, AutoInv, AutoTypes
  <2> QED
      BY <2>1, <2>2
<1>3. ASSUME NEW q \in Completions \ {p}
      PROVE  /\ ask'[q] = ask[q] \/ ~ask'[q].alone
             /\ ask'[q].pc = ask[q].pc /\ ask'[q].at = ask[q].at /\ ask'[q].coll = ask[q].coll
             /\ ask'[q].fetched = ask[q].fetched /\ ask'[q].schema = ask[q].schema
             /\ ask'[q].names = ask[q].names
  <2>1. ask[q] \in Calls /\ ask'[q] \in {ask[q], [ask[q] EXCEPT !.alone = FALSE]}
        BY <1>2 DEF AutoInv, AutoTypes
  <2> QED
      BY <2>1 DEF Calls
<1>4. AutoTypes'
      BY <1>1, <1>2 DEF AutoInv, AutoTypes
<1>5. ~Waiting(p)' /\ \A q \in Completions : Waiting(q)' => Waiting(q)
      BY <1>2, <1>3 DEF Waiting
<1>6. ASSUME NEW q \in Completions PROVE CallIsSound(q)' /\ FindsTheLast(q)'
      BY <1>1, <1>2, <1>3, <1>5, <1>6 DEF AutoInv, CallIsSound, FindsTheLast, Waiting, IsListed
<1>7. ASSUME NEW d \in ConnectionDBs PROVE ListedIsKnown(d)'
  <2>1. \A q \in Completions : ~IsListed(q)
        BY <1>1 DEF Quiescent, Waiting, IsListed
  <2> QED
      BY <1>1, <2>1 DEF AutoInv, ListedIsKnown
<1>8. LastIsKnown'
      BY <1>1, <1>5 DEF AutoInv, LastIsKnown
<1> QED
    BY <1>4, <1>6, <1>7, <1>8 DEF AutoInv

LEMMA GotSchemaKeeps == ASSUME AutoInv, NEW p \in Completions, GotSchema(p) PROVE AutoInv'
<1> DEFINE r == ask[p]
           d == ask[p].at
           hit == cachedNames[d] # Unset
           table == [c \in DOMAIN connectionSchemas[d] \cup {r.coll} |->
                       IF c = r.coll THEN r.schema ELSE connectionSchemas[d][c]]
<1>1. /\ r.pc = "schema" /\ Waiting(p)
      /\ UNCHANGED <<names, serverSchema, inUse, cachedNames, schemaFile, last>>
      BY DEF GotSchema, Waiting, serverVars, fileVars
<1>2. d \in ConnectionDBs /\ r.coll \in Collections /\ r.schema \in Schemas /\ r \in Calls
      BY <1>1 DEF AutoInv, AutoTypes, CallIsSound
<1>3. /\ cachedSchema' \in [ConnectionDBs \X Collections -> Schemas \cup {Unset}]
      /\ connectionSchemas' = [connectionSchemas EXCEPT ![d] = table]
      BY <1>2 DEF GotSchema, AutoInv, AutoTypes
<1>4. ask' = [ask EXCEPT ![p] =
         [r EXCEPT !.pc = "names", !.fetched = ~hit,
                   !.names = IF hit THEN cachedNames[d] ELSE names[d],
                   !.isSchemaChanged = SchemaChanged(connectionSchemas[d], r.coll, r.schema)]]
      BY DEF GotSchema, AutoInv, AutoTypes
<1>5. /\ ask'[p] \in Calls /\ ask'[p].pc = "names" /\ ask'[p].fetched = ~hit
      /\ ask'[p].names = IF hit THEN cachedNames[d] ELSE names[d]
      /\ ask'[p].isSchemaChanged <=> Entry(connectionSchemas[d], r.coll) = r.schema
      /\ ask'[p].at = d /\ ask'[p].coll = r.coll /\ ask'[p].schema = r.schema
      /\ ask'[p].alone = r.alone /\ ask'[p].before = r.before
  <2> DEFINE first == [r EXCEPT !.pc = "names"]
             second == [first EXCEPT !.fetched = ~hit]
             list == IF hit THEN cachedNames[d] ELSE names[d]
             third == [second EXCEPT !.names = list]
             changed == SchemaChanged(connectionSchemas[d], r.coll, r.schema)
  <2>1. ask'[p] = [third EXCEPT !.isSchemaChanged = changed]
        BY <1>4 DEF AutoInv, AutoTypes
  <2>2. cachedNames[d] \in (SUBSET Collections) \cup {Unset} /\ names[d] \in SUBSET Collections
        BY <1>2 DEF AutoInv, AutoTypes
  <2>3. list \in SUBSET Collections /\ hit \in BOOLEAN
    <3>1. CASE hit
          BY <2>2, <3>1
    <3>2. CASE ~hit
          BY <2>2, <3>2
    <3> QED
        BY <3>1, <3>2
  <2>4. changed \in BOOLEAN /\ (changed <=> Entry(connectionSchemas[d], r.coll) = r.schema)
        BY DEF SchemaChanged
  <2> HIDE DEF r, d, hit, list, changed
  <2>5. first \in Calls /\ second \in Calls /\ third \in Calls
        BY <1>2, <2>3 DEF Calls
  <2>6. /\ third.pc = "names" /\ third.fetched = ~hit /\ third.names = list
        /\ third.at = r.at /\ third.coll = r.coll /\ third.schema = r.schema
        /\ third.alone = r.alone /\ third.before = r.before
        BY <1>2, <2>3, <2>5 DEF Calls
  <2> HIDE DEF third
  <2>7. /\ ask'[p] \in Calls /\ (ask'[p].isSchemaChanged <=> changed)
        /\ ask'[p].pc = third.pc /\ ask'[p].fetched = third.fetched
        /\ ask'[p].names = third.names /\ ask'[p].at = third.at /\ ask'[p].coll = third.coll
        /\ ask'[p].schema = third.schema /\ ask'[p].alone = third.alone
        /\ ask'[p].before = third.before
        BY <2>1, <2>4, <2>5 DEF Calls
  <2> QED
      BY <2>4, <2>6, <2>7 DEF list, d, r
<1>6. \A q \in Completions \ {p} : ask'[q] = ask[q]
      BY <1>4 DEF AutoInv, AutoTypes
<1>7. ask' \in [Completions -> Calls]
      BY <1>4, <1>5, <1>6 DEF AutoInv, AutoTypes
<1>8. /\ connectionSchemas' = [e \in ConnectionDBs |-> connectionSchemas'[e]]
      /\ connectionSchemas'[d] = table
      /\ \A e \in ConnectionDBs \ {d} : connectionSchemas'[e] = connectionSchemas[e]
      BY <1>2, <1>3 DEF AutoInv, AutoTypes
<1>9. r.coll \in DOMAIN table /\ Entry(table, r.coll) = r.schema
      BY DEF Entry
<1> HIDE DEF r, d, hit, table
<1>10. AutoTypes'
       BY <1>1, <1>3, <1>7, <1>8 DEF AutoInv, AutoTypes
<1>11. ASSUME NEW q \in Completions \ {p} PROVE CallIsSound(q)' /\ FindsTheLast(q)'
  <2>1. ~(Waiting(q) /\ ask[q].alone)
        BY <1>1 DEF AutoInv, FindsTheLast
  <2> QED
      BY <1>1, <1>6, <2>1 DEF AutoInv, CallIsSound, FindsTheLast, Waiting, IsListed
<1>12. CallIsSound(p)'
       BY <1>1, <1>2, <1>5 DEF CallIsSound, Waiting, IsListed, hit
<1>13. FindsTheLast(p)'
  <2> SUFFICES ASSUME r.alone PROVE FindsTheLast(p)'
      BY <1>5 DEF FindsTheLast
  <2>1. FindsTheLast(p)
        BY DEF AutoInv
  <2>2. \A q \in Completions \ {p} : ~Waiting(q)'
        BY <1>1, <1>6, <2>1 DEF FindsTheLast, Waiting, r
  <2>3. r.before # Unset /\ r.before.at = d /\ r.before.coll = r.coll
        /\ r.coll \in r.before.names => Entry(connectionSchemas[d], r.coll) = r.before.schema
        BY <1>1, <2>1 DEF FindsTheLast, r, d
  <2> QED
      BY <1>5, <1>8, <1>9, <2>2, <2>3 DEF FindsTheLast
<1>14. ASSUME NEW e \in ConnectionDBs PROVE ListedIsKnown(e)'
  <2>1. CASE e = d
        BY <1>1, <1>5, <2>1 DEF ListedIsKnown, IsListed, hit
  <2>2. CASE e # d
    <3>1. \A q \in Completions : IsListed(q) /\ ask[q].at = e =>
            IsListed(q)' /\ ask'[q].at = e
          BY <1>1, <1>6, <2>2 DEF IsListed, r
    <3> QED
        BY <1>1, <1>8, <2>2, <3>1 DEF AutoInv, ListedIsKnown
  <2> QED
      BY <2>1, <2>2
<1>15. LastIsKnown'
       BY <1>1 DEF AutoInv, LastIsKnown
<1> QED
    BY <1>10, <1>11, <1>12, <1>13, <1>14, <1>15 DEF AutoInv

LEMMA GotNamesKeeps == ASSUME AutoInv, NEW p \in Completions, GotNames(p) PROVE AutoInv'
<1> DEFINE r == ask[p]
           d == ask[p].at
           table == ListedOnly(connectionSchemas[d], r.names)
<1>1. /\ r.pc = "names" /\ Waiting(p) /\ (r.fetched => Quiescent)
      /\ UNCHANGED <<names, serverSchema, inUse, cachedSchema>>
      BY DEF GotNames, Waiting, serverVars
<1>2. /\ d \in ConnectionDBs /\ r.coll \in Collections /\ r.schema \in Schemas /\ r \in Calls
      /\ r.names \in SUBSET Collections
      BY <1>1 DEF AutoInv, AutoTypes, CallIsSound, Calls
<1>3. /\ cachedNames' = IF r.fetched THEN [cachedNames EXCEPT ![d] = r.names] ELSE cachedNames
      /\ connectionSchemas' = [connectionSchemas EXCEPT ![d] = table]
      /\ ask' = [ask EXCEPT ![p] = NotAsked]
      /\ last' = IF r.alone
                 THEN [at |-> d, coll |-> r.coll, schema |-> r.schema, names |-> r.names]
                 ELSE Unset
      /\ schemaFile' \in {schemaFile, [schemaFile EXCEPT ![d[1]] =
                                         SchemaCode(d, table, r.coll, r.names)]}
      BY DEF GotNames
<1>4. /\ ask'[p].pc = "idle" /\ ask' \in [Completions -> Calls]
      /\ \A q \in Completions \ {p} : ask'[q] = ask[q]
      BY <1>3, NotAskedIsIdle DEF AutoInv, AutoTypes
<1>5. /\ connectionSchemas' = [e \in ConnectionDBs |-> connectionSchemas'[e]]
      /\ connectionSchemas'[d] = table /\ DOMAIN table = r.names
      /\ \A e \in ConnectionDBs \ {d} : connectionSchemas'[e] = connectionSchemas[e]
      BY <1>2, <1>3 DEF AutoInv, AutoTypes, ListedOnly
<1>6. r.coll \in r.names => Entry(table, r.coll) = Entry(connectionSchemas[d], r.coll)
      BY DEF Entry, ListedOnly
<1> HIDE DEF r, d, table
<1>7. /\ cachedNames' \in [ConnectionDBs -> (SUBSET Collections) \cup {Unset}]
      /\ cachedNames'[d] = r.names
      /\ \A e \in ConnectionDBs \ {d} : cachedNames'[e] = cachedNames[e]
  <2>1. CASE r.fetched
        BY <1>2, <1>3, <2>1 DEF AutoInv, AutoTypes
  <2>2. CASE ~r.fetched
        BY <1>1, <1>3, <2>2 DEF AutoInv, AutoTypes, CallIsSound, IsListed, r, d
  <2> QED
      BY <2>1, <2>2
<1>8. AutoTypes'
  <2>1. last' \in CallAnswers \cup {Unset}
        BY <1>2, <1>3 DEF CallAnswers
  <2>2. schemaFile' = [k \in Connections |-> schemaFile'[k]]
        BY <1>3 DEF AutoInv, AutoTypes
  <2> QED
      BY <1>1, <1>4, <1>5, <1>7, <2>1, <2>2 DEF AutoInv, AutoTypes
<1>9. ASSUME NEW q \in Completions PROVE CallIsSound(q)' /\ FindsTheLast(q)'
  <2>1. CASE q = p
        BY <1>4, <2>1 DEF CallIsSound, FindsTheLast, Waiting, IsListed
  <2>2. CASE q # p
    <3>1. ask'[q] = ask[q] /\ CallIsSound(q) /\ (Waiting(q) => ~ask[q].alone)
          BY <1>1, <1>4, <2>2 DEF AutoInv, FindsTheLast
    <3>2. IsListed(q) => cachedNames' = cachedNames
          BY <1>1, <1>3 DEF Quiescent, Waiting, IsListed
    <3> QED
        BY <3>1, <3>2 DEF CallIsSound, FindsTheLast, Waiting, IsListed
  <2> QED
      BY <2>1, <2>2
<1>10. ASSUME NEW e \in ConnectionDBs PROVE ListedIsKnown(e)'
  <2>1. CASE e = d
        BY <1>5, <1>7, <2>1 DEF ListedIsKnown
  <2>2. CASE e # d
    <3>1. \A q \in Completions : IsListed(q) /\ ask[q].at = e =>
            IsListed(q)' /\ ask'[q].at = e
          BY <1>4, <2>2 DEF IsListed, d
    <3> QED
        BY <1>5, <1>7, <2>2, <3>1 DEF AutoInv, ListedIsKnown
  <2> QED
      BY <2>1, <2>2
<1>11. LastIsKnown'
  <2> SUFFICES ASSUME r.alone PROVE LastIsKnown'
      BY <1>3 DEF LastIsKnown
  <2>1. FindsTheLast(p)
        BY DEF AutoInv
  <2>2. \A q \in Completions : ~Waiting(q)'
        BY <1>1, <1>4, <2>1 DEF FindsTheLast, Waiting, r
  <2>3. Entry(connectionSchemas[d], r.coll) = r.schema
        BY <1>1, <2>1 DEF FindsTheLast, r, d
  <2>4. last' = [at |-> d, coll |-> r.coll, schema |-> r.schema, names |-> r.names]
        BY <1>3
  <2> QED
      BY <1>5, <1>6, <2>2, <2>3, <2>4 DEF LastIsKnown
<1> QED
    BY <1>8, <1>9, <1>10, <1>11 DEF AutoInv

LEMMA AutoInvKept == AutoInv /\ [AutoNext]_autoVars => AutoInv'
<1> SUFFICES ASSUME AutoInv, [AutoNext]_autoVars PROVE AutoInv'
    OBVIOUS
<1>1. CASE UNCHANGED autoVars
      BY <1>1 DEF autoVars, serverVars, cacheVars, fileVars, AutoInv, AutoTypes, CallIsSound,
                  FindsTheLast, LastIsKnown, ListedIsKnown, Waiting, IsListed
<1> QED
    BY <1>1, WorldKeeps, AskKeeps, EndsKeep, GotSchemaKeeps, GotNamesKeeps DEF AutoNext

LEMMA ListedThenKnown == AutoInv => KnownAsListed
  BY DEF AutoInv, KnownAsListed, ListedIsKnown, IsListed, Waiting

(* A repeated question, and one about a database that is known in part, is   *)
(* one that writes both files.                                               *)
LEMMA AnswerIsCurrent ==
  ASSUME AutoInv, NEW p \in Completions, GotNames(p), IsRepeated(p) \/ IsPartlyKnown(p)
  PROVE  FromCurrentFiles(p)
<1> DEFINE r == ask[p]
           d == ask[p].at
           table == ListedOnly(connectionSchemas[d], r.names)
<1>1. /\ r.pc = "names" /\ Waiting(p)
      /\ connectionSchemas' = [connectionSchemas EXCEPT ![d] = table]
      /\ WritesSchema(p) => schemaFile' = [schemaFile EXCEPT ![d[1]] =
                                             SchemaCode(d, table, r.coll, r.names)]
      /\ WritesSchema(p) => globals' = d
      BY DEF GotNames, Waiting, WritesGlobals
<1>2. /\ d \in ConnectionDBs /\ r.coll \in Collections /\ r.schema \in Schemas
      /\ r.names \in SUBSET Collections
      BY <1>1 DEF AutoInv, AutoTypes, CallIsSound, Calls
<1>3. d = <<d[1], d[2]>> /\ d[1] \in Connections /\ d[2] \in Databases
      BY <1>2 DEF ConnectionDBs
<1>4. /\ connectionSchemas'[d] = table
      /\ \A e \in ConnectionDBs \ {d} : connectionSchemas'[e] = connectionSchemas[e]
      BY <1>1, <1>2 DEF AutoInv, AutoTypes
<1>5. WritesSchema(p)
  <2>1. CASE IsRepeated(p)
    <3>1. /\ r.alone /\ r.before = [at |-> d, coll |-> r.coll, schema |-> r.schema,
                                    names |-> r.names]
          BY <2>1 DEF IsRepeated
    <3>2. r.before \in CallAnswers
          BY <1>2, <3>1 DEF CallAnswers
    <3>3. r.before # Unset /\ r.before.at = d /\ r.before.coll = r.coll
          /\ r.before.schema = r.schema /\ r.before.names = r.names
          BY <3>1, <3>2, AutoAssumption
    <3>4. /\ r.coll \in DOMAIN connectionSchemas[d]
          /\ r.coll \in r.names => r.isSchemaChanged
          BY <1>1, <3>1, <3>3 DEF AutoInv, FindsTheLast
    <3> QED
        BY <3>4 DEF WritesSchema, CollectionsChanged
  <2>2. CASE IsPartlyKnown(p)
    <3>1. PICK c \in r.names : table[c] = Unset
          BY <1>4, <2>2 DEF IsPartlyKnown
    <3> QED
        BY <3>1 DEF WritesSchema, CollectionsChanged, ListedOnly
  <2> QED
      BY <2>1, <2>2
<1>6. schemaFile'[d[1]] = SchemaCode(d, table, r.coll, r.names)
      BY <1>1, <1>3, <1>5 DEF AutoInv, AutoTypes
<1>7. ASSUME NEW b \in Databases
      PROVE  connectionSchemas'[<<d[1], b>>] =
               IF b = d[2] THEN table ELSE connectionSchemas[<<d[1], b>>]
  <2>1. CASE b = d[2]
        BY <1>3, <1>4, <2>1
  <2>2. CASE b # d[2]
    <3>1. <<d[1], b>> \in ConnectionDBs \ {d}
          BY <1>3, <2>2 DEF ConnectionDBs
    <3> QED
        BY <1>4, <2>2, <3>1
  <2> QED
      BY <2>1, <2>2
<1>8. [b \in Databases |-> connectionSchemas'[<<d[1], b>>]] =
        [b \in Databases |-> IF b = d[2] THEN table ELSE connectionSchemas[<<d[1], b>>]]
      BY <1>7
<1> HIDE DEF table
<1> QED
    BY <1>1, <1>5, <1>6, <1>8 DEF FromCurrentFiles, SchemaCode

(* What is known is what is listed, and a call that is repeated or knows its      *)
(* database in part is answered from files that say what is known, for any        *)
(* connections, databases, collections and calls that overlap (autocompleter.ts). *)
THEOREM Current == AutoSpec => AnswersAreCurrent
<1>1. AutoInv /\ [AutoNext]_autoVars =>
        [\A p \in Completions :
           GotNames(p) /\ (IsRepeated(p) \/ IsPartlyKnown(p)) => FromCurrentFiles(p)]_autoVars
      BY AnswerIsCurrent
<1> QED
    BY <1>1, ListedThenKnown, AutoInvInit, AutoInvKept, PTL DEF AutoSpec, AnswersAreCurrent

(* Completions are made from what is known, by the autocompleter and by the   *)
(* language service, whatever calls overlap and fall back.                    *)
THEOREM CompletionsCurrent == CompletionSpec => CompletionsAreCurrent
  BY Current, Served, PTL DEF CompletionSpec, CompletionsAreCurrent

-----------------------------------------------------------------------------
(* SchemaAnalyzer.  The counts are those of the visits that were made, however *)
(* the analyses of documents interleave (NodesMatch, TypesMatch, RootMatches); *)
(* what they say of each other follows from how a document is walked, when no  *)
(* walk is half done.                                                         *)

Past(x) == x[2] \in DOMAIN Visits[x[1]] /\ x[2] < doc[x[1]]
Seen(S) == {x \in Documents \X Nat : Past(x) /\ Visits[x[1]][x[2]] \in S}
AllOf == {d \in Documents : Analyzed(d)}

NodesMatch(n) == IsFiniteSet(Seen({n})) /\ counts[n] = Cardinality(Seen({n}))
TypesMatch(f) ==
  /\ IsFiniteSet(Seen(ChildrenOf(f))) /\ IsFiniteSet(CountedTypes(counts, f))
  /\ Cardinality(CountedTypes(counts, f)) = Cardinality(Seen(ChildrenOf(f)))
RootMatches == IsFiniteSet(AllOf) /\ counts[Root] = Cardinality(AllOf)

SchemaInv ==
  /\ SchemaTypeOK
  /\ \A n \in Nodes : NodesMatch(n)
  /\ \A f \in Fields : TypesMatch(f)
  /\ RootMatches
  /\ fieldsCount > Limit => broken # {}
  /\ finalized /\ ~premature => Underway = {} /\ schema = counts

(* What a visit is of.                                                       *)
LEMMA VisitsOf ==
  ASSUME NEW d \in Documents
  PROVE  /\ Len(Visits[d]) \in Nat /\ DOMAIN Visits[d] = 1..Len(Visits[d])
         /\ \A i \in DOMAIN Visits[d] : Visits[d][i] \in Nodes /\ Visits[d][i] # Root
  BY SchemaAssumption

LEMMA SchemaInvInit == SchemaInit => SchemaInv
<1> SUFFICES ASSUME SchemaInit PROVE SchemaInv
    OBVIOUS
<1>1. SchemaTypeOK
      BY DEF SchemaInit, SchemaTypeOK, Nothing
<1>2. ASSUME NEW S PROVE Seen(S) = {}
  <2>1. ASSUME NEW x \in Documents \X Nat PROVE ~Past(x)
    <3>1. x[1] \in Documents /\ doc[x[1]] = 0
          BY DEF SchemaInit
    <3>2. x[2] \in DOMAIN Visits[x[1]] => x[2] > 0
          BY <3>1, VisitsOf
    <3> QED
        BY <3>1, <3>2 DEF Past
  <2> QED
      BY <2>1 DEF Seen
<1>3. AllOf = {}
      BY VisitsOf DEF AllOf, Analyzed, SchemaInit
<1>4. ASSUME NEW f \in Fields PROVE CountedTypes(counts, f) = {}
  <2>1. ASSUME NEW t \in ChildrenOf(f) PROVE {t} \X (1..counts[t]) = {}
    <3>1. counts[t] = 0
          BY DEF SchemaInit, Nothing, ChildrenOf
    <3> QED
        BY <3>1
  <2> QED
      BY <2>1 DEF CountedTypes
<1>5. \A n \in Nodes : NodesMatch(n)
      BY <1>2, FS_EmptySet DEF NodesMatch, SchemaInit, Nothing
<1>6. \A f \in Fields : TypesMatch(f)
      BY <1>2, <1>4, FS_EmptySet DEF TypesMatch
<1>7. RootMatches
      BY <1>3, FS_EmptySet DEF RootMatches, SchemaInit, Nothing
<1>8. fieldsCount = 0 /\ Underway = {} /\ schema = counts
      BY DEF SchemaInit, Underway
<1> QED
    BY <1>1, <1>5, <1>6, <1>7, <1>8, SchemaAssumption DEF SchemaInv

(* Steps that visit nothing.                                                 *)
LEMMA NothingSeen ==
  ASSUME SchemaInv, counts' = counts,
         \A d \in Documents : \A i \in DOMAIN Visits[d] : i < doc'[d] <=> i < doc[d],
         \A d \in Documents : Analyzed(d)' <=> Analyzed(d)
  PROVE  /\ \A n \in Nodes : NodesMatch(n)'
         /\ \A f \in Fields : TypesMatch(f)'
         /\ RootMatches'
<1>1. ASSUME NEW S PROVE Seen(S)' = Seen(S)
      BY DEF Seen, Past
<1>2. AllOf' = AllOf
      BY DEF AllOf
<1> QED
    BY <1>1, <1>2 DEF SchemaInv, NodesMatch, TypesMatch, RootMatches

LEMMA AnalyzeDocKeeps ==
  ASSUME SchemaInv, NEW d \in Documents, AnalyzeDoc(d) PROVE SchemaInv'
<1> USE DEF AnalyzeDoc
<1>1. SchemaTypeOK'
      BY DEF SchemaInv, SchemaTypeOK, Reset
<1>2. doc'[d] = 1 /\ doc[d] = 0 /\ \A e \in Documents \ {d} : doc'[e] = doc[e]
      BY DEF SchemaInv, SchemaTypeOK
<1>3. \A e \in Documents : \A i \in DOMAIN Visits[e] : i < doc'[e] <=> i < doc[e]
  <2> SUFFICES ASSUME NEW i \in DOMAIN Visits[d] PROVE i < doc'[d] <=> i < doc[d]
      BY <1>2
  <2>1. i \in Nat /\ i > 0
        BY VisitsOf
  <2> QED
      BY <1>2, <2>1
<1>4. \A e \in Documents : Analyzed(e)' <=> Analyzed(e)
  <2>1. Len(Visits[d]) \in Nat
        BY VisitsOf
  <2>2. Analyzed(d)' <=> Analyzed(d)
        BY <1>2, <2>1 DEF Analyzed
  <2> QED
      BY <1>2, <2>2 DEF Analyzed
<1>5. /\ \A n \in Nodes : NodesMatch(n)'
      /\ \A f \in Fields : TypesMatch(f)'
      /\ RootMatches'
      BY <1>3, <1>4, NothingSeen
<1> QED
    BY <1>1, <1>5 DEF SchemaInv, Reset

LEMMA AbortAnalysisKeeps ==
  ASSUME SchemaInv, NEW d \in Documents, AbortAnalysis(d) PROVE SchemaInv'
<1> USE DEF AbortAnalysis
<1>1. SchemaTypeOK'
      BY DEF SchemaInv, SchemaTypeOK
<1>2. /\ \A n \in Nodes : NodesMatch(n)'
      /\ \A f \in Fields : TypesMatch(f)'
      /\ RootMatches'
      BY NothingSeen DEF Analyzed
<1>3. Underway' \subseteq Underway /\ broken' # {}
      BY DEF Underway, Analyzed
<1> QED
    BY <1>1, <1>2, <1>3 DEF SchemaInv

LEMMA GetResultKeeps == ASSUME SchemaInv, GetResult PROVE SchemaInv'
<1> USE DEF GetResult
<1>1. SchemaTypeOK'
      BY DEF SchemaInv, SchemaTypeOK
<1>2. /\ \A n \in Nodes : NodesMatch(n)'
      /\ \A f \in Fields : TypesMatch(f)'
      /\ RootMatches'
      BY NothingSeen DEF Analyzed
<1>3. Underway' = Underway
      BY DEF Underway, Analyzed
<1> QED
    BY <1>1, <1>2, <1>3 DEF SchemaInv

LEMMA FinishDocKeeps ==
  ASSUME SchemaInv, NEW d \in Documents, FinishDoc(d) PROVE SchemaInv'
<1> USE DEF FinishDoc
<1>1. SchemaTypeOK'
      BY DEF SchemaInv, SchemaTypeOK
<1>2. PICK n : n = Len(Visits[d])
      OBVIOUS
<1>3. n \in Nat /\ DOMAIN Visits[d] = 1..n
      BY <1>2, VisitsOf
<1>4. doc[d] = n + 1 /\ doc'[d] = n + 2 /\ \A e \in Documents \ {d} : doc'[e] = doc[e]
      BY <1>2, <1>3 DEF SchemaInv, SchemaTypeOK
<1>5. \A e \in Documents : \A i \in DOMAIN Visits[e] : i < doc'[e] <=> i < doc[e]
  <2> SUFFICES ASSUME NEW i \in DOMAIN Visits[d] PROVE i < doc'[d] <=> i < doc[d]
      BY <1>4
  <2>1. i \in Nat /\ i <= n
        BY <1>3
  <2> QED
      BY <1>3, <1>4, <2>1
<1>6. ASSUME NEW S PROVE Seen(S)' = Seen(S)
      BY <1>5 DEF Seen, Past
<1>7. d \notin AllOf /\ AllOf' = AllOf \cup {d}
  <2>1. ~Analyzed(d) /\ Analyzed(d)'
        BY <1>2, <1>3, <1>4 DEF Analyzed
  <2>2. \A e \in Documents \ {d} : Analyzed(e)' <=> Analyzed(e)
        BY <1>4 DEF Analyzed
  <2> QED
      BY <2>1, <2>2 DEF AllOf
<1>8. /\ counts'[Root] = counts[Root] + 1 /\ \A m \in Nodes : counts'[m] = counts[m]
      BY SchemaAssumption DEF SchemaInv, SchemaTypeOK
<1>9. RootMatches'
  <2>1. PICK S : S = AllOf
        OBVIOUS
  <2>2. IsFiniteSet(S \cup {d}) /\ Cardinality(S \cup {d}) = Cardinality(S) + 1
        BY <1>7, <2>1, FS_AddElement DEF SchemaInv, RootMatches
  <2> QED
      BY <1>7, <1>8, <2>1, <2>2 DEF SchemaInv, RootMatches
<1>10. \A m \in Nodes : NodesMatch(m)'
       BY <1>6, <1>8 DEF SchemaInv, NodesMatch
<1>11. ASSUME NEW f \in Fields PROVE TypesMatch(f)'
  <2>1. \A t \in ChildrenOf(f) : counts'[t] = counts[t]
        BY <1>8 DEF ChildrenOf
  <2>2. CountedTypes(counts, f)' = CountedTypes(counts, f)
        BY <2>1 DEF CountedTypes
  <2> QED
      BY <1>6, <2>2 DEF SchemaInv, TypesMatch
<1>12. finalized' /\ ~premature' => Underway' = {} /\ schema' = counts'
       BY DEF SchemaInv
<1> QED
    BY <1>1, <1>9, <1>10, <1>11, <1>12 DEF SchemaInv

LEMMA VisitKeeps ==
  ASSUME SchemaInv, NEW d \in Documents, Visit(d) PROVE SchemaInv'
<1>1. PICK i : i = doc[d]
      OBVIOUS
<1>2. PICK n : n = Visits[d][i]
      OBVIOUS
<1>3. /\ i \in DOMAIN Visits[d] /\ i \in Nat /\ d \in Underway
      /\ n \in Nodes /\ n # Root
  <2>1. d \in Underway /\ doc[d] \in Nat /\ doc[d] > 0 /\ doc[d] <= Len(Visits[d])
        BY DEF Visit, Underway, SchemaInv, SchemaTypeOK
  <2> QED
      BY <1>1, <1>2, <2>1, VisitsOf
<1>4. /\ known' = known \cup ({n} \cap Fields)
      /\ fieldsCount' = IF n \in Fields \ known THEN fieldsCount + 1 ELSE fieldsCount
      /\ IF AboveLimit(n) THEN broken' = broken \cup {d} /\ UNCHANGED <<counts, doc>>
         ELSE /\ counts' = [counts EXCEPT ![n] = @ + 1]
              /\ doc' = [doc EXCEPT ![d] = @ + 1]
              /\ UNCHANGED broken
      /\ UNCHANGED <<finalized, schema, premature>>
      BY <1>1, <1>2 DEF Visit
<1>5. SchemaTypeOK'
      BY <1>3, <1>4 DEF SchemaInv, SchemaTypeOK
<1>6. fieldsCount' > Limit => broken' # {}
  <2>1. fieldsCount \in Nat /\ Limit \in Nat
        BY SchemaAssumption DEF SchemaInv, SchemaTypeOK
  <2>2. CASE AboveLimit(n)
        BY <1>4, <2>2
  <2>3. CASE ~AboveLimit(n)
        BY <1>4, <2>1, <2>3 DEF AboveLimit, SchemaInv
  <2> QED
      BY <2>2, <2>3
<1>7. ~(finalized' /\ ~premature')
      BY <1>3, <1>4 DEF SchemaInv
<1>8. CASE AboveLimit(n)
  <2>1. UNCHANGED <<counts, doc>>
        BY <1>4, <1>8
  <2>2. /\ \A m \in Nodes : NodesMatch(m)'
        /\ \A f \in Fields : TypesMatch(f)'
        /\ RootMatches'
        BY <2>1, NothingSeen DEF Analyzed
  <2> QED
      BY <1>5, <1>6, <1>7, <2>2 DEF SchemaInv
<1>9. CASE ~AboveLimit(n)
  <2>1. /\ counts'[n] = counts[n] + 1 /\ counts[n] \in Nat
        /\ \A m \in (Nodes \cup {Root}) \ {n} : counts'[m] = counts[m]
        /\ doc'[d] = i + 1 /\ doc[d] = i /\ \A e \in Documents \ {d} : doc'[e] = doc[e]
        BY <1>1, <1>3, <1>4, <1>9 DEF SchemaInv, SchemaTypeOK
  <2>2. AllOf' = AllOf
    <3>1. ~Analyzed(d) /\ ~Analyzed(d)'
      <4>1. Len(Visits[d]) \in Nat /\ i <= Len(Visits[d])
            BY <1>3, VisitsOf
      <4> QED
          BY <1>3, <2>1, <4>1 DEF Analyzed
    <3>2. \A e \in Documents \ {d} : Analyzed(e)' <=> Analyzed(e)
          BY <2>1 DEF Analyzed
    <3> QED
        BY <3>1, <3>2 DEF AllOf
  <2>3. RootMatches'
        BY <1>3, <2>1, <2>2 DEF SchemaInv, RootMatches
  <2>4. ASSUME NEW x \in Documents \X Nat PROVE Past(x)' <=> Past(x) \/ x = <<d, i>>
    <3>1. PICK e \in Documents, j \in Nat : x = <<e, j>>
          OBVIOUS
    <3>2. CASE e = d
          BY <1>3, <2>1, <3>1, <3>2 DEF Past
    <3>3. CASE e # d
          BY <2>1, <3>1, <3>3 DEF Past
    <3> QED
        BY <3>2, <3>3
  <2>5. ~Past(<<d, i>>) /\ <<d, i>> \in Documents \X Nat
        BY <1>3, <2>1 DEF Past
  <2>6. ASSUME NEW S, n \in S PROVE <<d, i>> \notin Seen(S) /\ Seen(S)' = Seen(S) \cup {<<d, i>>}
        BY <1>2, <2>4, <2>5, <2>6 DEF Seen
  <2>7. ASSUME NEW S, n \notin S PROVE Seen(S)' = Seen(S)
        BY <1>2, <2>4, <2>7 DEF Seen
  <2>8. ASSUME NEW m \in Nodes PROVE NodesMatch(m)'
    <3>1. CASE m # n
          BY <2>1, <2>7, <3>1 DEF SchemaInv, NodesMatch
    <3>2. CASE m = n
      <4>1. PICK S : S = Seen({n})
            OBVIOUS
      <4>2. IsFiniteSet(S) /\ counts[n] = Cardinality(S)
            BY <1>3, <4>1 DEF SchemaInv, NodesMatch
      <4>3. /\ IsFiniteSet(S \cup {<<d, i>>})
            /\ Cardinality(S \cup {<<d, i>>}) =
                 IF <<d, i>> \in S THEN Cardinality(S) ELSE Cardinality(S) + 1
            BY <4>2, FS_AddElement
      <4>4. <<d, i>> \notin S /\ Seen({n})' = S \cup {<<d, i>>}
            BY <2>6, <4>1
      <4> QED
          BY <2>1, <3>2, <4>2, <4>3, <4>4 DEF NodesMatch
    <3> QED
        BY <3>1, <3>2
  <2>9. ASSUME NEW f \in Fields PROVE TypesMatch(f)'
    <3>1. CASE n \notin ChildrenOf(f)
      <4>1. \A t \in ChildrenOf(f) : counts'[t] = counts[t]
            BY <2>1, <3>1 DEF ChildrenOf
      <4>2. CountedTypes(counts, f)' = CountedTypes(counts, f)
            BY <4>1 DEF CountedTypes
      <4> QED
          BY <2>7, <3>1, <4>2 DEF SchemaInv, TypesMatch
    <3>2. CASE n \in ChildrenOf(f)
      <4>1. PICK S : S = Seen(ChildrenOf(f))
            OBVIOUS
      <4>2. PICK T : T = CountedTypes(counts, f)
            OBVIOUS
      <4>3. PICK c \in Nat : c = counts[n]
            BY <2>1
      <4>4. IsFiniteSet(S) /\ IsFiniteSet(T) /\ Cardinality(T) = Cardinality(S)
            BY <4>1, <4>2 DEF SchemaInv, TypesMatch
      <4>5. <<d, i>> \notin S /\ Seen(ChildrenOf(f))' = S \cup {<<d, i>>}
            BY <2>6, <3>2, <4>1 DEF ChildrenOf
      <4>6. <<n, c + 1>> \notin T /\ CountedTypes(counts, f)' = T \cup {<<n, c + 1>>}
        <5>1. T = {x \in ChildrenOf(f) \X Nat : x[2] \in 1..counts[x[1]]}
              BY <4>2 DEF CountedTypes
        <5>2. CountedTypes(counts, f)' = {x \in ChildrenOf(f) \X Nat : x[2] \in 1..counts'[x[1]]}
              BY DEF CountedTypes, ChildrenOf
        <5>3. \A x \in ChildrenOf(f) \X Nat : x[1] # n => counts'[x[1]] = counts[x[1]]
              BY <2>1 DEF ChildrenOf
        <5>4. ASSUME NEW x \in ChildrenOf(f) \X Nat
              PROVE  x[2] \in 1..counts'[x[1]] <=> x[2] \in 1..counts[x[1]] \/ x = <<n, c + 1>>
          <6>1. CASE x[1] = n
                BY <2>1, <4>3, <6>1
          <6>2. CASE x[1] # n
                BY <5>3, <6>2
          <6> QED
              BY <6>1, <6>2
        <5>5. <<n, c + 1>> \in ChildrenOf(f) \X Nat
              BY <3>2, <4>3
        <5>6. <<n, c + 1>> \notin T
              BY <4>3, <5>1
        <5> QED
            BY <5>1, <5>2, <5>4, <5>5, <5>6
      <4>7. /\ IsFiniteSet(S \cup {<<d, i>>})
            /\ Cardinality(S \cup {<<d, i>>}) =
                 IF <<d, i>> \in S THEN Cardinality(S) ELSE Cardinality(S) + 1
            BY <4>4, FS_AddElement
      <4>8. /\ IsFiniteSet(T \cup {<<n, c + 1>>})
            /\ Cardinality(T \cup {<<n, c + 1>>}) =
                 IF <<n, c + 1>> \in T THEN Cardinality(T) ELSE Cardinality(T) + 1
            BY <4>4, FS_AddElement
      <4> QED
          BY <4>4, <4>5, <4>6, <4>7, <4>8 DEF TypesMatch
    <3> QED
        BY <3>1, <3>2
  <2> QED
      BY <1>5, <1>6, <1>7, <2>3, <2>8, <2>9 DEF SchemaInv
<1> QED
    BY <1>8, <1>9

LEMMA SchemaInvHolds == SchemaSpec => []SchemaInv
<1>1. SchemaInv /\ [SchemaNext]_schemaVars => SchemaInv'
  <2> SUFFICES ASSUME SchemaInv, [SchemaNext]_schemaVars PROVE SchemaInv'
      OBVIOUS
  <2>1. CASE UNCHANGED schemaVars
    <3>1. /\ \A n \in Nodes : NodesMatch(n)'
          /\ \A f \in Fields : TypesMatch(f)'
          /\ RootMatches'
          BY <2>1, NothingSeen DEF Analyzed, schemaVars
    <3>2. Underway' = Underway
          BY <2>1 DEF Underway, Analyzed, schemaVars
    <3> QED
        BY <2>1, <3>1, <3>2 DEF SchemaInv, SchemaTypeOK, schemaVars
  <2>2. CASE SchemaNext
        BY <2>2, AnalyzeDocKeeps, AbortAnalysisKeeps, VisitKeeps, FinishDocKeeps, GetResultKeeps
        DEF SchemaNext
  <2> QED
      BY <2>1, <2>2
<1> QED
    BY <1>1, SchemaInvInit, PTL DEF SchemaSpec

-----------------------------------------------------------------------------
(* When no document is under way and none was broken off, each was walked to  *)
(* its end or not at all.                                                    *)
Settled == Underway = {} /\ broken = {}

LEMMA WalkedOrNot ==
  ASSUME SchemaInv, Settled, NEW d \in Documents
  PROVE  /\ doc[d] \in Nat
         /\ \A i, j \in DOMAIN Visits[d] : i < doc[d] => j < doc[d] /\ Analyzed(d)
<1>1. doc[d] \in Nat /\ (doc[d] = 0 \/ Analyzed(d))
      BY DEF SchemaInv, SchemaTypeOK, Settled, Underway
<1>2. Len(Visits[d]) \in Nat /\ DOMAIN Visits[d] = 1..Len(Visits[d])
      BY VisitsOf
<1> QED
    BY <1>1, <1>2 DEF Analyzed

(* Every visit of a field is followed by one of its types.                   *)
LEMMA TypesFollow ==
  ASSUME SchemaInv, Settled, NEW f \in Fields
  PROVE  Cardinality(Seen(ChildrenOf(f))) = Cardinality(Seen({f}))
<1>1. PICK S : S = Seen({f})
      OBVIOUS
<1>2. PICK T : T = Seen(ChildrenOf(f))
      OBVIOUS
<1>3. ASSUME NEW d \in Documents, NEW i \in Nat
      PROVE  <<d, i>> \in S <=> <<d, i + 1>> \in T
  <2>1. i + 1 \in Nat /\ <<d, i>> \in Documents \X Nat /\ <<d, i + 1>> \in Documents \X Nat
        BY <1>3
  <2>2. IsWalk(Visits[d])
        BY SchemaAssumption
  <2>3. ASSUME <<d, i>> \in S PROVE <<d, i + 1>> \in T
    <3>1. i \in DOMAIN Visits[d] /\ i < doc[d] /\ Visits[d][i] = f
          BY <1>1, <2>3 DEF Seen, Past
    <3>2. i + 1 \in DOMAIN Visits[d] /\ Parent[Visits[d][i + 1]] = f /\ Visits[d][i + 1] \in Nodes
          BY <2>2, <3>1, VisitsOf DEF IsWalk
    <3>3. i + 1 < doc[d]
          BY <3>1, <3>2, WalkedOrNot
    <3> QED
        BY <1>2, <2>1, <3>2, <3>3 DEF Seen, Past, ChildrenOf
  <2>4. ASSUME <<d, i + 1>> \in T PROVE <<d, i>> \in S
    <3>1. i + 1 \in DOMAIN Visits[d] /\ i + 1 < doc[d] /\ Parent[Visits[d][i + 1]] = f
          BY <1>2, <2>4 DEF Seen, Past, ChildrenOf
    <3>2. i + 1 > 1 /\ Visits[d][(i + 1) - 1] = f
          BY <2>2, <3>1 DEF IsWalk
    <3>3. (i + 1) - 1 = i /\ i \in DOMAIN Visits[d]
          BY <3>1, <3>2, VisitsOf
    <3>4. i < doc[d]
          BY <3>1, <3>3, WalkedOrNot
    <3> QED
        BY <1>1, <2>1, <3>2, <3>3, <3>4 DEF Seen, Past
  <2> QED
      BY <2>3, <2>4
<1>4. DEFINE next == [x \in S |-> <<x[1], x[2] + 1>>]
<1>5. S \subseteq Documents \X Nat /\ T \subseteq Documents \X Nat
      BY <1>1, <1>2 DEF Seen
<1>6. next \in Injection(S, T)
  <2>1. ASSUME NEW x \in S PROVE next[x] \in T
        BY <1>3, <1>5
  <2>2. ASSUME NEW x \in S, NEW y \in S, next[x] = next[y] PROVE x = y
        BY <1>5, <2>2
  <2> QED
      BY <2>1, <2>2 DEF Injection, IsInjective
<1>7. ASSUME NEW t \in T PROVE \E x \in S : next[x] = t
  <2>1. PICK d \in Documents, j \in Nat : t = <<d, j>>
        BY <1>5
  <2>2. j \in DOMAIN Visits[d]
        BY <1>2, <2>1 DEF Seen, Past
  <2>3. j - 1 \in Nat /\ (j - 1) + 1 = j
        BY <2>1, <2>2, VisitsOf
  <2>4. <<d, j - 1>> \in S
        BY <1>3, <2>1, <2>3
  <2> QED
      BY <2>1, <2>3, <2>4
<1>8. ExistsBijection(S, T)
      BY <1>6, <1>7 DEF ExistsBijection, Bijection, Surjection, Injection
<1>9. IsFiniteSet(S)
      BY <1>1 DEF SchemaInv, NodesMatch, Nodes
<1> QED
    BY <1>1, <1>2, <1>8, <1>9, FS_Bijection

(* Every visit of a field has a visit of its parent of its own, or a document. *)
LEMMA ParentsCover ==
  ASSUME SchemaInv, Settled, NEW f \in Fields
  PROVE  counts[f] <= counts[Parent[f]]
<1>1. PICK S : S = Seen({f})
      OBVIOUS
<1>2. IsFiniteSet(S) /\ counts[f] = Cardinality(S) /\ S \subseteq Documents \X Nat
      BY <1>1 DEF SchemaInv, NodesMatch, Nodes, Seen
<1>3. \A x \in S : /\ x[1] \in Documents /\ x[2] \in DOMAIN Visits[x[1]] /\ x[2] < doc[x[1]]
                   /\ Visits[x[1]][x[2]] = f /\ x = <<x[1], x[2]>> /\ x[2] \in Nat
      BY <1>1 DEF Seen, Past
<1>4. \A d \in Documents : IsWalk(Visits[d])
      BY SchemaAssumption
<1>5. CASE Parent[f] = Root
  <2>1. PICK T : T = AllOf
        OBVIOUS
  <2>2. IsFiniteSet(T) /\ counts[Root] = Cardinality(T)
        BY <2>1 DEF SchemaInv, RootMatches
  <2> DEFINE of == [x \in S |-> x[1]]
  <2>3. ASSUME NEW x \in S PROVE of[x] \in T
        BY <1>3, <2>1, WalkedOrNot DEF AllOf
  <2>4. ASSUME NEW x \in S, NEW y \in S, of[x] = of[y] PROVE x = y
    <3>1. x[1] = y[1]
          BY <2>4
    <3>2. x[2] = y[2]
          BY <1>3, <1>4, <1>5, <3>1 DEF IsWalk
    <3> QED
        BY <1>3, <3>1, <3>2
  <2>5. of \in Injection(S, T)
        BY <2>3, <2>4 DEF Injection, IsInjective
  <2> HIDE DEF of
  <2> QED
      BY <1>2, <1>5, <2>2, <2>5, FS_Injection
<1>6. CASE Parent[f] # Root
  <2>1. PICK T : T = Seen({Parent[f]})
        OBVIOUS
  <2>2. IsFiniteSet(T) /\ counts[Parent[f]] = Cardinality(T)
    <3>1. Parent[f] \in Nodes
          BY <1>6, SchemaAssumption DEF Nodes
    <3> QED
        BY <2>1, <3>1 DEF SchemaInv, NodesMatch
  <2> DEFINE IsOver(x, k) == /\ k \in 1..x[2] - 1 /\ Visits[x[1]][k] = Parent[f]
                             /\ \A j \in k + 1..x[2] - 1 : Visits[x[1]][j] # f
             over == [x \in S |-> <<x[1], CHOOSE k \in Nat : IsOver(x, k)>>]
  <2>3. ASSUME NEW x \in S PROVE \E k \in Nat : IsOver(x, k)
    <3>1. x[1] \in Documents /\ x[2] \in DOMAIN Visits[x[1]] /\ Visits[x[1]][x[2]] = f /\ x[2] \in Nat
          BY <1>3
    <3>2. PICK k \in 1..x[2] - 1 : /\ Visits[x[1]][k] = Parent[f]
                                   /\ \A j \in k + 1..x[2] - 1 : Visits[x[1]][j] # f
          BY <1>4, <1>6, <3>1 DEF IsWalk
    <3> QED
        BY <3>1, <3>2
  <2>4. ASSUME NEW x \in S
        PROVE  over[x] = <<x[1], over[x][2]>> /\ over[x][2] \in Nat /\ IsOver(x, over[x][2])
        BY <2>3
  <2> HIDE DEF over
  <2>5. ASSUME NEW x \in S PROVE over[x] \in T
    <3>1. PICK k \in Nat : over[x] = <<x[1], k>> /\ IsOver(x, k)
          BY <2>4
    <3>2. x[1] \in Documents /\ x[2] \in DOMAIN Visits[x[1]] /\ x[2] < doc[x[1]] /\ x[2] \in Nat
          BY <1>3
    <3>3. k \in DOMAIN Visits[x[1]]
          BY <3>1, <3>2, VisitsOf
    <3>4. k < doc[x[1]]
          BY <3>2, <3>3, WalkedOrNot
    <3> QED
        BY <2>1, <3>1, <3>2, <3>3, <3>4 DEF Seen, Past
  <2>6. ASSUME NEW x \in S, NEW y \in S, over[x] = over[y] PROVE x = y
    <3>1. PICK k \in Nat : over[x] = <<x[1], k>> /\ IsOver(x, k)
          BY <2>4
    <3>2. PICK m \in Nat : over[y] = <<y[1], m>> /\ IsOver(y, m)
          BY <2>4
    <3> HIDE DEF IsOver
    <3>8. PICK p : p = over[x]
          OBVIOUS
    <3>9. p = <<x[1], k>> /\ p = <<y[1], m>>
          BY <2>6, <3>1, <3>2, <3>8
    <3>10. p[1] = x[1] /\ p[2] = k /\ p[1] = y[1] /\ p[2] = m
          BY <3>9
    <3>7. x[1] = y[1] /\ k = m
          BY <3>10
    <3>6. x[1] = y[1] /\ IsOver(y, k)
          BY <3>2, <3>7
    <3> USE DEF IsOver
    <3>3. x[2] \in Nat /\ y[2] \in Nat /\ Visits[x[1]][x[2]] = f /\ Visits[y[1]][y[2]] = f
          BY <1>3
    <3>4. ~(x[2] < y[2]) /\ ~(y[2] < x[2])
          BY <3>1, <3>6, <3>3
    <3>5. x[2] = y[2]
          BY <3>3, <3>4
    <3> QED
        BY <1>3, <3>6, <3>5
  <2>7. DOMAIN over = S /\ over = [x \in S |-> over[x]]
        BY DEF over
  <2>8. over \in Injection(S, T)
        BY <2>5, <2>6, <2>7 DEF Injection, IsInjective
  <2> QED
      BY <1>2, <2>2, <2>8, FS_Injection
<1> QED
    BY <1>5, <1>6

(* What getResult() returns is about all documents, unless it was called too  *)
(* early and none came after; and as long as no analysis was broken off, the  *)
(* limit on fields is kept, no field is counted more often than its parent,   *)
(* and its types are counted as often as it is (schema-analyzer.ts).          *)
THEOREM SchemaOfAll == SchemaSpec => []ResultIsTrue
<1>1. ASSUME SchemaInv PROVE ResultIsTrue
  <2>1. finalized /\ Underway = {} => schema = counts \/ premature
        BY <1>1 DEF SchemaInv
  <2>2. broken = {} => fieldsCount <= Limit
        BY <1>1, SchemaAssumption DEF SchemaInv, SchemaTypeOK
  <2>3. ASSUME broken = {}, finalized, ~premature, NEW f \in Fields
        PROVE  Undefined(schema, f) >= 0 /\ SumOfTypes(schema, f) = schema[f]
    <3>1. Settled /\ schema = counts
          BY <1>1, <2>3 DEF SchemaInv, Settled
    <3>2. counts[f] \in Nat /\ counts[Parent[f]] \in Nat
          BY <1>1, SchemaAssumption DEF SchemaInv, SchemaTypeOK, Nodes
    <3>3. counts[f] <= counts[Parent[f]]
          BY <1>1, <3>1, ParentsCover
    <3>4. Cardinality(CountedTypes(counts, f)) = counts[f]
          BY <1>1, <3>1, TypesFollow DEF SchemaInv, TypesMatch, NodesMatch, Nodes
    <3> QED
        BY <3>1, <3>2, <3>3, <3>4 DEF Undefined, SumOfTypes
  <2> QED
      BY <2>1, <2>2, <2>3 DEF ResultIsTrue
<1> QED
    BY <1>1, SchemaInvHolds, PTL
=============================================================================
