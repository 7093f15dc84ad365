--------------------------- MODULE Connect_proofs ---------------------------
(***************************************************************************)
(* What holds of connecting for every number of calls, servers and options:*)
(* failing early is justified, a failed attempt leaves nothing of its own  *)
(* behind, and a client that was returned has its agent and its tunnel.    *)
(*                                                                         *)
(* Neither of the last two is inductive.  What carries them is that until  *)
(* the main client is closed or the attempt fails nobody has touched the   *)
(* list of cleanups (Building, Serving), and that from then on whatever is *)
(* still up is on the list or in the hands of a runClose (Covered).        *)
(***************************************************************************)
EXTENDS DevtoolsConnect, FiniteSetTheorems, TLAPS

Unique(f) == \A i, j \in DOMAIN f : f[i][1] = f[j][1] => i = j

(* The map holds servers that are down, each once.                         *)
MapOK == \A a \in Attempts : /\ Unique(failed[a])
                             /\ FailedServers(failed[a]) \subseteq down[a]

(* Agent and tunnel of a are up, and nobody cleans up.                     *)
Intact(a) ==
  /\ todo[a] = CleanupsOf(a)
  /\ \A r \in Runners : runner[a][r] = "none"
  /\ OptionsFor(a).proxy = "options" => a \in agents

TunnelUp(a) == HasTunnel(a) => a \in tunnels

Untouched(a) ==
  pc[a] \in {"idle", "systemCA"} =>
    /\ todo[a] = <<>>
    /\ \A r \in Runners : runner[a][r] = "none"
    /\ \A k \in Roles : client[a][k] = "none"
    /\ a \notin agents
    /\ a \notin tunnels

Building(a) ==
  pc[a] \in {"listen", "preConnect", "buildInfo", "preClose", "preCloseThrow",
             "resolveSrv"} =>
    /\ client[a]["main"] = "none"
    /\ Intact(a)
    /\ IF pc[a] = "listen" THEN HasTunnel(a) ELSE TunnelUp(a)

Serving(a) ==
  /\ pc[a] \in {"connect", "returned"}
  /\ client[a]["main"] \in {"connecting", "open", "closing"}
  => Intact(a) /\ TunnelUp(a)

(* Where a client may be connecting or open.                               *)
ClientPlaces(a) ==
  /\ client[a]["main"] = "connecting" => pc[a] = "connect"
  /\ client[a]["main"] = "open" => pc[a] = "returned"

Has(list, item) == \E i \in DOMAIN list : list[i] = item

(* Some runClose will come to this cleanup, or came to one that rejected.  *)
Covered(a, item) ==
  \/ Has(todo[a], item)
  \/ \E r \in Runners : runner[a][r] = item
  \/ a \in broken

Owned(a) ==
  /\ a \in agents => OptionsFor(a).proxy = "options" /\ Covered(a, "agent")
  /\ a \in tunnels => Covered(a, "tunnel")

Ending(a) ==
  /\ runner[a]["catch"] # "none" <=> pc[a] = "catch"
  /\ pc[a] = "threw" => todo[a] = <<>> \/ a \in broken

Shape == \A a \in Attempts :
  Untouched(a) /\ Building(a) /\ Serving(a) /\ ClientPlaces(a) /\ Owned(a) /\ Ending(a)

IInv == TypeOK /\ MapOK /\ Shape

-----------------------------------------------------------------------------
(* What RemoveAt of the community module SequencesExt returns.             *)
LEMMA RemoveAtType ==
  ASSUME NEW S, NEW f \in Seq(S), NEW i \in 1..Len(f)
  PROVE  /\ RemoveAt(f, i) \in Seq(S)
         /\ Len(RemoveAt(f, i)) = Len(f) - 1
         /\ \A j \in 1..Len(f) - 1 :
              RemoveAt(f, i)[j] = IF j < i THEN f[j] ELSE f[j + 1]
<1> DEFINE l == SubSeq(f, 1, i - 1)
           r == SubSeq(f, i + 1, Len(f))
<1>1. l \in Seq(S) /\ Len(l) = i - 1 /\ \A j \in 1..i - 1 : l[j] = f[j]
  OBVIOUS
<1>2. r \in Seq(S) /\ Len(r) = Len(f) - i /\ \A j \in 1..Len(f) - i : r[j] = f[i + j]
  OBVIOUS
<1>3. RemoveAt(f, i) = l \o r
  BY DEF RemoveAt
<1> HIDE DEF l, r
<1>4. l \o r \in Seq(S) /\ Len(l \o r) = Len(f) - 1
  BY <1>1, <1>2
<1>5. \A j \in 1..Len(f) - 1 : (l \o r)[j] = IF j < i THEN f[j] ELSE f[j + 1]
  BY <1>1, <1>2
<1>6. QED
  BY <1>3, <1>4, <1>5

(* Deleting from the map removes the server and nothing else, and keeps    *)
(* the keys unique.                                                        *)
LEMMA DeleteKeeps ==
  ASSUME NEW f \in Seq(Servers \X Kinds), Unique(f), NEW s \in Servers
  PROVE  /\ DeleteFailed(f, s) \in Seq(Servers \X Kinds)
         /\ Unique(DeleteFailed(f, s))
         /\ FailedServers(DeleteFailed(f, s)) \subseteq FailedServers(f) \ {s}
<1>1. CASE s \notin FailedServers(f)
  BY <1>1 DEF DeleteFailed
<1>2. CASE s \in FailedServers(f)
  <2> DEFINE i == CHOOSE i \in DOMAIN f : f[i][1] = s
             g == RemoveAt(f, i)
  <2>1. i \in 1..Len(f) /\ f[i][1] = s
    BY <1>2 DEF FailedServers
  <2>2. g = DeleteFailed(f, s)
    BY <1>2 DEF DeleteFailed
  <2> HIDE DEF i
  <2>3. g \in Seq(Servers \X Kinds) /\ Len(g) = Len(f) - 1
    BY <2>1, RemoveAtType
  <2>4. \A j \in 1..Len(g) : g[j] = IF j < i THEN f[j] ELSE f[j + 1]
    BY <2>1, <2>3, RemoveAtType
  <2> HIDE DEF g
  <2> DEFINE p(j) == IF j < i THEN j ELSE j + 1
  <2>5. DOMAIN f = 1..Len(f) /\ DOMAIN g = 1..Len(g) /\ Len(f) \in Nat
    BY <2>3
  <2>6. \A j \in DOMAIN g : p(j) \in DOMAIN f \ {i} /\ g[j] = f[p(j)]
    BY <2>1, <2>3, <2>4, <2>5
  <2>7. \A j, k \in DOMAIN g : p(j) = p(k) => j = k
    BY <2>1, <2>5
  <2> HIDE DEF p
  <2>8. Unique(g)
    BY <2>6, <2>7 DEF Unique
  <2>9. FailedServers(g) \subseteq FailedServers(f) \ {s}
    BY <2>1, <2>5, <2>6 DEF FailedServers, Unique
  <2>10. QED
    BY <2>3, <2>8, <2>9, <2>2
<1>3. QED
  BY <1>1, <1>2

(* Setting an entry adds at most its server, and keeps the keys unique.    *)
LEMMA SetKeeps ==
  ASSUME NEW f \in Seq(Servers \X Kinds), Unique(f), NEW s \in Servers, NEW k \in Kinds
  PROVE  /\ SetFailed(f, s, k) \in Seq(Servers \X Kinds)
         /\ Unique(SetFailed(f, s, k))
         /\ FailedServers(SetFailed(f, s, k)) \subseteq FailedServers(f) \cup {s}
<1>1. CASE s \in FailedServers(f)
  <2> DEFINE g == [i \in DOMAIN f |-> IF f[i][1] = s THEN <<s, k>> ELSE f[i]]
  <2>1. g = SetFailed(f, s, k)
    BY <1>1 DEF SetFailed
  <2>2. DOMAIN g = DOMAIN f /\ \A i \in DOMAIN g : g[i][1] = f[i][1]
    OBVIOUS
  <2>3. g \in Seq(Servers \X Kinds)
    OBVIOUS
  <2> HIDE DEF g
  <2>4. Unique(g) /\ FailedServers(g) = FailedServers(f)
    BY <2>2 DEF Unique, FailedServers
  <2>5. QED
    BY <2>1, <2>3, <2>4
<1>2. CASE s \notin FailedServers(f)
  <2>1. SetFailed(f, s, k) = Append(f, <<s, k>>)
    BY <1>2 DEF SetFailed
  <2>2. \A i \in DOMAIN f : f[i][1] # s
    BY <1>2 DEF FailedServers
  <2>3. QED
    BY <2>1, <2>2 DEF FailedServers, Unique
<1>3. QED
  BY <1>1, <1>2

-----------------------------------------------------------------------------
(* Effects that several actions share.                                     *)

Lists == {<<>>, <<"agent">>, <<"tunnel">>, <<"agent", "tunnel">>}

(* Taking the first cleanup of a list.                                     *)
LEMMA HeadTail ==
  ASSUME NEW l \in Lists, l # <<>>
  PROVE  /\ Tail(l) \in Lists
         /\ Head(l) \in Items
         /\ \A item : Has(l, item) => Head(l) = item \/ Has(Tail(l), item)
<1>1. CASE l = <<"agent">>
  BY <1>1 DEF Lists, Items, Has
<1>2. CASE l = <<"tunnel">>
  BY <1>2 DEF Lists, Items, Has
<1>3. CASE l = <<"agent", "tunnel">>
  <2>1. Tail(l) = <<"tunnel">> /\ Head(l) = "agent"
    BY <1>3
  <2>2. QED
    BY <1>3, <2>1 DEF Lists, Items, Has
<1>4. QED
  BY <1>1, <1>2, <1>3 DEF Lists

(* What a runner takes from the list is in its hands.                      *)
LEMMA ShiftEffect ==
  ASSUME TypeOK, NEW a \in Attempts, NEW r \in Runners, Shift(a, r, todo[a])
  PROVE  /\ todo' \in [Attempts -> Lists]
         /\ runner' \in [Attempts -> [Runners -> Items \cup {"none"}]]
         /\ \A b \in Attempts \ {a} : todo'[b] = todo[b] /\ runner'[b] = runner[b]
         /\ \A q \in Runners \ {r} : runner'[a][q] = runner[a][q]
         /\ todo[a] = <<>> => todo'[a] = <<>> /\ runner'[a][r] = "none"
         /\ todo[a] # <<>> => runner'[a][r] # "none"
         /\ \A item : Has(todo[a], item) => Has(todo'[a], item) \/ runner'[a][r] = item
<1>1. todo[a] \in Lists /\ todo \in [Attempts -> Lists]
  BY DEF TypeOK, Lists
<1>2. CASE todo[a] = <<>>
  BY <1>1, <1>2 DEF Shift, TypeOK, Lists, Has
<1>3. CASE todo[a] # <<>>
  <2>1. /\ Tail(todo[a]) \in Lists
        /\ Head(todo[a]) \in Items
        /\ \A item : Has(todo[a], item) =>
             Head(todo[a]) = item \/ Has(Tail(todo[a]), item)
    BY <1>1, <1>3, HeadTail
  <2>2. /\ todo' = [todo EXCEPT ![a] = Tail(todo[a])]
        /\ runner' = [runner EXCEPT ![a][r] = Head(todo[a])]
    BY <1>3 DEF Shift
  <2>3. todo'[a] = Tail(todo[a]) /\ runner'[a][r] = Head(todo[a])
    BY <1>1, <2>2 DEF TypeOK
  <2>4. Head(todo[a]) # "none"
    BY <2>1 DEF Items
  <2>5. QED
    BY <1>1, <1>3, <2>1, <2>2, <2>3, <2>4 DEF TypeOK
<1>4. QED
  BY <1>2, <1>3

(* What the invariant says of an attempt that a step leaves alone.         *)
LEMMA OthersKeep ==
  ASSUME IInv, NEW b \in Attempts, opt' = opt, pc'[b] = pc[b],
         todo'[b] = todo[b], runner'[b] = runner[b], client'[b] = client[b],
         b \in agents' <=> b \in agents, b \in tunnels' <=> b \in tunnels,
         broken \subseteq broken'
  PROVE  /\ Untouched(b)' /\ Building(b)' /\ Serving(b)'
         /\ ClientPlaces(b)' /\ Owned(b)' /\ Ending(b)'
BY DEF IInv, Shape, Untouched, Building, Serving, ClientPlaces, Owned, Ending,
   Intact, TunnelUp, Covered, OptionsFor, HasTunnel, HasAgent, AgentOf,
   CleanupsOf

(* An attempt that fails: the catch block takes over its cleanups.         *)
LEMMA CatchEffect ==
  ASSUME IInv, NEW a \in Attempts, NEW e \in {"tls", "other"}, Catch(a, e),
         pc[a] \notin {"idle", "catch", "threw", "returned"},
         opt' = opt, client' \in [Attempts -> [Roles -> ClientStates]],
         \A b \in Attempts \ {a} : client'[b] = client[b],
         client'[a]["main"] \notin {"connecting", "open"}
  PROVE  /\ pc' \in [Attempts -> PCs]
         /\ err' \in [Attempts -> {"none", "tls", "other"}]
         /\ todo' \in [Attempts -> Lists]
         /\ runner' \in [Attempts -> [Runners -> Items \cup {"none"}]]
         /\ UNCHANGED <<agents, tunnels, broken>>
         /\ Shape'
<1>1. Shift(a, "catch", todo[a])
  BY DEF Catch
<1>2. "catch" \in Runners
  BY DEF Runners
<1>3. /\ todo' \in [Attempts -> Lists]
      /\ runner' \in [Attempts -> [Runners -> Items \cup {"none"}]]
      /\ \A b \in Attempts \ {a} : todo'[b] = todo[b] /\ runner'[b] = runner[b]
      /\ \A q \in Runners \ {"catch"} : runner'[a][q] = runner[a][q]
      /\ todo[a] = <<>> => todo'[a] = <<>> /\ runner'[a]["catch"] = "none"
      /\ todo[a] # <<>> => runner'[a]["catch"] # "none"
      /\ \A item : Has(todo[a], item) => Has(todo'[a], item) \/ runner'[a]["catch"] = item
  BY <1>1, <1>2, ShiftEffect DEF IInv
<1>4. /\ pc' \in [Attempts -> PCs]
      /\ err' \in [Attempts -> {"none", "tls", "other"}]
      /\ UNCHANGED <<agents, tunnels, broken>>
      /\ pc'[a] = IF todo[a] = <<>> THEN "threw" ELSE "catch"
      /\ \A b \in Attempts \ {a} : pc'[b] = pc[b]
  BY DEF Catch, IInv, TypeOK, PCs
<1>5. \A b \in Attempts \ {a} :
        /\ Untouched(b)' /\ Building(b)' /\ Serving(b)'
        /\ ClientPlaces(b)' /\ Owned(b)' /\ Ending(b)'
  BY <1>3, <1>4, OthersKeep
<1>6. Untouched(a)' /\ Building(a)' /\ Serving(a)' /\ ClientPlaces(a)'
  BY <1>3, <1>4 DEF Untouched, Building, Serving, ClientPlaces
<1>7. runner[a]["catch"] = "none"
  BY DEF IInv, Shape, Ending
<1>8. Owned(a)'
  BY <1>3, <1>4, <1>7 DEF IInv, Shape, Owned, Covered, OptionsFor, Runners
<1>9. Ending(a)'
  BY <1>3, <1>4 DEF Ending
<1>10. QED
  BY <1>3, <1>4, <1>5, <1>6, <1>8, <1>9 DEF Shape

(* A client starts to connect with an empty map.                           *)
LEMMA StartConnectEffect ==
  ASSUME IInv, NEW a \in Attempts, NEW k \in Roles, StartConnect(a, k)
  PROVE  /\ known' \in [Attempts -> SUBSET Servers]
         /\ failed' \in [Attempts -> Seq(Servers \X Kinds)]
         /\ early' \in [Attempts -> BOOLEAN]
         /\ down' \in [Attempts -> SUBSET Servers]
         /\ MapOK'
         /\ pc' = [pc EXCEPT ![a] = IF k = "pre" THEN "preConnect" ELSE "connect"]
         /\ client' = [client EXCEPT ![a][k] = "connecting"]
<1>1. \A s \in Topologies(a) : s \in SUBSET Servers
  BY ServersAssumption DEF Topologies, Attempts
<1>2. failed' = [failed EXCEPT ![a] = <<>>] /\ down' = [down EXCEPT ![a] = {}]
  BY DEF StartConnect
<1>3. MapOK'
  <2>1. Unique(<<>>) /\ FailedServers(<<>>) = {}
    BY DEF Unique, FailedServers
  <2>2. QED
    BY <1>2, <2>1 DEF MapOK, IInv, TypeOK
<1>4. QED
  BY <1>1, <1>2, <1>3 DEF StartConnect, IInv, TypeOK

(* An attempt whose cleanups are listed and whose main client is not made. *)
LEMMA ReadyParts ==
  ASSUME NEW a \in Attempts,
         UNCHANGED <<opt, runner>>, \A r \in Runners : runner[a][r] = "none",
         pc'[a] \in {"listen", "preConnect", "resolveSrv"},
         client'[a]["main"] = "none", todo'[a] = CleanupsOf(a),
         a \in agents' <=> OptionsFor(a).proxy = "options",
         IF pc'[a] = "listen" THEN HasTunnel(a) /\ a \notin tunnels'
                              ELSE a \in tunnels' <=> HasTunnel(a)
  PROVE  /\ Untouched(a)' /\ Building(a)' /\ Serving(a)'
         /\ ClientPlaces(a)' /\ Owned(a)' /\ Ending(a)'
<1>1. /\ CleanupsOf(a)' = CleanupsOf(a) /\ HasTunnel(a)' = HasTunnel(a)
      /\ OptionsFor(a)' = OptionsFor(a)
  BY DEF CleanupsOf, HasTunnel, HasAgent, OptionsFor
<1>2. Building(a)'
  BY <1>1 DEF Building, Intact, TunnelUp
<1>3. Untouched(a)' /\ Serving(a)' /\ ClientPlaces(a)'
  BY DEF Untouched, Serving, ClientPlaces
<1>4. Has(CleanupsOf(a), "agent") /\ (HasTunnel(a) => Has(CleanupsOf(a), "tunnel"))
  <2>1. Has(<<"agent">>, "agent") /\ Has(<<"agent", "tunnel">>, "agent")
        /\ Has(<<"agent", "tunnel">>, "tunnel")
    BY DEF Has
  <2>2. QED
    BY <2>1 DEF CleanupsOf
<1>5. Has(todo[a], "agent")' /\ (HasTunnel(a) => Has(todo[a], "tunnel")')
  BY <1>4
<1>6. Owned(a)'
  BY <1>1, <1>5 DEF Owned, Covered
<1>7. "catch" \in Runners
  BY DEF Runners
<1>8. Ending(a)'
  BY <1>7 DEF Ending
<1>9. QED
  BY <1>2, <1>3, <1>6, <1>8

(* Agent and tunnel are set up and the clients are turned to.              *)
LEMMA ContinueKeeps ==
  ASSUME IInv, NEW a \in Attempts, Continue(a),
         pc[a] \in {"idle", "systemCA", "listen"},
         UNCHANGED <<opt, err, runner, broken>>,
         todo' \in [Attempts -> Lists], agents' \in SUBSET Agents,
         tunnels' \in SUBSET Attempts,
         \A b \in Attempts \ {a} : /\ todo'[b] = todo[b]
                                   /\ b \in agents' <=> b \in agents
                                   /\ b \in tunnels' <=> b \in tunnels,
         todo'[a] = CleanupsOf(a),
         a \in agents' <=> OptionsFor(a).proxy = "options",
         a \in tunnels' <=> HasTunnel(a)
  PROVE  IInv'
<1>0. \A r \in Runners : runner[a][r] = "none"
  BY DEF IInv, Shape, Untouched, Building, Intact
<1>1. CASE OptionsFor(a).fle
  <2>1. StartConnect(a, "pre") /\ "pre" \in Roles
    BY <1>1 DEF Continue, Roles
  <2>2. /\ known' \in [Attempts -> SUBSET Servers]
        /\ failed' \in [Attempts -> Seq(Servers \X Kinds)]
        /\ early' \in [Attempts -> BOOLEAN]
        /\ down' \in [Attempts -> SUBSET Servers]
        /\ MapOK'
        /\ pc' = [pc EXCEPT ![a] = "preConnect"]
        /\ client' = [client EXCEPT ![a]["pre"] = "connecting"]
    BY <2>1, StartConnectEffect
  <2>3. TypeOK'
    BY <2>2 DEF IInv, TypeOK, PCs, ClientStates, Items, Roles, Runners, Agents,
       Lists
  <2>4. pc'[a] = "preConnect" /\ client'[a]["main"] = "none" /\ client[a]["main"] = "none"
    BY <2>2 DEF IInv, TypeOK, Shape, Untouched, Building, Roles, heartbeatVars
  <2>5. \A b \in Attempts \ {a} : pc'[b] = pc[b] /\ client'[b] = client[b]
    BY <2>2 DEF IInv, TypeOK
  <2>6. \A b \in Attempts \ {a} :
          /\ Untouched(b)' /\ Building(b)' /\ Serving(b)'
          /\ ClientPlaces(b)' /\ Owned(b)' /\ Ending(b)'
    BY <2>5, OthersKeep
  <2>7. /\ Untouched(a)' /\ Building(a)' /\ Serving(a)'
        /\ ClientPlaces(a)' /\ Owned(a)' /\ Ending(a)'
    BY <1>0, <2>4, ReadyParts
  <2>8. Shape'
    BY <2>6, <2>7 DEF Shape
  <2>9. QED
    BY <2>2, <2>3, <2>8 DEF IInv
<1>2. CASE ~OptionsFor(a).fle
  <2>1. pc' = [pc EXCEPT ![a] = "resolveSrv"] /\ UNCHANGED <<client, heartbeatVars>>
    BY <1>2 DEF Continue
  <2>2. TypeOK' /\ MapOK'
    BY <2>1 DEF IInv, MapOK, heartbeatVars, TypeOK, PCs, ClientStates, Items,
       Roles, Runners, Agents, Lists
  <2>3. pc'[a] = "resolveSrv" /\ client'[a]["main"] = "none" /\ client[a]["main"] = "none"
    BY <2>1 DEF IInv, TypeOK, Shape, Untouched, Building, Roles, heartbeatVars
  <2>4. \A b \in Attempts \ {a} : pc'[b] = pc[b] /\ client'[b] = client[b]
    BY <2>1 DEF IInv, TypeOK
  <2>5. \A b \in Attempts \ {a} :
          /\ Untouched(b)' /\ Building(b)' /\ Serving(b)'
          /\ ClientPlaces(b)' /\ Owned(b)' /\ Ending(b)'
    BY <2>4, OthersKeep
  <2>6. /\ Untouched(a)' /\ Building(a)' /\ Serving(a)'
        /\ ClientPlaces(a)' /\ Owned(a)' /\ Ending(a)'
    BY <1>0, <2>3, ReadyParts
  <2>7. Shape'
    BY <2>5, <2>6 DEF Shape
  <2>8. QED
    BY <2>1, <2>2, <2>7 DEF IInv
<1>3. QED
  BY <1>1, <1>2

(* An attempt gets its agent and what it will clean up.                    *)
LEMMA PrepareKeeps ==
  ASSUME IInv, NEW a \in Attempts, Prepare(a), pc[a] \in {"idle", "systemCA"},
         UNCHANGED <<opt, err, runner, tunnels, broken>>
  PROVE  IInv'
<1>1. /\ todo' = [todo EXCEPT ![a] = CleanupsOf(a)]
      /\ agents' = IF OptionsFor(a).proxy = "options" THEN agents \cup {a} ELSE agents
      /\ a \notin agents /\ a \notin tunnels
  BY DEF Prepare, IInv, Shape, Untouched
<1>2. CleanupsOf(a) \in Lists
  BY DEF CleanupsOf, Lists
<1>3. /\ todo' \in [Attempts -> Lists] /\ agents' \in SUBSET Agents
      /\ todo'[a] = CleanupsOf(a)
      /\ \A b \in Attempts \ {a} : todo'[b] = todo[b] /\ (b \in agents' <=> b \in agents)
      /\ a \in agents' <=> OptionsFor(a).proxy = "options"
  BY <1>1, <1>2 DEF IInv, TypeOK, Lists, Agents
<1>4. CASE HasTunnel(a)
  <2>1. pc' = [pc EXCEPT ![a] = "listen"] /\ UNCHANGED <<client, heartbeatVars>>
    BY <1>4 DEF Prepare
  <2>2. TypeOK' /\ MapOK'
    BY <1>3, <2>1 DEF IInv, MapOK, heartbeatVars, TypeOK, PCs, ClientStates,
       Items, Roles, Runners, Agents, Lists
  <2>3. pc'[a] = "listen" /\ client'[a]["main"] = "none"
    BY <2>1 DEF IInv, TypeOK, Shape, Untouched, Roles
  <2>4. \A b \in Attempts \ {a} : pc'[b] = pc[b] /\ client'[b] = client[b]
    BY <2>1 DEF IInv, TypeOK
  <2>5. \A b \in Attempts \ {a} :
          /\ Untouched(b)' /\ Building(b)' /\ Serving(b)'
          /\ ClientPlaces(b)' /\ Owned(b)' /\ Ending(b)'
    BY <1>3, <2>4, OthersKeep
  <2>6. (\A r \in Runners : runner[a][r] = "none") /\ a \notin tunnels'
    BY <1>1 DEF IInv, Shape, Untouched
  <2>8. /\ Untouched(a)' /\ Building(a)' /\ Serving(a)'
        /\ ClientPlaces(a)' /\ Owned(a)' /\ Ending(a)'
    BY <1>3, <1>4, <2>3, <2>6, ReadyParts
  <2>9. QED
    BY <2>2, <2>5, <2>8 DEF IInv, Shape
<1>5. CASE ~HasTunnel(a)
  <2>1. Continue(a)
    BY <1>5 DEF Prepare
  <2>2. QED
    BY <1>1, <1>3, <1>5, <2>1, ContinueKeeps DEF IInv, TypeOK
<1>6. QED
  BY <1>4, <1>5

-----------------------------------------------------------------------------
(* The invariant holds at first and every action keeps it.                 *)
LEMMA InitInv == Init => IInv
<1> SUFFICES ASSUME Init PROVE IInv
  OBVIOUS
<1>1. TypeOK
  BY SharedAgentAssumption DEF Init, TypeOK, PCs, ClientStates, Items, Roles,
     Runners, Agents
<1>2. MapOK
  BY DEF Init, MapOK, Unique, FailedServers
<1>3. Shape
  BY SharedAgentAssumption DEF Init, Shape, Untouched, Building, Serving,
     ClientPlaces, Owned, Ending, Intact, TunnelUp, Covered, Roles, Runners
<1>4. QED
  BY <1>1, <1>2, <1>3 DEF IInv

LEMMA BeginKeeps ==
  ASSUME IInv, NEW a \in Attempts, Begin(a)
  PROVE  IInv'
<1>1. pc[a] = "idle" /\ UNCHANGED <<opt, err, runner, tunnels, broken>>
  BY DEF Begin
<1>2. CASE UsesSystemCA(a)
  <2>1. /\ pc' = [pc EXCEPT ![a] = "systemCA"]
        /\ UNCHANGED <<agents, todo, client, heartbeatVars>>
    BY <1>2 DEF Begin
  <2>2. TypeOK' /\ MapOK'
    BY <1>1, <2>1 DEF IInv, MapOK, heartbeatVars, TypeOK, PCs, ClientStates,
       Items, Roles, Runners, Agents
  <2>3. Shape'
    BY <1>1, <2>1 DEF IInv, TypeOK, PCs, ClientStates, Items, Roles, Runners,
       Agents, Shape, Untouched, Building, Serving, ClientPlaces, Owned,
       Ending, Intact, TunnelUp, Covered, OptionsFor, HasTunnel, HasAgent,
       AgentOf, CleanupsOf
  <2>4. QED
    BY <2>2, <2>3 DEF IInv
<1>3. CASE ~UsesSystemCA(a)
  <2>1. Prepare(a)
    BY <1>3 DEF Begin
  <2>2. QED
    BY <1>1, <2>1, PrepareKeeps
<1>4. QED
  BY <1>2, <1>3

LEMMA SystemCAReadKeeps ==
  ASSUME IInv, NEW a \in Attempts, SystemCARead(a)
  PROVE  IInv'
BY PrepareKeeps DEF SystemCARead

LEMMA SystemCAFailsKeeps ==
  ASSUME IInv, NEW a \in Attempts, SystemCAFails(a)
  PROVE  IInv'
<1>1. /\ Catch(a, "other") /\ opt' = opt
      /\ UNCHANGED heartbeatVars
      /\ pc[a] \notin {"idle", "catch", "threw", "returned"}
  BY DEF SystemCAFails
<1>2. /\ client' \in [Attempts -> [Roles -> ClientStates]]
      /\ \A b \in Attempts \ {a} : client'[b] = client[b]
      /\ client'[a]["main"] \notin {"connecting", "open"}
  BY DEF SystemCAFails, IInv, TypeOK, Shape, Building, Untouched, ClientPlaces,
     Roles, ClientStates
<1>3. /\ pc' \in [Attempts -> PCs]
      /\ err' \in [Attempts -> {"none", "tls", "other"}]
      /\ todo' \in [Attempts -> Lists]
      /\ runner' \in [Attempts -> [Runners -> Items \cup {"none"}]]
      /\ UNCHANGED <<agents, tunnels, broken>>
      /\ Shape'
  BY <1>1, <1>2, CatchEffect
<1>4. TypeOK'
  BY <1>1, <1>2, <1>3 DEF heartbeatVars, IInv, TypeOK, Lists
<1>5. MapOK'
  BY <1>1 DEF heartbeatVars, IInv, TypeOK, MapOK
<1>6. QED
  BY <1>3, <1>4, <1>5 DEF IInv

LEMMA ListeningKeeps ==
  ASSUME IInv, NEW a \in Attempts, Listening(a)
  PROVE  IInv'
<1>1. /\ pc[a] = "listen" /\ Continue(a)
      /\ UNCHANGED <<opt, err, todo, runner, agents, broken>>
      /\ tunnels' = tunnels \cup {a}
  BY DEF Listening
<1>2. /\ todo[a] = CleanupsOf(a) /\ HasTunnel(a)
      /\ a \in agents <=> OptionsFor(a).proxy = "options"
  BY <1>1 DEF IInv, Shape, Building, Intact, Owned
<1>3. /\ todo' \in [Attempts -> Lists]
      /\ agents' \in SUBSET Agents /\ tunnels' \in SUBSET Attempts
  BY <1>1 DEF IInv, TypeOK, Lists
<1>4. QED
  BY <1>1, <1>2, <1>3, ContinueKeeps

LEMMA ListenFailsKeeps ==
  ASSUME IInv, NEW a \in Attempts, ListenFails(a)
  PROVE  IInv'
<1>1. /\ Catch(a, "other") /\ opt' = opt
      /\ UNCHANGED heartbeatVars
      /\ pc[a] \notin {"idle", "catch", "threw", "returned"}
  BY DEF ListenFails
<1>2. /\ client' \in [Attempts -> [Roles -> ClientStates]]
      /\ \A b \in Attempts \ {a} : client'[b] = client[b]
      /\ client'[a]["main"] \notin {"connecting", "open"}
  BY DEF ListenFails, IInv, TypeOK, Shape, Building, Untouched, ClientPlaces,
     Roles, ClientStates
<1>3. /\ pc' \in [Attempts -> PCs]
      /\ err' \in [Attempts -> {"none", "tls", "other"}]
      /\ todo' \in [Attempts -> Lists]
      /\ runner' \in [Attempts -> [Runners -> Items \cup {"none"}]]
      /\ UNCHANGED <<agents, tunnels, broken>>
      /\ Shape'
  BY <1>1, <1>2, CatchEffect
<1>4. TypeOK'
  BY <1>1, <1>2, <1>3 DEF heartbeatVars, IInv, TypeOK, Lists
<1>5. MapOK'
  BY <1>1 DEF heartbeatVars, IInv, TypeOK, MapOK
<1>6. QED
  BY <1>3, <1>4, <1>5 DEF IInv

LEMMA ConnectedKeeps ==
  ASSUME IInv, NEW a \in Attempts, Connected(a)
  PROVE  IInv'
<1>1. TypeOK'
  BY SharedAgentAssumption, ServersAssumption DEF IInv, MapOK, Connected,
     EndConnect, Connecting, Role, cleanupVars, TypeOK, PCs, ClientStates,
     Items, Roles, Runners, Agents, OptionsFor, HasTunnel, HasAgent, AgentOf,
     CleanupsOf, Topologies, Attempts
<1>2. MapOK'
  BY SharedAgentAssumption DEF IInv, MapOK, TypeOK, Connected, EndConnect,
     Connecting, Role, cleanupVars, Unique, FailedServers
<1>3. Shape'
  BY SharedAgentAssumption DEF IInv, Connected, EndConnect, Connecting, Role,
     cleanupVars, TypeOK, PCs, ClientStates, Items, Roles, Runners, Agents,
     Shape, Untouched, Building, Serving, ClientPlaces, Owned, Ending, Intact,
     TunnelUp, Covered, OptionsFor, HasTunnel, HasAgent, AgentOf, CleanupsOf
<1>4. QED
  BY <1>1, <1>2, <1>3 DEF IInv

LEMMA ConnectFailsKeeps ==
  ASSUME IInv, NEW a \in Attempts, NEW e \in {"tls", "other"}, ConnectFails(a, e)
  PROVE  IInv'
<1>1. /\ Catch(a, e) /\ opt' = opt
      /\ EndConnect(a)
      /\ pc[a] \notin {"idle", "catch", "threw", "returned"}
  BY DEF ConnectFails, Connecting
<1>2. /\ client' \in [Attempts -> [Roles -> ClientStates]]
      /\ \A b \in Attempts \ {a} : client'[b] = client[b]
      /\ client'[a]["main"] \notin {"connecting", "open"}
  BY DEF ConnectFails, IInv, TypeOK, Shape, Building, Untouched, ClientPlaces,
     Roles, ClientStates, Connecting, Role
<1>3. /\ pc' \in [Attempts -> PCs]
      /\ err' \in [Attempts -> {"none", "tls", "other"}]
      /\ todo' \in [Attempts -> Lists]
      /\ runner' \in [Attempts -> [Runners -> Items \cup {"none"}]]
      /\ UNCHANGED <<agents, tunnels, broken>>
      /\ Shape'
  BY <1>1, <1>2, CatchEffect
<1>4. /\ known' \in [Attempts -> SUBSET Servers]
      /\ failed' \in [Attempts -> Seq(Servers \X Kinds)]
      /\ early' \in [Attempts -> BOOLEAN]
      /\ down' \in [Attempts -> SUBSET Servers]
  BY <1>1 DEF EndConnect, IInv, TypeOK
<1>5. TypeOK'
  BY <1>1, <1>2, <1>3, <1>4 DEF IInv, TypeOK, Lists
<1>6. MapOK'
  BY <1>1 DEF EndConnect, IInv, TypeOK, MapOK, Unique, FailedServers
<1>7. QED
  BY <1>3, <1>5, <1>6 DEF IInv

LEMMA FailEarlyKeeps ==
  ASSUME IInv, NEW a \in Attempts, FailEarly(a)
  PROVE  IInv'
<1>1. /\ Catch(a, IF failed[a][1][2] = "tls" THEN "tls" ELSE "other") /\ opt' = opt
      /\ EndConnect(a)
      /\ pc[a] \notin {"idle", "catch", "threw", "returned"}
  BY DEF FailEarly, Connecting
<1>2. /\ client' \in [Attempts -> [Roles -> ClientStates]]
      /\ \A b \in Attempts \ {a} : client'[b] = client[b]
      /\ client'[a]["main"] \notin {"connecting", "open"}
  BY DEF FailEarly, IInv, TypeOK, Shape, Building, Untouched, ClientPlaces,
     Roles, ClientStates, Connecting, Role
<1>3. /\ pc' \in [Attempts -> PCs]
      /\ err' \in [Attempts -> {"none", "tls", "other"}]
      /\ todo' \in [Attempts -> Lists]
      /\ runner' \in [Attempts -> [Runners -> Items \cup {"none"}]]
      /\ UNCHANGED <<agents, tunnels, broken>>
      /\ Shape'
  BY <1>1, <1>2, CatchEffect
<1>4. /\ known' \in [Attempts -> SUBSET Servers]
      /\ failed' \in [Attempts -> Seq(Servers \X Kinds)]
      /\ early' \in [Attempts -> BOOLEAN]
      /\ down' \in [Attempts -> SUBSET Servers]
  BY <1>1 DEF EndConnect, IInv, TypeOK
<1>5. TypeOK'
  BY <1>1, <1>2, <1>3, <1>4 DEF IInv, TypeOK, Lists
<1>6. MapOK'
  BY <1>1 DEF EndConnect, IInv, TypeOK, MapOK, Unique, FailedServers
<1>7. QED
  BY <1>3, <1>5, <1>6 DEF IInv

LEMMA BuildInfoKeeps ==
  ASSUME IInv, NEW a \in Attempts, BuildInfo(a)
  PROVE  IInv'
<1>1. TypeOK'
  BY SharedAgentAssumption, ServersAssumption DEF IInv, MapOK, BuildInfo,
     cleanupVars, heartbeatVars, TypeOK, PCs, ClientStates, Items, Roles,
     Runners, Agents, OptionsFor, HasTunnel, HasAgent, AgentOf, CleanupsOf,
     Topologies, Attempts
<1>2. MapOK'
  BY SharedAgentAssumption DEF IInv, MapOK, TypeOK, BuildInfo, cleanupVars,
     heartbeatVars, Unique, FailedServers
<1>3. Shape'
  BY SharedAgentAssumption DEF IInv, BuildInfo, cleanupVars, heartbeatVars,
     TypeOK, PCs, ClientStates, Items, Roles, Runners, Agents, Shape,
     Untouched, Building, Serving, ClientPlaces, Owned, Ending, Intact,
     TunnelUp, Covered, OptionsFor, HasTunnel, HasAgent, AgentOf, CleanupsOf
<1>4. QED
  BY <1>1, <1>2, <1>3 DEF IInv

LEMMA BuildInfoFailsKeeps ==
  ASSUME IInv, NEW a \in Attempts, BuildInfoFails(a)
  PROVE  IInv'
<1>1. /\ Catch(a, "other") /\ opt' = opt
      /\ UNCHANGED heartbeatVars
      /\ pc[a] \notin {"idle", "catch", "threw", "returned"}
  BY DEF BuildInfoFails
<1>2. /\ client' \in [Attempts -> [Roles -> ClientStates]]
      /\ \A b \in Attempts \ {a} : client'[b] = client[b]
      /\ client'[a]["main"] \notin {"connecting", "open"}
  BY DEF BuildInfoFails, IInv, TypeOK, Shape, Building, Untouched,
     ClientPlaces, Roles, ClientStates
<1>3. /\ pc' \in [Attempts -> PCs]
      /\ err' \in [Attempts -> {"none", "tls", "other"}]
      /\ todo' \in [Attempts -> Lists]
      /\ runner' \in [Attempts -> [Runners -> Items \cup {"none"}]]
      /\ UNCHANGED <<agents, tunnels, broken>>
      /\ Shape'
  BY <1>1, <1>2, CatchEffect
<1>4. TypeOK'
  BY <1>1, <1>2, <1>3 DEF heartbeatVars, IInv, TypeOK, Lists
<1>5. MapOK'
  BY <1>1 DEF heartbeatVars, IInv, TypeOK, MapOK
<1>6. QED
  BY <1>3, <1>4, <1>5 DEF IInv

LEMMA PreClosedKeeps ==
  ASSUME IInv, NEW a \in Attempts, PreClosed(a)
  PROVE  IInv'
<1>1. UNCHANGED <<opt, client, heartbeatVars>>
  BY DEF PreClosed
<1>2. CASE pc[a] = "preClose" /\ pc' = [pc EXCEPT ![a] = "resolveSrv"]
           /\ UNCHANGED <<err, cleanupVars>>
  <2>1. TypeOK' /\ MapOK'
    BY <1>1, <1>2 DEF IInv, MapOK, heartbeatVars, cleanupVars, TypeOK, PCs,
       ClientStates, Items, Roles, Runners, Agents
  <2>2. Shape'
    BY <1>1, <1>2 DEF IInv, cleanupVars, TypeOK, PCs, ClientStates, Items,
       Roles, Runners, Agents, Shape, Untouched, Building, Serving,
       ClientPlaces, Owned, Ending, Intact, TunnelUp, Covered, OptionsFor,
       HasTunnel, HasAgent, AgentOf, CleanupsOf
  <2>3. QED
    BY <2>1, <2>2 DEF IInv
<1>3. CASE pc[a] = "preCloseThrow" /\ Catch(a, "other")
  <2>1. client[a]["main"] = "none"
    BY <1>3 DEF IInv, Shape, Building
  <2>2. /\ pc' \in [Attempts -> PCs]
        /\ err' \in [Attempts -> {"none", "tls", "other"}]
        /\ todo' \in [Attempts -> Lists]
        /\ runner' \in [Attempts -> [Runners -> Items \cup {"none"}]]
        /\ UNCHANGED <<agents, tunnels, broken>>
        /\ Shape'
    BY <1>1, <1>3, <2>1, CatchEffect DEF IInv, TypeOK
  <2>3. TypeOK' /\ MapOK'
    BY <1>1, <2>2 DEF heartbeatVars, IInv, TypeOK, MapOK, Lists
  <2>4. QED
    BY <2>2, <2>3 DEF IInv
<1>4. QED
  BY <1>2, <1>3 DEF PreClosed

LEMMA SrvResolvedKeeps ==
  ASSUME IInv, NEW a \in Attempts, SrvResolved(a)
  PROVE  IInv'
<1>1. /\ pc[a] = "resolveSrv" /\ StartConnect(a, "main")
      /\ UNCHANGED <<opt, err, todo, runner, agents, tunnels, broken>>
  BY DEF SrvResolved, cleanupVars
<1>2. /\ known' \in [Attempts -> SUBSET Servers]
      /\ failed' \in [Attempts -> Seq(Servers \X Kinds)]
      /\ early' \in [Attempts -> BOOLEAN]
      /\ down' \in [Attempts -> SUBSET Servers]
      /\ MapOK'
      /\ pc' = [pc EXCEPT ![a] = "connect"]
      /\ client' = [client EXCEPT ![a]["main"] = "connecting"]
  BY <1>1, StartConnectEffect DEF Roles
<1>3. TypeOK'
  BY <1>1, <1>2 DEF IInv, TypeOK, PCs, ClientStates, Items, Roles, Runners, Agents
<1>4. Shape'
  BY <1>1, <1>2 DEF IInv, TypeOK, PCs, ClientStates, Items, Roles, Runners,
     Agents, Shape, Untouched, Building, Serving, ClientPlaces, Owned, Ending,
     Intact, TunnelUp, Covered, OptionsFor, HasTunnel, HasAgent, AgentOf,
     CleanupsOf
<1>5. QED
  BY <1>2, <1>3, <1>4 DEF IInv

LEMMA SrvFailsKeeps ==
  ASSUME IInv, NEW a \in Attempts, SrvFails(a)
  PROVE  IInv'
<1>1. /\ Catch(a, "other") /\ opt' = opt
      /\ UNCHANGED heartbeatVars
      /\ pc[a] \notin {"idle", "catch", "threw", "returned"}
  BY DEF SrvFails
<1>2. /\ client' \in [Attempts -> [Roles -> ClientStates]]
      /\ \A b \in Attempts \ {a} : client'[b] = client[b]
      /\ client'[a]["main"] \notin {"connecting", "open"}
  BY DEF SrvFails, IInv, TypeOK, Shape, Building, Untouched, ClientPlaces,
     Roles, ClientStates
<1>3. /\ pc' \in [Attempts -> PCs]
      /\ err' \in [Attempts -> {"none", "tls", "other"}]
      /\ todo' \in [Attempts -> Lists]
      /\ runner' \in [Attempts -> [Runners -> Items \cup {"none"}]]
      /\ UNCHANGED <<agents, tunnels, broken>>
      /\ Shape'
  BY <1>1, <1>2, CatchEffect
<1>4. TypeOK'
  BY <1>1, <1>2, <1>3 DEF heartbeatVars, IInv, TypeOK, Lists
<1>5. MapOK'
  BY <1>1 DEF heartbeatVars, IInv, TypeOK, MapOK
<1>6. QED
  BY <1>3, <1>4, <1>5 DEF IInv

LEMMA TopologyChangesKeeps ==
  ASSUME IInv, NEW a \in Attempts, TopologyChanges(a)
  PROVE  IInv'
<1>1. TypeOK'
  BY SharedAgentAssumption, ServersAssumption DEF IInv, MapOK, TopologyChanges,
     cleanupVars, TypeOK, PCs, ClientStates, Items, Roles, Runners, Agents,
     OptionsFor, HasTunnel, HasAgent, AgentOf, CleanupsOf, Topologies, Attempts
<1>2. MapOK'
  BY SharedAgentAssumption DEF IInv, MapOK, TypeOK, TopologyChanges,
     cleanupVars, Unique, FailedServers
<1>3. Shape'
  BY SharedAgentAssumption DEF IInv, TopologyChanges, cleanupVars, TypeOK, PCs,
     ClientStates, Items, Roles, Runners, Agents, Shape, Untouched, Building,
     Serving, ClientPlaces, Owned, Ending, Intact, TunnelUp, Covered,
     OptionsFor, HasTunnel, HasAgent, AgentOf, CleanupsOf
<1>4. QED
  BY <1>1, <1>2, <1>3 DEF IInv

LEMMA HeartbeatFailedKeeps ==
  ASSUME IInv, NEW a \in Attempts, NEW s \in Servers, NEW kind \in Kinds,
         HeartbeatFailed(a, s, kind)
  PROVE  IInv'
<1> DEFINE f == SetFailed(failed[a], s, kind)
<1>1. /\ f \in Seq(Servers \X Kinds)
      /\ Unique(f)
      /\ FailedServers(f) \subseteq FailedServers(failed[a]) \cup {s}
  BY SetKeeps DEF IInv, TypeOK, MapOK
<1>2. /\ failed' = [failed EXCEPT ![a] = f]
      /\ early' = [early EXCEPT ![a] = AllFailed(f, known[a])]
      /\ client' = IF AllFailed(f, known[a])
                   THEN [client EXCEPT ![a][Role(a)] = "closing"] ELSE client
      /\ down' = [down EXCEPT ![a] = @ \cup {s}]
      /\ Connecting(a) /\ client[a][Role(a)] = "connecting"
      /\ UNCHANGED <<opt, pc, err, cleanupVars, known>>
  BY DEF HeartbeatFailed
<1>3. AllFailed(f, known[a]) \in BOOLEAN
  BY DEF AllFailed
<1> HIDE DEF f
<1>4. TypeOK'
  BY <1>1, <1>2, <1>3 DEF IInv, cleanupVars, Connecting, Role, TypeOK, PCs,
     ClientStates, Items, Roles, Runners, Agents
<1>5. MapOK'
  BY <1>1, <1>2 DEF IInv, MapOK, TypeOK
<1>6. Shape'
  BY <1>2 DEF IInv, cleanupVars, Connecting, Role, TypeOK, PCs, ClientStates,
     Items, Roles, Runners, Agents, Shape, Untouched, Building, Serving,
     ClientPlaces, Owned, Ending, Intact, TunnelUp, Covered, OptionsFor,
     HasTunnel, HasAgent, AgentOf, CleanupsOf
<1>7. QED
  BY <1>4, <1>5, <1>6 DEF IInv

LEMMA HeartbeatSucceededKeeps ==
  ASSUME IInv, NEW a \in Attempts, NEW s \in Servers, HeartbeatSucceeded(a, s)
  PROVE  IInv'
<1> DEFINE f == DeleteFailed(failed[a], s)
<1>1. /\ f \in Seq(Servers \X Kinds)
      /\ Unique(f)
      /\ FailedServers(f) \subseteq FailedServers(failed[a]) \ {s}
  BY DeleteKeeps DEF IInv, TypeOK, MapOK
<1>2. /\ failed' = [failed EXCEPT ![a] = f]
      /\ down' = [down EXCEPT ![a] = @ \ {s}]
      /\ UNCHANGED <<opt, pc, err, client, cleanupVars, known, early>>
  BY DEF HeartbeatSucceeded
<1> HIDE DEF f
<1>3. TypeOK' /\ MapOK'
  BY <1>1, <1>2 DEF IInv, MapOK, cleanupVars, TypeOK, PCs, ClientStates, Items,
     Roles, Runners, Agents
<1>4. Shape'
  BY <1>2 DEF IInv, cleanupVars, Shape, Untouched, Building, Serving,
     ClientPlaces, Owned, Ending, Intact, TunnelUp, Covered, OptionsFor,
     HasTunnel, HasAgent, AgentOf, CleanupsOf
<1>5. QED
  BY <1>3, <1>4 DEF IInv

LEMMA UserClosesKeeps ==
  ASSUME IInv, NEW a \in Attempts, UserCloses(a)
  PROVE  IInv'
<1>1. TypeOK'
  BY SharedAgentAssumption, ServersAssumption DEF IInv, MapOK, UserCloses,
     cleanupVars, heartbeatVars, TypeOK, PCs, ClientStates, Items, Roles,
     Runners, Agents, OptionsFor, HasTunnel, HasAgent, AgentOf, CleanupsOf,
     Topologies, Attempts
<1>2. MapOK'
  BY SharedAgentAssumption DEF IInv, MapOK, TypeOK, UserCloses, cleanupVars,
     heartbeatVars, Unique, FailedServers
<1>3. Shape'
  BY SharedAgentAssumption DEF IInv, UserCloses, cleanupVars, heartbeatVars,
     TypeOK, PCs, ClientStates, Items, Roles, Runners, Agents, Shape,
     Untouched, Building, Serving, ClientPlaces, Owned, Ending, Intact,
     TunnelUp, Covered, OptionsFor, HasTunnel, HasAgent, AgentOf, CleanupsOf
<1>4. QED
  BY <1>1, <1>2, <1>3 DEF IInv

LEMMA CleanupDoneKeeps ==
  ASSUME IInv, NEW a \in Attempts, NEW r \in Runners, CleanupDone(a, r)
  PROVE  IInv'
<1>1. /\ runner[a][r] # "none" /\ Cleaned(a, runner[a][r]) /\ Shift(a, r, todo[a])
      /\ UNCHANGED <<opt, err, client, broken, heartbeatVars>>
      /\ pc' = IF r = "catch" /\ todo[a] = <<>> THEN [pc EXCEPT ![a] = "threw"] ELSE pc
  BY DEF CleanupDone
<1>2. /\ todo' \in [Attempts -> Lists]
      /\ runner' \in [Attempts -> [Runners -> Items \cup {"none"}]]
      /\ \A b \in Attempts \ {a} : todo'[b] = todo[b] /\ runner'[b] = runner[b]
      /\ \A q \in Runners \ {r} : runner'[a][q] = runner[a][q]
      /\ todo[a] = <<>> => todo'[a] = <<>> /\ runner'[a][r] = "none"
      /\ todo[a] # <<>> => runner'[a][r] # "none"
      /\ \A item : Has(todo[a], item) => Has(todo'[a], item) \/ runner'[a][r] = item
  BY <1>1, ShiftEffect DEF IInv
<1>3. TypeOK'
  BY <1>1, <1>2 DEF Cleaned, heartbeatVars, IInv, TypeOK, PCs, ClientStates,
     Items, Roles, Runners, Agents, Lists
<1>4. MapOK'
  BY <1>1 DEF heartbeatVars, IInv, MapOK
<1>5. \A b \in Attempts \ {a} :
        /\ todo'[b] = todo[b] /\ runner'[b] = runner[b] /\ pc'[b] = pc[b]
        /\ b \in agents' <=> b \in agents
        /\ b \in tunnels' <=> b \in tunnels
  BY <1>1, <1>2, SharedAgentAssumption DEF Cleaned, AgentOf, IInv, TypeOK
<1>6. \A b \in Attempts \ {a} :
        /\ Untouched(b)' /\ Building(b)' /\ Serving(b)'
        /\ ClientPlaces(b)' /\ Owned(b)' /\ Ending(b)'
  BY <1>1, <1>5 DEF IInv, Shape, Untouched, Building, Serving, ClientPlaces,
     Owned, Ending, Intact, TunnelUp, Covered, OptionsFor, HasTunnel, HasAgent,
     AgentOf, CleanupsOf
<1>7. /\ pc[a] \in {"connect", "returned", "catch", "threw"}
      /\ pc[a] \in {"connect", "returned"} =>
           client[a]["main"] \notin {"connecting", "open", "closing"}
      /\ pc[a] = "catch" <=> runner[a]["catch"] # "none"
  BY <1>1 DEF IInv, TypeOK, PCs, Shape, Untouched, Building, Serving, Intact, Ending
<1>8. /\ pc'[a] \in {"connect", "returned", "catch", "threw"}
      /\ pc'[a] # pc[a] => r = "catch" /\ pc'[a] = "threw" /\ todo[a] = <<>>
      /\ r = "catch" /\ todo[a] = <<>> => pc'[a] = "threw"
  BY <1>1, <1>7 DEF IInv, TypeOK
<1>9. Untouched(a)' /\ Building(a)' /\ Serving(a)'
  BY <1>1, <1>7, <1>8 DEF Untouched, Building, Serving
<1>10. ClientPlaces(a)'
  BY <1>1, <1>7, <1>8 DEF IInv, Shape, ClientPlaces
<1>11. Ending(a)'
  BY <1>1, <1>2, <1>7, <1>8 DEF IInv, Shape, Ending, Runners
<1>12. /\ a \in agents' => /\ OptionsFor(a).proxy = "options" /\ Covered(a, "agent")
                           /\ runner[a][r] # "agent"
                           /\ a \in agents
       /\ a \in tunnels' => Covered(a, "tunnel") /\ runner[a][r] # "tunnel"
  BY <1>1 DEF IInv, Shape, Owned, Cleaned, HasAgent, AgentOf
<1>13. \A item \in Items : Covered(a, item) /\ runner[a][r] # item => Covered(a, item)'
  BY <1>1, <1>2 DEF Covered
<1>14. Owned(a)'
  BY <1>1, <1>12, <1>13 DEF Owned, OptionsFor, Items
<1>15. QED
  BY <1>3, <1>4, <1>6, <1>9, <1>10, <1>11, <1>14 DEF IInv, Shape

LEMMA CleanupRejectsKeeps ==
  ASSUME IInv, NEW a \in Attempts, NEW r \in Runners, CleanupRejects(a, r)
  PROVE  IInv'
<1>1. TypeOK'
  BY SharedAgentAssumption, ServersAssumption DEF IInv, MapOK, CleanupRejects,
     heartbeatVars, TypeOK, PCs, ClientStates, Items, Roles, Runners, Agents,
     OptionsFor, HasTunnel, HasAgent, AgentOf, CleanupsOf, Topologies, Attempts
<1>2. MapOK'
  BY SharedAgentAssumption DEF IInv, MapOK, TypeOK, CleanupRejects,
     heartbeatVars, Unique, FailedServers
<1>3. Shape'
  BY SharedAgentAssumption DEF IInv, CleanupRejects, heartbeatVars, TypeOK,
     PCs, ClientStates, Items, Roles, Runners, Agents, Shape, Untouched,
     Building, Serving, ClientPlaces, Owned, Ending, Intact, TunnelUp, Covered,
     OptionsFor, HasTunnel, HasAgent, AgentOf, CleanupsOf
<1>4. QED
  BY <1>1, <1>2, <1>3 DEF IInv

LEMMA ClientClosedKeeps ==
  ASSUME IInv, NEW a \in Attempts, NEW k \in Roles, ClientClosed(a, k)
  PROVE  IInv'
<1>1. /\ client[a][k] = "closing"
      /\ client' = [client EXCEPT ![a][k] = "closed"]
      /\ UNCHANGED <<opt, pc, err, agents, tunnels, broken, heartbeatVars>>
  BY DEF ClientClosed
<1>2. CASE RunsCleanup(k) /\ runner[a]["event"] = "none"
  <2>1. Shift(a, "event", todo[a]) /\ k = "main" /\ "event" \in Runners
    BY <1>2 DEF ClientClosed, RunsCleanup, Runners
  <2>2. /\ todo' \in [Attempts -> Lists]
        /\ runner' \in [Attempts -> [Runners -> Items \cup {"none"}]]
        /\ \A b \in Attempts \ {a} : todo'[b] = todo[b] /\ runner'[b] = runner[b]
        /\ \A q \in Runners \ {"event"} : runner'[a][q] = runner[a][q]
        /\ todo[a] = <<>> => todo'[a] = <<>> /\ runner'[a]["event"] = "none"
        /\ todo[a] # <<>> => runner'[a]["event"] # "none"
        /\ \A item : Has(todo[a], item) => Has(todo'[a], item) \/ runner'[a]["event"] = item
    BY <2>1, ShiftEffect DEF IInv
  <2>3. TypeOK' /\ MapOK'
    BY <1>1, <2>2 DEF heartbeatVars, IInv, MapOK, TypeOK, PCs, ClientStates,
       Items, Roles, Runners, Agents, Lists
  <2>4. pc[a] \in {"connect", "returned", "catch", "threw"}
    BY <1>1, <2>1 DEF IInv, TypeOK, PCs, Shape, Untouched, Building
  <2>5. client'[a]["main"] = "closed" /\ \A b \in Attempts \ {a} : client'[b] = client[b]
    BY <1>1, <2>1 DEF IInv, TypeOK, Roles
  <2>6. \A b \in Attempts \ {a} :
          /\ Untouched(b)' /\ Building(b)' /\ Serving(b)'
          /\ ClientPlaces(b)' /\ Owned(b)' /\ Ending(b)'
    BY <1>1, <2>2, <2>5 DEF IInv, Shape, Untouched, Building, Serving,
       ClientPlaces, Owned, Ending, Intact, TunnelUp, Covered, OptionsFor,
       HasTunnel, HasAgent, AgentOf, CleanupsOf
  <2>7. Untouched(a)' /\ Building(a)' /\ Serving(a)' /\ ClientPlaces(a)'
    BY <1>1, <2>4, <2>5 DEF Untouched, Building, Serving, ClientPlaces
  <2>8. Ending(a)'
    BY <1>1, <2>2 DEF IInv, Shape, Ending, Runners
  <2>9. \A item \in Items : Covered(a, item) => Covered(a, item)'
    <3>1. SUFFICES ASSUME NEW item \in Items, Covered(a, item) PROVE Covered(a, item)'
      OBVIOUS
    <3>2. CASE Has(todo[a], item)
      BY <2>1, <2>2, <3>2 DEF Covered
    <3>3. CASE \E r \in Runners : runner[a][r] = item
      <4>1. PICK r \in Runners : runner[a][r] = item
        BY <3>3
      <4>2. r # "event"
        BY <1>2, <4>1 DEF Items
      <4>3. runner'[a][r] = item
        BY <2>2, <4>1, <4>2
      <4>4. QED
        BY <4>3 DEF Covered
    <3>4. CASE a \in broken
      BY <1>1, <3>4 DEF Covered
    <3>5. QED
      BY <3>1, <3>2, <3>3, <3>4 DEF Covered
  <2>10. Owned(a)'
    BY <1>1, <2>9 DEF IInv, Shape, Owned, OptionsFor, Items
  <2>11. QED
    BY <2>3, <2>6, <2>7, <2>8, <2>10 DEF IInv, Shape
<1>3. CASE ~(RunsCleanup(k) /\ runner[a]["event"] = "none")
  <2>1. UNCHANGED <<todo, runner>>
    BY <1>3 DEF ClientClosed
  <2>2. TypeOK' /\ MapOK'
    BY <1>1, <2>1 DEF heartbeatVars, IInv, MapOK, TypeOK, PCs, ClientStates,
       Items, Roles, Runners, Agents
  <2>3. Shape'
    BY <1>1, <2>1 DEF IInv, TypeOK, PCs, ClientStates, Items, Roles, Runners,
       Agents, Shape, Untouched, Building, Serving, ClientPlaces, Owned,
       Ending, Intact, TunnelUp, Covered, OptionsFor, HasTunnel, HasAgent,
       AgentOf, CleanupsOf
  <2>4. QED
    BY <2>2, <2>3 DEF IInv
<1>4. QED
  BY <1>2, <1>3

LEMMA AuthFailsKeeps ==
  ASSUME IInv, AuthFails
  PROVE  IInv'
<1>1. TypeOK'
  BY SharedAgentAssumption, ServersAssumption DEF IInv, MapOK, AuthFails, Live,
     cleanupVars, heartbeatVars, TypeOK, PCs, ClientStates, Items, Roles,
     Runners, Agents, OptionsFor, HasTunnel, HasAgent, AgentOf, CleanupsOf,
     Topologies, Attempts
<1>2. MapOK'
  BY SharedAgentAssumption DEF IInv, MapOK, TypeOK, AuthFails, Live,
     cleanupVars, heartbeatVars, Unique, FailedServers
<1>3. Shape'
  BY SharedAgentAssumption DEF IInv, AuthFails, Live, cleanupVars,
     heartbeatVars, TypeOK, PCs, ClientStates, Items, Roles, Runners, Agents,
     Shape, Untouched, Building, Serving, ClientPlaces, Owned, Ending, Intact,
     TunnelUp, Covered, OptionsFor, HasTunnel, HasAgent, AgentOf, CleanupsOf
<1>4. QED
  BY <1>1, <1>2, <1>3 DEF IInv

-----------------------------------------------------------------------------
LEMMA StepKeeps == IInv /\ [Next]_vars => IInv'
<1> SUFFICES ASSUME IInv, [Next]_vars PROVE IInv'
  OBVIOUS
<1>1. ASSUME NEW a \in Attempts, Step(a) PROVE IInv'
  BY <1>1, BeginKeeps, SystemCAReadKeeps, SystemCAFailsKeeps, ListeningKeeps,
     ListenFailsKeeps, ConnectedKeeps, ConnectFailsKeeps, FailEarlyKeeps,
     BuildInfoKeeps, BuildInfoFailsKeeps, PreClosedKeeps, SrvResolvedKeeps,
     SrvFailsKeeps DEF Step
<1>2. ASSUME NEW a \in Attempts, Event(a) PROVE IInv'
  BY <1>2, TopologyChangesKeeps, HeartbeatFailedKeeps, HeartbeatSucceededKeeps,
     UserClosesKeeps DEF Event
<1>3. ASSUME NEW a \in Attempts, NEW r \in Runners, Cleanup(a, r) PROVE IInv'
  BY <1>3, CleanupDoneKeeps, CleanupRejectsKeeps DEF Cleanup
<1>4. ASSUME NEW a \in Attempts, NEW k \in Roles, ClientClosed(a, k) PROVE IInv'
  BY <1>4, ClientClosedKeeps
<1>5. CASE AuthFails
  BY <1>5, AuthFailsKeeps
<1>6. CASE UNCHANGED vars
  <2>1. TypeOK' /\ MapOK'
    BY <1>6 DEF vars, cleanupVars, heartbeatVars, IInv, TypeOK, MapOK
  <2>2. \A b \in Attempts :
          /\ Untouched(b)' /\ Building(b)' /\ Serving(b)'
          /\ ClientPlaces(b)' /\ Owned(b)' /\ Ending(b)'
    BY <1>6, OthersKeep DEF vars, cleanupVars
  <2>3. QED
    BY <2>1, <2>2 DEF IInv, Shape
<1>7. QED
  BY <1>1, <1>2, <1>3, <1>4, <1>5, <1>6 DEF Next

(* The inductive invariant.                                                *)
THEOREM Invariance == Spec => []IInv
<1>1. QED
  BY InitInv, StepKeeps, PTL DEF Spec

(* The variables keep their types.                                         *)
THEOREM TypeCorrect == Spec => []TypeOK
<1>1. IInv => TypeOK
  BY DEF IInv
<1>2. QED
  BY <1>1, Invariance, PTL

(* An attempt that failed has left nothing up, whoever ran its cleanups.   *)
THEOREM FailureIsClean == Spec => []FailureLeavesNothing
<1>1. IInv => FailureLeavesNothing
  <2> SUFFICES ASSUME IInv, NEW a \in Attempts,
                      pc[a] = "threw", Idle(a), a \notin broken
               PROVE  /\ a \notin agents /\ a \notin tunnels
                      /\ todo[a] = <<>> /\ ~Live(client[a]["main"])
    BY DEF FailureLeavesNothing
  <2>1. todo[a] = <<>> /\ Owned(a) /\ ClientPlaces(a)
    BY DEF IInv, Shape, Ending
  <2>2. ~Covered(a, "agent") /\ ~Covered(a, "tunnel")
    BY <2>1 DEF Covered, Has, Idle
  <2>3. QED
    BY <2>1, <2>2 DEF Owned, ClientPlaces, Live
<1>2. QED
  BY <1>1, Invariance, PTL

(* The agent and the tunnel of an open client are up.                      *)
THEOREM ReturnedServed == Spec => []ReturnedIsServed
<1>1. IInv => ReturnedIsServed
  BY DEF IInv, Shape, Serving, Intact, TunnelUp, ReturnedIsServed
<1>2. QED
  BY <1>1, Invariance, PTL

(* Both together: what a client needs follows it.                          *)
THEOREM ProxyFollows == Spec => []ProxyFollowsClient
BY FailureIsClean, ReturnedServed, PTL DEF ProxyFollowsClient

(* No attempt is given up early while a server of its topology may answer. *)
THEOREM EarlyJustified == Spec => EarlyMeansAllDown
<1>1. IInv /\ [Next]_vars =>
        [\A a \in Attempts : early'[a] /\ ~early[a] => known[a] \subseteq down'[a]]_vars
  <2> SUFFICES ASSUME IInv, [Next]_vars, NEW b \in Attempts, early'[b], ~early[b]
               PROVE  known[b] \subseteq down'[b]
    OBVIOUS
  <2>1. CASE \E a \in Attempts, s \in Servers, k \in Kinds : HeartbeatFailed(a, s, k)
    <3>1. PICK a \in Attempts, s \in Servers, k \in Kinds : HeartbeatFailed(a, s, k)
      BY <2>1
    <3>2. /\ early' = [early EXCEPT ![a] = AllFailed(SetFailed(failed[a], s, k), known[a])]
          /\ down' = [down EXCEPT ![a] = @ \cup {s}]
      BY <3>1 DEF HeartbeatFailed
    <3>3. b = a /\ known[a] \subseteq FailedServers(SetFailed(failed[a], s, k))
      BY <3>2 DEF AllFailed, IInv, TypeOK
    <3>4. FailedServers(SetFailed(failed[a], s, k)) \subseteq down[a] \cup {s}
      BY SetKeeps DEF IInv, TypeOK, MapOK
    <3>5. QED
      BY <3>2, <3>3, <3>4 DEF IInv, TypeOK
  <2>2. CASE ~\E a \in Attempts, s \in Servers, k \in Kinds : HeartbeatFailed(a, s, k)
    <3>1. early'[b] = early[b] \/ early'[b] = FALSE
      <4>1. CASE \E a \in Attempts : Step(a)
        <5>1. PICK a \in Attempts : Step(a)
          BY <4>1
        <5>2. early' = early \/ early' = [early EXCEPT ![a] = FALSE]
          <6>1. CASE \/ Begin(a) \/ SystemCARead(a) \/ Listening(a) \/ SrvResolved(a)
            BY <6>1 DEF Begin, Prepare, Continue, StartConnect, SystemCARead,
               Listening, SrvResolved, heartbeatVars
          <6>2. CASE \/ SystemCAFails(a) \/ ListenFails(a) \/ BuildInfo(a)
                     \/ BuildInfoFails(a) \/ PreClosed(a) \/ SrvFails(a)
            BY <6>2 DEF SystemCAFails, ListenFails, BuildInfo, BuildInfoFails,
               PreClosed, SrvFails, heartbeatVars
          <6>3. CASE \/ Connected(a) \/ FailEarly(a)
                     \/ \E e \in {"tls", "other"} : ConnectFails(a, e)
            BY <6>3 DEF Connected, FailEarly, ConnectFails, EndConnect
          <6>4. QED
            BY <5>1, <6>1, <6>2, <6>3 DEF Step
        <5>3. QED
          BY <5>2 DEF IInv, TypeOK
      <4>2. CASE \E a \in Attempts : Event(a)
        BY <2>2, <4>2 DEF Event, TopologyChanges, HeartbeatSucceeded,
           UserCloses, heartbeatVars
      <4>3. CASE \/ \E a \in Attempts, r \in Runners : Cleanup(a, r)
                 \/ \E a \in Attempts, k \in Roles : ClientClosed(a, k)
                 \/ AuthFails \/ UNCHANGED vars
        BY <4>3 DEF Cleanup, CleanupDone, CleanupRejects, ClientClosed, AuthFails,
           heartbeatVars, vars
      <4>4. QED
        BY <4>1, <4>2, <4>3 DEF Next
    <3>2. QED
      BY <3>1
  <2>3. QED
    BY <2>1, <2>2
<1>2. QED
  BY <1>1, Invariance, PTL DEF Spec, EarlyMeansAllDown

-----------------------------------------------------------------------------
(* StateShare.  A getter that saw no other one at work owns the server that *)
(* the state holds, so destroy() closes it.                                 *)

Begun == {"closing", "closed"}

Owners ==
  /\ \A i \in Getters :
       /\ server[i] # "none" => getter[i] \in {"returned", "failed"}
       /\ getter[i] = "failed" => i \in overlapped
       /\ i \notin overlapped /\ server[i] # "none" =>
            field = i /\ \A j \in Getters : getter[j] # "creating"
  /\ \A i, j \in Getters :
       getter[i] = "creating" /\ getter[j] = "creating" => i = j \/ i \in overlapped
  /\ field # NoGetter => server[field] # "none"

Closings ==
  /\ \A i, j \in Getters : server[i] \in Begun /\ server[j] \in Begun => i = j
  /\ destroy = "no" => \A i \in Getters : server[i] \notin Begun
  /\ destroy # "no" => \A i \in Getters : getter[i] = "creating" => i \in overlapped
  /\ destroy # "no" => \A i \in Getters \ overlapped : server[i] \in Begun \cup {"none"}
  /\ destroy = "done" => \A i \in Getters : server[i] # "closing"

Targets ==
  \A k \in Callbacks :
    /\ call[k] # "idle" => target[k] \in Getters
    /\ call[k] = "served" => server[target[k]] \in {"up", "closing"}

ShareInv == ShareTypeOK /\ Owners /\ Closings /\ Targets

LEMMA ShareInvInit == ShareInit => ShareInv
  BY ShareAssumption
  DEF ShareInit, ShareInv, ShareTypeOK, Owners, Closings, Targets, Begun

LEMMA ShareInvNext == ShareInv /\ [ShareNext]_shareVars => ShareInv'
<1> SUFFICES ASSUME ShareInv, [ShareNext]_shareVars
             PROVE  ShareInv'
    OBVIOUS
<1> USE ShareAssumption DEF ShareInv, ownerVars, callVars, Begun
<1>1. ASSUME NEW i \in Getters, GetServer(i)
      PROVE  ShareInv'
  <2>1. ShareTypeOK'
        BY <1>1 DEF GetServer, ShareTypeOK
  <2>2. Owners'
    <3>1. CASE field = NoGetter
          BY <1>1, <3>1 DEF GetServer, ShareTypeOK, Owners
    <3>2. CASE field # NoGetter
          BY <1>1, <3>2 DEF GetServer, ShareTypeOK, Owners
    <3>3. QED BY <3>1, <3>2
  <2>3. Closings' /\ Targets'
        BY <1>1 DEF GetServer, ShareTypeOK, Closings, Targets
  <2>4. QED BY <2>1, <2>2, <2>3
<1>2. ASSUME NEW i \in Getters, Created(i)
      PROVE  ShareInv'
  <2>1. ShareTypeOK'
        BY <1>2 DEF Created, ShareTypeOK
  <2>2. Owners'
        BY <1>2 DEF Created, ShareTypeOK, Owners
  <2>3. Closings' /\ Targets'
        BY <1>2 DEF Created, ShareTypeOK, Owners, Closings, Targets
  <2>4. QED BY <2>1, <2>2, <2>3
<1>3. ASSUME NEW i \in Getters, CreateFails(i)
      PROVE  ShareInv'
  <2>1. ShareTypeOK'
        BY <1>3 DEF CreateFails, ShareTypeOK
  <2>2. Owners'
        BY <1>3 DEF CreateFails, ShareTypeOK, Owners
  <2>3. Closings' /\ Targets'
        BY <1>3 DEF CreateFails, ShareTypeOK, Owners, Closings, Targets
  <2>4. QED BY <2>1, <2>2, <2>3
<1>4. CASE Destroy
  <2>1. CASE field = NoGetter
    <3>1. /\ destroy = "no" /\ destroy' = "done" /\ UNCHANGED server
          /\ overlapped' = overlapped \cup {i \in Getters : getter[i] = "creating"}
          /\ UNCHANGED <<getter, field, callVars>>
          BY <1>4, <2>1 DEF Destroy
    <3>2. QED
          BY <2>1, <3>1 DEF ShareTypeOK, Owners, Closings, Targets
  <2>2. CASE field # NoGetter
    <3>1. /\ destroy = "no" /\ destroy' = "closing"
          /\ server' = [server EXCEPT ![field] = "closing"]
          /\ overlapped' = overlapped \cup {i \in Getters : getter[i] = "creating"}
          /\ UNCHANGED <<getter, field, callVars>>
          BY <1>4, <2>2 DEF Destroy
    <3>2. ShareTypeOK'
          BY <3>1 DEF ShareTypeOK
    <3>3. server[field] # "none"
          BY <2>2 DEF Owners, ShareTypeOK
    <3>4. QED
          BY <2>2, <3>1, <3>2, <3>3 DEF ShareTypeOK, Owners, Closings, Targets
  <2>3. QED BY <2>1, <2>2
<1>5. ASSUME NEW i \in Getters, Closed(i)
      PROVE  ShareInv'
  <2>1. ShareTypeOK'
        BY <1>5 DEF Closed, ShareTypeOK
  <2>2. Owners' /\ Closings'
        BY <1>5 DEF Closed, ShareTypeOK, Owners, Closings
  <2>3. Targets'
        BY <1>5 DEF Closed, MayClose, Served, ShareTypeOK, Targets
  <2>4. QED BY <2>1, <2>2, <2>3
<1>6. ASSUME NEW k \in Callbacks,
             \/ \E i \in Getters : CallBack(k, i)
             \/ Send(k) \/ AbortCall(k) \/ Serve(k) \/ ServeAbort(k)
             \/ CallbackEnds(k) \/ Receive(k)
      PROVE  ShareInv'
  <2>1. Owners' /\ Closings' /\ UNCHANGED ownerVars
        BY <1>6
        DEF CallBack, Send, AbortCall, Serve, ServeAbort, CallbackEnds, Receive, Owners,
            Closings
  <2>2. ShareTypeOK' /\ Targets'
    <3>1. ASSUME NEW i \in Getters, CallBack(k, i)
          PROVE  ShareTypeOK' /\ Targets'
          BY <3>1 DEF CallBack, ShareTypeOK, Targets
    <3>2. CASE Send(k)
          BY <3>2 DEF Send, ShareTypeOK, Targets
    <3>3. CASE AbortCall(k)
          BY <3>3 DEF AbortCall, Listens, ShareTypeOK, Targets
    <3>4. CASE Serve(k)
      <4>1. CASE server[target[k]] = "up"
            BY <3>4, <4>1 DEF Serve, Registered, ShareTypeOK, Targets
      <4>2. CASE server[target[k]] # "up"
            BY <3>4, <4>2 DEF Serve, ShareTypeOK, Targets
      <4>3. QED BY <4>1, <4>2
    <3>5. CASE ServeAbort(k)
          BY <3>5 DEF ServeAbort, ShareTypeOK, Targets
    <3>6. CASE CallbackEnds(k)
          BY <3>6 DEF CallbackEnds, Unregistered, ShareTypeOK, Targets
    <3>7. CASE Receive(k)
          BY <3>7 DEF Receive, ShareTypeOK, Targets
    <3>8. QED
          BY <1>6, <3>1, <3>2, <3>3, <3>4, <3>5, <3>6, <3>7
  <2>3. QED BY <2>1, <2>2
<1>7. CASE UNCHANGED shareVars
      BY <1>7 DEF shareVars, ShareTypeOK, Owners, Closings, Targets
<1>8. QED
      BY <1>1, <1>2, <1>3, <1>4, <1>5, <1>6, <1>7 DEF ShareNext

(* destroy() leaves nothing served, the servers that getters overlapped on *)
(* excepted, for any number of getters and calls (connect.ts).             *)
THEOREM QuietOnceDestroyed == ShareSpec => []DestroyedIsQuiet
<1>1. ShareInv => DestroyedIsQuiet
      BY DEF ShareInv, ShareTypeOK, Closings, Targets, Begun, DestroyedIsQuiet, Served
<1>2. QED
      BY ShareInvInit, ShareInvNext, <1>1, PTL DEF ShareSpec

(* Every variable of connecting and of the shared state keeps its type, for any  *)
(* calls, servers, options, getters and callbacks (connect.ts,                   *)
(* ipc-rpc-state-share.ts).                                                      *)
THEOREM ConnectTypes == ConnectSpec => []ConnectTypeOK
<1>1. ShareInv => ShareTypeOK
      BY DEF ShareInv
<1>2. ShareSpec => []ShareTypeOK
      BY ShareInvInit, ShareInvNext, <1>1, PTL DEF ShareSpec
<1>3. ConnectTypeOK <=> TypeOK /\ ShareTypeOK
      BY DEF ConnectTypeOK
<1> QED
    BY TypeCorrect, <1>2, <1>3, PTL DEF ConnectSpec
=============================================================================
