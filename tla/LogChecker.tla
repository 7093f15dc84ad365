----------------------------- MODULE LogChecker -----------------------------
(* mongodb-server-log-checker: a checker listens to the log entries that a    *)
(* cluster passes on from its servers and keeps the warnings nobody expects.  *)
(* A cluster starts to pass entries on when it gets its first listener        *)
(* (mongodb-runner/src/mongocluster.ts).                                      *)
EXTENDS Naturals, FiniteSets

CONSTANTS
  LogServers,     \* the servers of the cluster
  Conns,          \* names of connections; every server has its own of each name
  WarningIds,
  Subscriptions,  \* calls of allowWarning()
  FilterOf,       \* the function each of them registers
  AllowedBy,      \* the ids that each function allows
  MaxWarnings,    \* bound: warnings that are written
  MaxCheckers     \* bound: checkers, one after the other

ASSUME CheckerAssumption ==
  /\ AllowedBy \in [{FilterOf[s] : s \in Subscriptions} -> SUBSET WarningIds]
  /\ MaxWarnings \in Nat /\ MaxCheckers \in Nat

Filters == {FilterOf[s] : s \in Subscriptions}
Warnings == 1..MaxWarnings

VARIABLES
  client,      \* who each connection of a server belongs to
  unreadable,  \* the servers whose log is not read any further
  forwarders,  \* the listeners through which the cluster passes entries on
  listeners,   \* who listens to the cluster: the checker, or somebody else
  checkers,    \* how many checkers there were
  ignoreCtx,   \* connections whose entries the checker ignores
  filters,     \* how often each function is registered
  collected,   \* how often the checker keeps each warning
  reported,    \* how often checkpoints threw each warning
  written,     \* the number of warnings so far
  subscribed,  \* ghost: where each subscription is
  twice,       \* ghost: was a subscription ended twice?
  deserted,    \* ghost: did the cluster lose all of its listeners?
  unseen,      \* ghost: the connections this checker did not see come
  due          \* ghost: should the checker report a warning?

kept == <<collected, reported>>
checkerGhosts == <<subscribed, twice, unseen, due>>
checkerVars == <<client, unreadable, forwarders, listeners, deserted, checkers, ignoreCtx,
                 filters, kept, written, checkerGhosts>>

NoneKept == [w \in Warnings |-> 0]

CheckerInit ==
  /\ client = [x \in LogServers \X Conns |-> "none"]
  /\ unreadable = {} /\ forwarders = 0 /\ checkers = 0
  /\ listeners = {} /\ deserted = FALSE
  /\ ignoreCtx = {} /\ filters = [f \in Filters |-> 0]
  /\ collected = NoneKept /\ reported = NoneKept /\ written = 0
  /\ subscribed = [s \in Subscriptions |-> "never"] /\ twice = FALSE
  /\ unseen = {} /\ due = [w \in Warnings |-> "no"]

-----------------------------------------------------------------------------
(* Listening.                                                                 *)

\* Deviation: every listener makes the children pass entries on.
OneMore(n) == n + 1

\* newListener: only the first listener does.  The forwarders stay when the last
\* listener goes, and the next first one adds others.
Forwarders(n) == IF listeners = {} THEN n + 1 ELSE n

Subscribes(who) ==
  /\ who \notin listeners /\ forwarders < MaxCheckers
  /\ forwarders' = Forwarders(forwarders)
  /\ listeners' = listeners \cup {who}
  /\ UNCHANGED <<client, unreadable, deserted, written>>

StopsListening(who) ==
  /\ who \in listeners /\ listeners' = listeners \ {who}
  /\ deserted' = (deserted \/ listeners = {who})
  /\ UNCHANGED <<client, unreadable, forwarders, checkers, ignoreCtx, filters, kept,
                 written, checkerGhosts>>

\* The constructor: a checker knows nothing of what an earlier one saw.
NewChecker ==
  /\ checkers < MaxCheckers /\ checkers' = checkers + 1
  /\ Subscribes("checker")
  /\ ignoreCtx' = {} /\ filters' = [f \in Filters |-> 0]
  /\ collected' = NoneKept /\ reported' = NoneKept
  /\ subscribed' = [s \in Subscriptions |-> "never"]
  /\ twice' = FALSE /\ due' = [w \in Warnings |-> "no"]
  /\ unseen' = {x \in LogServers \X Conns : client[x] # "none"}

SomebodyElseListens ==
  Subscribes("test") /\ UNCHANGED <<checkers, ignoreCtx, filters, kept, checkerGhosts>>

-----------------------------------------------------------------------------
(* What servers write, and listener().                                        *)

Received(s) == "checker" \in listeners /\ s \notin unreadable

\* Deviation: the name of the connection alone.
NameOnly(s, c) == LogServers \X {c}

\* crossServerCtxID
Context(s, c) == {<<s, c>>}

\* The entry with the driver's name comes first on a connection.
Connects(s, c, who) ==
  /\ client[<<s, c>>] = "none"
  /\ client' = [client EXCEPT ![<<s, c>>] = who]
  /\ ignoreCtx' = IF Received(s) /\ who = "internal" THEN ignoreCtx \cup Context(s, c)
                  ELSE ignoreCtx
  /\ UNCHANGED <<unreadable, forwarders, listeners, deserted, checkers, filters, kept,
                 written, checkerGhosts>>

Filtered(id) == \E f \in Filters : filters[f] > 0 /\ id \in AllowedBy[f]

Expected(id) == \E s \in Subscriptions : subscribed[s] = "active" /\ id \in AllowedBy[FilterOf[s]]

\* What the checker should do with a warning: a connection that it did not see
\* come, and a filter that another subscription took away, are not its business.
Due(s, c, id) ==
  IF ~Received(s) THEN "no"
  ELSE IF client[<<s, c>>] = "user" /\ ~Expected(id) THEN "yes"
  ELSE IF (client[<<s, c>>] = "internal" /\ <<s, c>> \notin unseen)
          \/ (Expected(id) /\ ~twice) THEN "no"
  ELSE "either"

Warns(s, c, id) ==
  /\ client[<<s, c>>] # "none" /\ written < MaxWarnings
  /\ written' = written + 1
  /\ collected' =
       IF Received(s) /\ <<s, c>> \notin ignoreCtx /\ ~Filtered(id)
       THEN [collected EXCEPT ![written + 1] = forwarders] ELSE collected
  /\ due' = [due EXCEPT ![written + 1] = Due(s, c, id)]
  /\ UNCHANGED <<client, unreadable, forwarders, listeners, deserted, checkers, ignoreCtx,
                 filters, reported, subscribed, twice, unseen>>

\* createLogEntryIterator stops at a line that is no log entry.
WritesSomethingElse(s) ==
  /\ s \notin unreadable
  /\ unreadable' = unreadable \cup {s}
  /\ UNCHANGED <<client, forwarders, listeners, deserted, checkers, ignoreCtx, filters,
                 kept, written, checkerGhosts>>

-----------------------------------------------------------------------------
(* Users of the checker.                                                      *)

AllowWarning(s) ==
  /\ checkers > 0 /\ subscribed[s] = "never"
  /\ subscribed' = [subscribed EXCEPT ![s] = "active"]
  /\ filters' = [filters EXCEPT ![FilterOf[s]] = @ + 1]
  /\ UNCHANGED <<client, unreadable, forwarders, listeners, deserted, checkers, ignoreCtx,
                 kept, written, twice, unseen, due>>

\* Deviation: every registration of the function goes.
AllRemoved(n) == 0

\* The first registration of the function is removed, whoever made it.
OneRemoved(n) == IF n > 0 THEN n - 1 ELSE 0

Unsubscribe(s) ==
  /\ subscribed[s] # "never"
  /\ subscribed' = [subscribed EXCEPT ![s] = "over"]
  /\ twice' = (twice \/ subscribed[s] = "over")
  /\ filters' = [filters EXCEPT ![FilterOf[s]] = OneRemoved(@)]
  /\ UNCHANGED <<client, unreadable, forwarders, listeners, deserted, checkers, ignoreCtx,
                 kept, written, unseen, due>>

\* noServerWarningsCheckpoint() forgets the warnings it throws.
Checkpoint ==
  /\ checkers > 0
  /\ reported' = [w \in Warnings |-> reported[w] + collected[w]]
  /\ collected' = NoneKept
  /\ UNCHANGED <<client, unreadable, forwarders, listeners, deserted, checkers, ignoreCtx,
                 filters, written, checkerGhosts>>

CheckerNext ==
  \/ NewChecker \/ SomebodyElseListens \/ Checkpoint
  \/ \E who \in {"checker", "test"} : StopsListening(who)
  \/ \E s \in LogServers : WritesSomethingElse(s)
  \/ \E s \in LogServers, c \in Conns :
       \/ \E who \in {"internal", "user"} : Connects(s, c, who)
       \/ \E id \in WarningIds : Warns(s, c, id)
  \/ \E s \in Subscriptions : AllowWarning(s) \/ Unsubscribe(s)

CheckerSpec == CheckerInit /\ [][CheckerNext]_checkerVars

-----------------------------------------------------------------------------
(* Properties.                                                                *)

\* The types of the variables, and nothing is kept before it was written.
CheckerTypeOK ==
  /\ client \in [LogServers \X Conns -> {"none", "internal", "user"}]
  /\ unreadable \subseteq LogServers
  /\ forwarders \in 0..MaxCheckers /\ checkers \in 0..MaxCheckers
  /\ {deserted, twice} \subseteq BOOLEAN /\ listeners \subseteq {"checker", "test"}
  /\ ignoreCtx \subseteq LogServers \X Conns /\ unseen \subseteq LogServers \X Conns
  /\ filters \in [Filters -> 0..Cardinality(Subscriptions)]
  /\ collected \in [Warnings -> 0..MaxCheckers] /\ reported \in [Warnings -> 0..MaxCheckers]
  /\ written \in 0..MaxWarnings
  /\ due \in [Warnings -> {"no", "yes", "either"}] /\ \A w \in Warnings : w > written => due[w] = "no"
  /\ subscribed \in [Subscriptions -> {"never", "active", "over"}]

Seen(w) == collected[w] + reported[w]

\* A checkpoint throws every warning that was not expected when it was written,
\* whatever connections share a name or subscriptions a function, and no other
\* (index.ts:118-140); and once, unless all listeners of the cluster had gone
\* before: then each of its forwarders brings it (mongocluster.ts:396).
UnexpectedIsReported ==
  \A w \in Warnings :
    /\ due[w] = "yes" => Seen(w) > 0
    /\ due[w] = "no" => Seen(w) = 0
    /\ ~deserted => Seen(w) <= 1
=============================================================================
