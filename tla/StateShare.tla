----------------------------- MODULE StateShare -----------------------------
(* devtools-connect: the OIDC state of one process used by another.  The    *)
(* process that owns the state serves HTTP requests on a local socket; a    *)
(* client sends the callback in one request and its abort in another, and   *)
(* nothing orders the two.                                                  *)
EXTENDS FiniteSets

CONSTANTS Getters,  \* calls of getStateShareServer()
          Callbacks,    \* calls of the OIDC callback by clients
          NoGetter

ASSUME ShareAssumption == NoGetter \notin Getters

VARIABLES
  getter,     \* where each getStateShareServer() is
  server,     \* the server that each of them created
  field,      \* stateShareServer: the getter whose server the state holds
  destroy,    \* destroy() of the state
  call,       \* where each callback is
  target,     \* the server it is sent to
  contexts,   \* abortContexts of the servers
  signalled,  \* the calls whose context was aborted
  aborts,     \* the calls whose client aborted, and where its request is
  missed,     \* the calls whose abort cannot reach them any more
  overlapped  \* the getters that did not see another's server, or failed

ownerVars == <<getter, server, field, destroy, overlapped>>
callVars == <<call, target, contexts, signalled, aborts, missed>>
shareVars == <<ownerVars, callVars>>

ShareInit ==
  /\ getter = [i \in Getters |-> "idle"]
  /\ server = [i \in Getters |-> "none"]
  /\ field = NoGetter /\ destroy = "no" /\ overlapped = {}
  /\ call = [k \in Callbacks |-> "idle"]
  /\ target = [k \in Callbacks |-> NoGetter]
  /\ contexts = {} /\ signalled = {} /\ missed = {}
  /\ aborts = [k \in Callbacks |-> "no"]

-----------------------------------------------------------------------------
(* The owner.  `stateShareServer ??= await create()` looks at the field before *)
(* it awaits, and sets it without another look.                                *)

GetServer(i) ==
  /\ getter[i] = "idle" /\ destroy = "no"
  /\ getter' = [getter EXCEPT ![i] = IF field = NoGetter THEN "creating" ELSE "returned"]
  /\ overlapped' = IF field = NoGetter /\ \E j \in Getters : getter[j] = "creating"
                   THEN overlapped \cup {j \in Getters : getter[j] = "creating"} \cup {i}
                   ELSE overlapped
  /\ UNCHANGED <<server, field, destroy, callVars>>

Created(i) ==
  /\ getter[i] = "creating"
  /\ getter' = [getter EXCEPT ![i] = "returned"]
  /\ server' = [server EXCEPT ![i] = "up"]
  /\ field' = i
  /\ UNCHANGED <<destroy, overlapped, callVars>>

\* listen fails, or chmod does when the server is listening already.
CreateFails(i) ==
  /\ getter[i] = "creating"
  /\ getter' = [getter EXCEPT ![i] = "failed"]
  /\ \E left \in {"none", "up"} : server' = [server EXCEPT ![i] = left]
  /\ overlapped' = overlapped \cup {i}
  /\ UNCHANGED <<field, destroy, callVars>>

Destroy ==
  /\ destroy = "no"
  /\ IF field = NoGetter THEN destroy' = "done" /\ UNCHANGED server
     ELSE destroy' = "closing" /\ server' = [server EXCEPT ![field] = "closing"]
  /\ overlapped' = overlapped \cup {i \in Getters : getter[i] = "creating"}
  /\ UNCHANGED <<getter, field, callVars>>

Served(i) == {k \in Callbacks : target[k] = i /\ call[k] = "served"}

\* Deviation: close() does not wait for the close event.
CloseAtOnce(i) == TRUE

\* The server has closed when its last request was answered.
MayClose(i) == Served(i) = {}

Closed(i) ==
  /\ server[i] = "closing" /\ MayClose(i)
  /\ server' = [server EXCEPT ![i] = "closed"]
  /\ destroy' = "done"
  /\ UNCHANGED <<getter, field, overlapped, callVars>>

-----------------------------------------------------------------------------
(* Clients.                                                                   *)

\* The id of the call is drawn first, and takes an await.
CallBack(k, i) ==
  /\ call[k] = "idle" /\ getter[i] = "returned" /\ server[i] # "none"
  /\ call' = [call EXCEPT ![k] = "id"]
  /\ target' = [target EXCEPT ![k] = i]
  /\ UNCHANGED <<ownerVars, contexts, signalled, aborts, missed>>

Send(k) ==
  /\ call[k] = "id"
  /\ call' = [call EXCEPT ![k] = "sent"]
  /\ UNCHANGED <<ownerVars, target, contexts, signalled, aborts, missed>>

\* Nobody listens to the signal until the id was drawn.
Listens(k) == call[k] \in {"sent", "served", "answered"}

AbortCall(k) ==
  /\ call[k] \in {"id", "sent", "served", "answered"} /\ aborts[k] = "no"
  /\ aborts' = [aborts EXCEPT ![k] = IF Listens(k) THEN "sent" ELSE "lost"]
  /\ missed' = IF Listens(k) THEN missed ELSE missed \cup {k}
  /\ UNCHANGED <<ownerVars, call, target, contexts, signalled>>

\* Deviation: the context of a call is not kept.
NotRegistered(k) == contexts

Registered(k) == contexts \cup {k}

\* A server that closes takes no more requests.
Serve(k) ==
  /\ call[k] = "sent"
  /\ IF server[target[k]] = "up"
     THEN /\ call' = [call EXCEPT ![k] = "served"]
          /\ contexts' = Registered(k)
     ELSE call' = [call EXCEPT ![k] = "over"] /\ UNCHANGED contexts
  /\ UNCHANGED <<ownerVars, target, signalled, aborts, missed>>

\* oidc:_abort may come before the call it is about, or be refused by a server
\* that closes.
TooEarly(k) == call[k] = "sent"
Refused(k) == call[k] = "served" /\ server[target[k]] # "up"

ServeAbort(k) ==
  /\ aborts[k] = "sent"
  /\ aborts' = [aborts EXCEPT ![k] = "done"]
  /\ signalled' = IF server[target[k]] = "up" THEN signalled \cup ({k} \cap contexts)
                  ELSE signalled
  /\ missed' = IF TooEarly(k) \/ Refused(k) THEN missed \cup {k} ELSE missed
  /\ UNCHANGED <<ownerVars, call, target, contexts>>

\* Deviation: the context of a call that ended is kept.
LeftBehind(k) == contexts

Unregistered(k) == contexts \ {k}

\* The callback ends: the user is done, or the signal ended it.
CallbackEnds(k) ==
  /\ call[k] = "served"
  /\ call' = [call EXCEPT ![k] = "answered"]
  /\ contexts' = Unregistered(k)
  /\ UNCHANGED <<ownerVars, target, signalled, aborts, missed>>

SignalEnds(k) == k \in signalled /\ CallbackEnds(k)

Receive(k) ==
  /\ call[k] = "answered"
  /\ call' = [call EXCEPT ![k] = "over"]
  /\ UNCHANGED <<ownerVars, target, contexts, signalled, aborts, missed>>

ShareNext ==
  \/ \E i \in Getters : GetServer(i) \/ Created(i) \/ CreateFails(i) \/ Closed(i)
  \/ Destroy
  \/ \E k \in Callbacks :
       \/ \E i \in Getters : CallBack(k, i)
       \/ Send(k) \/ AbortCall(k) \/ Serve(k) \/ ServeAbort(k) \/ CallbackEnds(k) \/ Receive(k)

ShareSpec == ShareInit /\ [][ShareNext]_shareVars

\* Requests arrive, answers too, and a callback ends when its signal says so.
ShareFairness ==
  \A k \in Callbacks : /\ WF_shareVars(Send(k)) /\ WF_shareVars(Serve(k))
                   /\ WF_shareVars(ServeAbort(k)) /\ WF_shareVars(SignalEnds(k))
                   /\ WF_shareVars(Receive(k))

-----------------------------------------------------------------------------
(* Properties.                                                                *)

\* The types of the variables; a context is kept while its call is served.
ShareTypeOK ==
  /\ getter \in [Getters -> {"idle", "creating", "returned", "failed"}]
  /\ server \in [Getters -> {"none", "up", "closing", "closed"}]
  /\ field \in Getters \cup {NoGetter} /\ destroy \in {"no", "closing", "done"}
  /\ call \in [Callbacks -> {"idle", "id", "sent", "served", "answered", "over"}]
  /\ target \in [Callbacks -> Getters \cup {NoGetter}]
  /\ contexts = {k \in Callbacks : call[k] = "served"}
  /\ signalled \subseteq Callbacks /\ missed \subseteq Callbacks
  /\ aborts \in [Callbacks -> {"no", "sent", "lost", "done"}]
  /\ overlapped \subseteq Getters

\* When destroy() has returned nothing is served any more, except by servers
\* that the state never held or has forgotten.
DestroyedIsQuiet ==
  destroy = "done" =>
    \A i \in Getters \ overlapped : server[i] # "up" /\ Served(i) = {}

\* An abort ends its call, unless it was too early or too late to be noticed.
AbortTakesEffect ==
  \A k \in Callbacks : aborts[k] # "no" ~> call[k] = "over" \/ k \in missed
=============================================================================
