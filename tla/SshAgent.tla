------------------------------ MODULE SshAgent ------------------------------
(***************************************************************************)
(* The SSH agent of devtools-proxy-support (src/ssh.ts): one ssh2 client   *)
(* shared by every call of connect(), dialled on demand, replaced after a  *)
(* failure, and never dialled again once destroy() closed the agent.       *)
(*                                                                         *)
(* JavaScript runs one piece of code at a time: an action is the code      *)
(* between two awaits.  Events of the sockets, new calls and results of    *)
(* I/O are served only when no continuation is left to run (Quiescent).    *)
(* A promise that waits for the next 'ready' or 'error' of a client is     *)
(* named by that client, for all those promises settle at the same event.  *)
(***************************************************************************)
EXTENDS Naturals

CONSTANTS
  Callers,            \* concurrent users of the agent
  Clients,            \* identities of ssh2 clients; one is reused once silent
  KeyFileModes,       \* the settings of identityKeyFile considered
  MaxReinitFailures,  \* MAX_CONSECUTIVE_REINIT_FAILURES
  SilentClose,        \* may a client that was end()ed while it was still
                      \* dialling close with neither 'ready' nor 'error'?
  None

ASSUME CallersAssumption == None \notin Callers
ASSUME ClientsAssumption == None \notin Clients
ASSUME KeyFileAssumption == KeyFileModes \subseteq BOOLEAN
ASSUME MaxAssumption     == MaxReinitFailures \in Nat \ {0}
ASSUME SilentAssumption  == SilentClose \in BOOLEAN

VARIABLES
  keyFile,                \* is sshOptions.identityKeyFile set? (never changes)
  closed,
  connected,
  connectingPromise,      \* the client whose next event settles it, or None
  reinitializingPromise,  \* the caller that runs _doReinit, or None
  consecutiveReinitFailures,
  sshClient,              \* the current client
  cl,                     \* the ssh2 clients
  call,                   \* the call of each caller
  unserved                \* ghost: clients created by _doReinit since the last
                      \* one that came up

fixedVars  == <<keyFile, closed, consecutiveReinitFailures>>
dialVars   == <<connectingPromise, cl>>
reinitVars == <<reinitializingPromise, sshClient, unserved>>
agentVars  == <<fixedVars, connected, dialVars, reinitVars>>
vars       == <<agentVars, call>>

-----------------------------------------------------------------------------
(* The ssh2 client: sock is the state of its socket; closing says that the *)
(* 'close' event of an earlier socket is still to come; again that ssh2    *)
(* will dial as soon as it does (connect() on a client with a live socket  *)
(* ends that socket first).                                                *)

ClientState == [sock : {"idle", "dialling", "up"}, closing : BOOLEAN,
                again : BOOLEAN]

NewClient == [sock |-> "idle", closing |-> FALSE, again |-> FALSE]

Ended(c) ==
  IF c.sock = "idle" THEN c
  ELSE [sock |-> "idle", closing |-> TRUE, again |-> c.again]

Dialled(c) ==
  IF c.sock = "idle"
  THEN [sock |-> "dialling", closing |-> c.closing, again |-> c.again]
  ELSE [sock |-> "idle", closing |-> TRUE, again |-> TRUE]

-----------------------------------------------------------------------------
(* A call: pc is where it waits, at is the place that called initialize(): *)
(* "public" a caller of the agent, "first" line 181 of _connect, "retry"   *)
(* line 219, "reinit" the call inside _doReinit.                           *)

CallState == [pc : {"idle", "readKey", "connecting", "waitReinit", "ok",
                    "failed", "reinitDone", "forwarding"},
              at : {"public", "first", "retry", "reinit"},
              on : Clients \cup {None},
              retriesLeft : {0, 1}]

Idle == [pc |-> "idle", at |-> "public", on |-> None, retriesLeft |-> 0]

Put(p, pc, at, on, r) ==
  call' = [call EXCEPT ![p] = [pc |-> pc, at |-> at, on |-> on,
                               retriesLeft |-> r]]

Runnable(p) == call[p].pc \in {"ok", "failed", "reinitDone"}
Quiescent   == \A p \in Callers : ~Runnable(p)

Awaits(p, k) == call[p].pc = "connecting" /\ call[p].on = k

(* No event of client k is to come and nobody refers to it.                *)
Silent(k) ==
  /\ k # sshClient
  /\ cl[k] = NewClient
  /\ \A p \in Callers : call[p].on # k

-----------------------------------------------------------------------------
Init ==
  /\ keyFile \in KeyFileModes
  /\ closed = FALSE
  /\ connected = FALSE
  /\ connectingPromise = None
  /\ reinitializingPromise = None
  /\ consecutiveReinitFailures = 0
  /\ sshClient \in Clients
  /\ cl = [k \in Clients |-> NewClient]
  /\ call = [p \in Callers |-> Idle]
  /\ unserved = 0

-----------------------------------------------------------------------------
(* Deviations a small slip in the code would give; no Spec uses them.      *)
MayDialAlways         == TRUE
NoReinitCheck         == TRUE
BudgetOffByOne(n)     == n > MaxReinitFailures
RetriesForgotten(r)   == r
PromiseKept(k)        == connectingPromise

(* The checks of initialize(): lines 89 and 101, and the limit at 239.     *)
MayDial         == ~closed
NoReinitRunning == reinitializingPromise = None
BudgetSpent(n)  == n >= MaxReinitFailures

(* What _connect passes on when it calls itself (line 220).                *)
RetriesAfter(r) == r - 1

(* The call that made the attempt clears connectingPromise when client k   *)
(* settles it (lines 153 and 157), also when it is no longer its own.      *)
PromiseAfter(k) ==
  IF \E p \in Callers : Awaits(p, k) THEN None ELSE connectingPromise

-----------------------------------------------------------------------------
(* initialize(), past its checks: reading the key file is an await, without*)
(* one the client is dialled at once.                                      *)
Establish(p, at, r, k, clients) ==
  \/ /\ keyFile
     /\ Put(p, "readKey", at, None, r)
     /\ connectingPromise' = None
     /\ cl' = clients
  \/ /\ ~keyFile
     /\ Put(p, "connecting", at, k, r)
     /\ connectingPromise' = k
     /\ cl' = [clients EXCEPT ![k] = Dialled(@)]

(* initialize(false) when the agent is not connected.                      *)
InitializeFresh(p, at, r) ==
  \/ /\ connectingPromise # None
     /\ Put(p, "connecting", at, connectingPromise, r)
     /\ UNCHANGED dialVars
  \/ /\ connectingPromise = None
     /\ ~MayDial
     /\ Put(p, "failed", at, None, r)
     /\ UNCHANGED dialVars
  \/ /\ connectingPromise = None
     /\ MayDial
     /\ Establish(p, at, r, sshClient, cl)

(* initialize(false).                                                      *)
Initialize(p, at, r) ==
  /\ \/ /\ connected
        /\ Put(p, "ok", at, None, r)
        /\ UNCHANGED dialVars
     \/ /\ ~connected
        /\ InitializeFresh(p, at, r)
  /\ UNCHANGED <<fixedVars, reinitVars, connected>>

(* _connect up to its first await.  A target that is no URL throws inside   *)
(* the try block, so that the catch block takes it for a broken client.     *)
Attempt(p, r) ==
  \/ Initialize(p, "first", r)
  \/ /\ Put(p, "failed", "first", None, r)
     /\ UNCHANGED agentVars

(* initialize(true), with _doReinit up to its await.                       *)
Reinitialize(p, r) ==
  \/ /\ ~MayDial
     /\ Put(p, "failed", "retry", None, r)
     /\ UNCHANGED <<dialVars, reinitVars>>
  \/ /\ MayDial
     /\ ~NoReinitRunning
     /\ Put(p, "waitReinit", "retry", None, r)
     /\ UNCHANGED <<dialVars, reinitVars>>
  \/ /\ MayDial
     /\ NoReinitRunning
     /\ \E k \in Clients :
          /\ Silent(k)
          /\ sshClient' = k
          /\ Establish(p, "reinit", r, k,
                       [cl EXCEPT ![sshClient] = Ended(@)])
     /\ reinitializingPromise' = p
     /\ unserved' = unserved + 1

(* The catch block of _connect for a retryable error.                      *)
Retry(p, requiresNewClient) ==
  /\ connected' = FALSE
  /\ \/ /\ call[p].retriesLeft = 0
        /\ call' = [call EXCEPT ![p] = Idle]
        /\ UNCHANGED <<dialVars, reinitVars>>
     \/ /\ call[p].retriesLeft > 0
        /\ requiresNewClient
        /\ Reinitialize(p, call[p].retriesLeft)
     \/ /\ call[p].retriesLeft > 0
        /\ ~requiresNewClient
        /\ InitializeFresh(p, "retry", call[p].retriesLeft)
        /\ UNCHANGED reinitVars
  /\ UNCHANGED fixedVars

-----------------------------------------------------------------------------
(* New calls, and destroy().                                               *)

CallInitialize(p) ==
  /\ Quiescent
  /\ call[p].pc = "idle"
  /\ Initialize(p, "public", 0)

CallConnect(p) ==
  /\ Quiescent
  /\ call[p].pc = "idle"
  /\ Attempt(p, 1)

Destroy ==
  /\ closed' = TRUE
  /\ cl' = [cl EXCEPT ![sshClient] = Ended(@)]
  /\ UNCHANGED <<reinitVars, call, connected, connectingPromise, consecutiveReinitFailures, keyFile>>

-----------------------------------------------------------------------------
(* Continuations.                                                          *)

(* fs.readFile settles; connect() is called on the client of this moment.  *)
KeyRead(p) ==
  /\ Quiescent
  /\ call[p].pc = "readKey"
  /\ \/ /\ Put(p, "connecting", call[p].at, sshClient, call[p].retriesLeft)
        /\ connectingPromise' = sshClient
        /\ cl' = [cl EXCEPT ![sshClient] = Dialled(@)]
     \/ /\ Put(p, "failed", call[p].at, None, call[p].retriesLeft)
        /\ UNCHANGED dialVars
  /\ UNCHANGED <<fixedVars, connected, reinitVars>>

(* _doReinit settles: its outcome is counted, reinitializingPromise is     *)
(* cleared, and everyone who waited for it goes on.                        *)
FinishReinit(p) ==
  /\ call[p].at = "reinit"
  /\ call[p].pc \in {"ok", "failed"}
  /\ LET ok == call[p].pc = "ok" IN
     /\ call' = [q \in Callers |->
          IF q = p THEN [call[p] EXCEPT !.at = "retry"]
          ELSE IF call[q].pc = "waitReinit"
               THEN [call[q] EXCEPT !.pc = IF ok THEN "reinitDone"
                                                 ELSE "failed"]
               ELSE call[q]]
     /\ consecutiveReinitFailures' =
          IF ok THEN 0
          ELSE IF closed THEN consecutiveReinitFailures
               ELSE consecutiveReinitFailures + 1
     /\ closed' = IF ~ok /\ BudgetSpent(consecutiveReinitFailures + 1)
                  THEN TRUE ELSE closed
     /\ unserved' = IF ok THEN 0 ELSE unserved
  /\ reinitializingPromise' = None
  /\ UNCHANGED <<dialVars, connected, keyFile, sshClient>>

(* Somebody else's reinitialization succeeded: initialize(false) follows.  *)
UseReinit(p) ==
  /\ call[p].pc = "reinitDone"
  /\ Initialize(p, "retry", call[p].retriesLeft)

(* The initialize() of the catch block succeeded: _connect once more.      *)
TryAgain(p) ==
  /\ call[p].pc = "ok"
  /\ call[p].at = "retry"
  /\ Attempt(p, RetriesAfter(call[p].retriesLeft))

(* initialize() of _connect succeeded: ask the current client for a        *)
(* channel.  A client without a connection refuses at once.                *)
ForwardOut(p) ==
  /\ call[p].pc = "ok"
  /\ call[p].at = "first"
  /\ \/ /\ cl[sshClient].sock = "up"
        /\ Put(p, "forwarding", "first", sshClient, call[p].retriesLeft)
        /\ UNCHANGED agentVars
     \/ /\ cl[sshClient].sock # "up"
        /\ Retry(p, FALSE)

(* _connect failed before it had a client: the client has to be replaced.  *)
InitializeFailed(p) ==
  /\ call[p].pc = "failed"
  /\ call[p].at = "first"
  /\ Retry(p, TRUE)

(* The call returns: initialize() of a caller settled, or the initialize() *)
(* of the catch block threw.                                               *)
Return(p) ==
  /\ \/ call[p].pc \in {"ok", "failed"} /\ call[p].at = "public"
     \/ call[p].pc = "failed" /\ call[p].at = "retry"
  /\ call' = [call EXCEPT ![p] = Idle]
  /\ UNCHANGED agentVars

(* forwardOut settles with a channel or with an error that is not retried. *)
ForwardSettled(p) ==
  /\ Quiescent
  /\ call[p].pc = "forwarding"
  /\ call' = [call EXCEPT ![p] = Idle]
  /\ UNCHANGED agentVars

(* forwardOut fails: the channel or the connection was lost, or the client *)
(* says "Instance unusable after fatal error" and has to be replaced.      *)
ForwardFails(p) ==
  /\ Quiescent
  /\ call[p].pc = "forwarding"
  /\ \E fatal \in BOOLEAN : Retry(p, fatal)

-----------------------------------------------------------------------------
(* Events of client k: those who await it resume.                          *)

Settle(k, result) ==
  /\ call' = [p \in Callers |->
       IF Awaits(p, k) THEN [call[p] EXCEPT !.pc = result, !.on = None]
       ELSE call[p]]
  /\ connectingPromise' = PromiseAfter(k)

Ready(k) ==
  /\ Quiescent
  /\ cl[k].sock = "dialling"
  /\ cl' = [cl EXCEPT ![k].sock = "up"]
  /\ Settle(k, "ok")
  /\ connected' = ((\E p \in Callers : Awaits(p, k)) \/ connected)
  /\ UNCHANGED <<fixedVars, reinitVars>>

(* The live socket, or one that is closing, reports an error.              *)
ErrorEvent(k) ==
  /\ Quiescent
  /\ \/ cl[k].sock # "idle" /\ cl' = [cl EXCEPT ![k] = Ended(@)]
     \/ cl[k].closing /\ cl' = cl
  /\ Settle(k, "failed")
  /\ connected' = FALSE
  /\ UNCHANGED <<fixedVars, reinitVars>>

(* The server ends the session or the connection is lost.                  *)
Drop(k) ==
  /\ Quiescent
  /\ cl[k].sock = "up"
  /\ cl' = [cl EXCEPT ![k] = Ended(@)]
  /\ UNCHANGED <<fixedVars, reinitVars, call, connected, connectingPromise>>

CloseEvent(k) ==
  /\ Quiescent
  /\ cl[k].closing
  /\ \/ SilentClose
     \/ cl[k].again
     \/ cl[k].sock # "idle"
     \/ \A p \in Callers : ~Awaits(p, k)
  /\ cl' = [cl EXCEPT ![k] =
       LET c == [sock |-> @.sock, closing |-> FALSE, again |-> FALSE]
       IN  IF @.again THEN Dialled(c) ELSE c]
  /\ connected' = FALSE
  /\ UNCHANGED <<fixedVars, reinitVars, call, connectingPromise>>

-----------------------------------------------------------------------------
Continue(p) ==
  \/ FinishReinit(p) \/ UseReinit(p) \/ TryAgain(p) \/ ForwardOut(p)
  \/ InitializeFailed(p) \/ Return(p)

Answer(p) ==
  \/ KeyRead(p) \/ ForwardSettled(p) \/ ForwardFails(p)

Next ==
  \/ \E p \in Callers :
       \/ CallInitialize(p) \/ CallConnect(p) \/ Continue(p) \/ Answer(p)
  \/ Destroy
  \/ \E k \in Clients : Ready(k) \/ ErrorEvent(k) \/ Drop(k) \/ CloseEvent(k)

Spec == Init /\ [][Next]_vars

(* An attempt somebody waits for concludes: readyTimeout ends the dialling, *)
(* and unless SilentClose the end of a socket is reported as an error.      *)
Conclude(k) ==
  /\ \E p \in Callers : Awaits(p, k)
  /\ cl[k].sock = "dialling" \/ ~SilentClose
  /\ Ready(k) \/ ErrorEvent(k)

(* Continuations run; the event loop serves every source of events again    *)
(* and again, however often other sources are served in between.            *)
Fairness ==
  /\ \A p \in Callers : WF_vars(Continue(p)) /\ SF_vars(Answer(p))
  /\ \A k \in Clients : SF_vars(Conclude(k)) /\ SF_vars(CloseEvent(k))

FairSpec == Spec /\ Fairness

-----------------------------------------------------------------------------
(* Every variable has a value of its kind.                                 *)
TypeOK ==
  /\ keyFile \in BOOLEAN
  /\ closed \in BOOLEAN
  /\ connected \in BOOLEAN
  /\ connectingPromise \in Clients \cup {None}
  /\ reinitializingPromise \in Callers \cup {None}
  /\ consecutiveReinitFailures \in 0..MaxReinitFailures
  /\ sshClient \in Clients
  /\ cl \in [Clients -> ClientState]
  /\ call \in [Callers -> CallState]
  /\ unserved \in Nat

(* Concurrent failures share one _doReinit (the comment at ssh.ts:95): at  *)
(* most one call is inside it, and reinitializingPromise is its promise    *)
(* for exactly as long as it is.                                           *)
ReinitSerialized ==
  \A p \in Callers : call[p].at = "reinit" <=> reinitializingPromise = p

(* A server that is gone costs a bounded number of clients, whatever the   *)
(* number of callers that retry: no more than MaxReinitFailures are created*)
(* without one of them coming up, after which the agent closes itself.     *)
ReinitBudget == unserved <= MaxReinitFailures

(* connectingPromise never outlives its attempt: as long as it is set, the *)
(* call that made the attempt still waits for it, so that a later call     *)
(* cannot pick up the outcome of an attempt that is over.                  *)
AttemptIsPending ==
  connectingPromise # None =>
    \E p \in Callers : Awaits(p, connectingPromise)

(* "A socks5 request could come in after we deliberately closed the        *)
(* connection. Don't reconnect in that case." (ssh.ts:90): once the agent  *)
(* is closed no call dials a client.                                       *)
NoDialOnceClosed ==
  [][closed => connectingPromise' \in {connectingPromise, None}]_vars

(* The same, where connecting involves no await: without a key file.       *)
NoDialOnceClosedNoKey ==
  [][closed /\ ~keyFile =>
       connectingPromise' \in {connectingPromise, None}]_vars

(* No call waits for a client of which no event is to come.                *)
NoOrphanedWait ==
  \A p \in Callers : call[p].pc = "connecting" =>
    \/ cl[call[p].on].sock = "dialling"
    \/ cl[call[p].on].closing

(* "re-uses a single SSH connection if it can" (the test at                *)
(* ssh.spec.ts:32): an event of a client that was replaced does not make   *)
(* the agent forget the session that is up.                                *)
SessionIsReused ==
  [][connected /\ ~connected' /\ cl[sshClient].sock = "up" /\ call' = call
       => cl' = cl \/ cl'[sshClient] # cl[sshClient]]_vars

(* Every call of connect() and initialize() settles; Exhausted is the       *)
(* bound of the model, the only state in which it may wait for ever.        *)
Exhausted ==
  /\ \E p \in Callers : call[p].pc = "failed" /\ call[p].at = "first"
  /\ \A k \in Clients : ~Silent(k)

CallsSettle ==
  \A p \in Callers :
    call[p].pc # "idle" ~> (call[p].pc = "idle" \/ Exhausted)
=============================================================================
