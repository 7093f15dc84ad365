--------------------------- MODULE SshAgent_proofs ---------------------------
(***************************************************************************)
(* What holds of the SSH agent for every number of callers and clients and *)
(* every limit: its types, one reinitialization at a time, the bound on    *)
(* fresh clients, and no dialling once it is closed.                       *)
(*                                                                         *)
(* The budget alone is not inductive: that a reinitialization adds one to  *)
(* the clients that never came up has to be related to the failures        *)
(* counted so far and to whether one is running now (Accounting), and both *)
(* to the call that runs it (CallShape, ReinitSerialized).                 *)
(***************************************************************************)
EXTENDS SshAgent, TLAPS

(* What the place a call waits at says about it.                           *)
CallShape ==
  \A p \in Callers :
    /\ call[p].pc = "readKey" => keyFile
    /\ call[p].pc = "idle" => call[p].at = "public"
    /\ call[p].pc = "forwarding" => call[p].at = "first"
    /\ call[p].pc \in {"waitReinit", "reinitDone"} => call[p].at = "retry"
    /\ call[p].at \in {"retry", "reinit"} => call[p].retriesLeft = 1

(* While the agent is open, the clients that did not come up are those of  *)
(* the failures counted and the one being tried.                           *)
Accounting ==
  /\ ~closed => /\ consecutiveReinitFailures < MaxReinitFailures
                /\ unserved = consecutiveReinitFailures +
                     (IF reinitializingPromise = None THEN 0 ELSE 1)
  /\ unserved <= MaxReinitFailures

IInv == TypeOK /\ ReinitSerialized /\ CallShape /\ Accounting

-----------------------------------------------------------------------------
(* Ending or dialling a client yields a client.                            *)
LEMMA ClientOps ==
  ASSUME NEW c \in ClientState
  PROVE  Ended(c) \in ClientState /\ Dialled(c) \in ClientState
BY DEF ClientState, Ended, Dialled

(* Putting a call at a place that fits it keeps what CallShape says.       *)
LEMMA PutShape ==
  ASSUME IInv, NEW p \in Callers, NEW pc, NEW at, NEW on, NEW r,
         [pc |-> pc, at |-> at, on |-> on, retriesLeft |-> r] \in CallState,
         Put(p, pc, at, on, r), keyFile' = keyFile,
         pc = "readKey" => keyFile,
         pc = "idle" => at = "public",
         pc = "forwarding" => at = "first",
         pc \in {"waitReinit", "reinitDone"} => at = "retry",
         at \in {"retry", "reinit"} => r = 1
  PROVE  /\ call' \in [Callers -> CallState]
         /\ CallShape'
         /\ \A q \in Callers : call'[q].at = IF q = p THEN at ELSE call[q].at
BY DEF IInv, TypeOK, CallShape, Put, CallState

(* Dialling, past the checks of initialize().                              *)
LEMMA EstablishShape ==
  ASSUME IInv, NEW p \in Callers, NEW at \in {"public", "first", "retry", "reinit"},
         NEW r \in {0, 1}, NEW k \in Clients,
         NEW clients \in [Clients -> ClientState],
         Establish(p, at, r, k, clients), keyFile' = keyFile,
         at \in {"retry", "reinit"} => r = 1
  PROVE  /\ call' \in [Callers -> CallState]
         /\ CallShape'
         /\ \A q \in Callers : call'[q].at = IF q = p THEN at ELSE call[q].at
         /\ connectingPromise' \in Clients \cup {None}
         /\ cl' \in [Clients -> ClientState]
<1>1. CASE keyFile
  <2>1. Put(p, "readKey", at, None, r)
    BY <1>1 DEF Establish
  <2>2. [pc |-> "readKey", at |-> at, on |-> None, retriesLeft |-> r] \in CallState
    BY DEF CallState
  <2>3. /\ call' \in [Callers -> CallState]
        /\ CallShape'
        /\ \A q \in Callers : call'[q].at = IF q = p THEN at ELSE call[q].at
    BY <1>1, <2>1, <2>2, PutShape
  <2>4. QED
    BY <1>1, <2>3 DEF Establish
<1>2. CASE ~keyFile
  <2>1. Put(p, "connecting", at, k, r)
    BY <1>2 DEF Establish
  <2>2. [pc |-> "connecting", at |-> at, on |-> k, retriesLeft |-> r] \in CallState
    BY DEF CallState
  <2>3. /\ call' \in [Callers -> CallState]
        /\ CallShape'
        /\ \A q \in Callers : call'[q].at = IF q = p THEN at ELSE call[q].at
    BY <2>1, <2>2, PutShape
  <2>4. cl' \in [Clients -> ClientState]
    BY <1>2, ClientOps DEF Establish
  <2>5. QED
    BY <1>2, <2>3, <2>4 DEF Establish
<1>3. QED
  BY <1>1, <1>2

(* initialize(false), whether the agent is connected or not.               *)
LEMMA FreshShape ==
  ASSUME IInv, NEW p \in Callers, NEW at \in {"public", "first", "retry"},
         NEW r \in {0, 1}, at = "retry" => r = 1,
         InitializeFresh(p, at, r), keyFile' = keyFile
  PROVE  /\ call' \in [Callers -> CallState]
         /\ CallShape'
         /\ \A q \in Callers : call'[q].at = IF q = p THEN at ELSE call[q].at
         /\ connectingPromise' \in Clients \cup {None}
         /\ cl' \in [Clients -> ClientState]
<1>1. CASE connectingPromise # None
  <2>1. Put(p, "connecting", at, connectingPromise, r) /\ UNCHANGED dialVars
    BY <1>1 DEF InitializeFresh
  <2>2. [pc |-> "connecting", at |-> at, on |-> connectingPromise,
         retriesLeft |-> r] \in CallState
    BY DEF CallState, IInv, TypeOK
  <2>3. QED
    BY <2>1, <2>2, PutShape DEF dialVars, IInv, TypeOK
<1>2. CASE connectingPromise = None /\ ~MayDial
  <2>1. Put(p, "failed", at, None, r) /\ UNCHANGED dialVars
    BY <1>2 DEF InitializeFresh
  <2>2. [pc |-> "failed", at |-> at, on |-> None, retriesLeft |-> r] \in CallState
    BY DEF CallState
  <2>3. QED
    BY <2>1, <2>2, PutShape DEF dialVars, IInv, TypeOK
<1>3. CASE connectingPromise = None /\ MayDial
  <2>1. Establish(p, at, r, sshClient, cl)
    BY <1>3 DEF InitializeFresh
  <2>2. QED
    BY <2>1, EstablishShape DEF IInv, TypeOK
<1>4. QED
  BY <1>1, <1>2, <1>3

(* A call of initialize(false) from a place other than _doReinit keeps the *)
(* whole invariant.                                                        *)
LEMMA InitializeStep ==
  ASSUME IInv, NEW p \in Callers, call[p].at # "reinit",
         NEW at \in {"public", "first", "retry"},
         NEW r \in {0, 1}, at = "retry" => r = 1, Initialize(p, at, r)
  PROVE  IInv'
<1>1. UNCHANGED <<fixedVars, connected, reinitVars>>
  BY DEF Initialize
<1>2. /\ call' \in [Callers -> CallState]
      /\ CallShape'
      /\ \A q \in Callers : call'[q].at = IF q = p THEN at ELSE call[q].at
      /\ connectingPromise' \in Clients \cup {None}
      /\ cl' \in [Clients -> ClientState]
  <2>1. CASE connected
    <3>1. Put(p, "ok", at, None, r) /\ UNCHANGED dialVars
      BY <2>1 DEF Initialize
    <3>2. [pc |-> "ok", at |-> at, on |-> None, retriesLeft |-> r] \in CallState
      BY DEF CallState
    <3>3. QED
      BY <1>1, <3>1, <3>2, PutShape DEF dialVars, fixedVars, IInv, TypeOK
  <2>2. CASE ~connected
    BY <1>1, <2>2, FreshShape DEF Initialize, fixedVars
  <2>3. QED
    BY <2>1, <2>2
<1>3. QED
  BY <1>1, <1>2 DEF IInv, TypeOK, ReinitSerialized, Accounting, fixedVars, reinitVars

(* The start of _connect.                                                  *)
LEMMA AttemptStep ==
  ASSUME IInv, NEW p \in Callers, call[p].at # "reinit",
         NEW r \in {0, 1}, Attempt(p, r)
  PROVE  IInv'
<1>1. CASE Put(p, "failed", "first", None, r) /\ UNCHANGED agentVars
  <2>1. [pc |-> "failed", at |-> "first", on |-> None, retriesLeft |-> r] \in CallState
    BY DEF CallState
  <2>2. /\ call' \in [Callers -> CallState]
        /\ CallShape'
        /\ \A q \in Callers : call'[q].at = IF q = p THEN "first" ELSE call[q].at
    BY <1>1, <2>1, PutShape DEF agentVars, fixedVars
  <2>3. QED
    BY <1>1, <2>2 DEF IInv, TypeOK, ReinitSerialized, Accounting,
                      agentVars, fixedVars, dialVars, reinitVars
<1>2. CASE Initialize(p, "first", r)
  BY <1>2, InitializeStep
<1>3. QED
  BY <1>1, <1>2 DEF Attempt

(* The start of a reinitialization, or the wait for one.                   *)
LEMMA ReinitializeStep ==
  ASSUME IInv, NEW p \in Callers, call[p].at = "first",
         Reinitialize(p, 1), connected' = FALSE, UNCHANGED fixedVars
  PROVE  IInv'
<1>1. CASE ~MayDial
  <2>1. Put(p, "failed", "retry", None, 1) /\ UNCHANGED <<dialVars, reinitVars>>
    BY <1>1 DEF Reinitialize
  <2>2. [pc |-> "failed", at |-> "retry", on |-> None, retriesLeft |-> 1] \in CallState
    BY DEF CallState
  <2>3. /\ call' \in [Callers -> CallState]
        /\ CallShape'
        /\ \A q \in Callers : call'[q].at = IF q = p THEN "retry" ELSE call[q].at
    BY <2>1, <2>2, PutShape DEF fixedVars
  <2>4. QED
    BY <2>1, <2>3 DEF IInv, TypeOK, ReinitSerialized, Accounting, fixedVars, dialVars, reinitVars
<1>2. CASE MayDial /\ ~NoReinitRunning
  <2>1. Put(p, "waitReinit", "retry", None, 1) /\ UNCHANGED <<dialVars, reinitVars>>
    BY <1>2 DEF Reinitialize
  <2>2. [pc |-> "waitReinit", at |-> "retry", on |-> None, retriesLeft |-> 1] \in CallState
    BY DEF CallState
  <2>3. /\ call' \in [Callers -> CallState]
        /\ CallShape'
        /\ \A q \in Callers : call'[q].at = IF q = p THEN "retry" ELSE call[q].at
    BY <2>1, <2>2, PutShape DEF fixedVars
  <2>4. QED
    BY <2>1, <2>3 DEF IInv, TypeOK, ReinitSerialized, Accounting, fixedVars, dialVars, reinitVars
<1>3. CASE MayDial /\ NoReinitRunning
  <2>1. PICK k \in Clients :
          /\ sshClient' = k
          /\ Establish(p, "reinit", 1, k, [cl EXCEPT ![sshClient] = Ended(@)])
    BY <1>3 DEF Reinitialize
  <2>2. reinitializingPromise' = p /\ unserved' = unserved + 1
    BY <1>3 DEF Reinitialize
  <2>3. [cl EXCEPT ![sshClient] = Ended(@)] \in [Clients -> ClientState]
    BY ClientOps DEF IInv, TypeOK
  <2>4. /\ call' \in [Callers -> CallState]
        /\ CallShape'
        /\ \A q \in Callers : call'[q].at = IF q = p THEN "reinit" ELSE call[q].at
        /\ connectingPromise' \in Clients \cup {None}
        /\ cl' \in [Clients -> ClientState]
    BY <2>1, <2>3, EstablishShape DEF fixedVars
  <2>5. TypeOK'
    <3>1. sshClient' \in Clients
      BY <2>1
    <3>2. reinitializingPromise' \in Callers \cup {None} /\ unserved' \in Nat
      BY <2>2 DEF IInv, TypeOK
    <3>3. QED
      BY <2>4, <3>1, <3>2 DEF IInv, TypeOK, fixedVars
  <2>6. ReinitSerialized'
    BY <1>3, <2>2, <2>4, CallersAssumption
    DEF IInv, ReinitSerialized, NoReinitRunning
  <2>7. Accounting'
    BY <1>3, <2>2, CallersAssumption, MaxAssumption
    DEF IInv, TypeOK, Accounting, NoReinitRunning, MayDial, fixedVars
  <2>8. QED
    BY <2>4, <2>5, <2>6, <2>7 DEF IInv
<1>4. QED
  BY <1>1, <1>2, <1>3

(* The catch block of _connect.                                            *)
LEMMA RetryStep ==
  ASSUME IInv, NEW p \in Callers, call[p].at = "first",
         NEW new \in BOOLEAN, Retry(p, new)
  PROVE  IInv'
<1>1. connected' = FALSE /\ UNCHANGED fixedVars
  BY DEF Retry
<1>2. call[p].retriesLeft \in {0, 1}
  BY DEF IInv, TypeOK, CallState
<1>3. CASE call[p].retriesLeft = 0
  <2>1. call' = [call EXCEPT ![p] = Idle] /\ UNCHANGED <<dialVars, reinitVars>>
    BY <1>3 DEF Retry
  <2>2. Put(p, "idle", "public", None, 0)
    BY <2>1 DEF Put, Idle
  <2>3. [pc |-> "idle", at |-> "public", on |-> None, retriesLeft |-> 0] \in CallState
    BY DEF CallState
  <2>4. /\ call' \in [Callers -> CallState]
        /\ CallShape'
        /\ \A q \in Callers : call'[q].at = IF q = p THEN "public" ELSE call[q].at
    BY <1>1, <2>2, <2>3, PutShape DEF fixedVars
  <2>5. QED
    BY <1>1, <2>1, <2>4 DEF IInv, TypeOK, ReinitSerialized, Accounting, fixedVars, dialVars, reinitVars
<1>4. CASE call[p].retriesLeft = 1 /\ new
  <2>1. Reinitialize(p, 1)
    BY <1>4 DEF Retry
  <2>2. QED
    BY <1>1, <2>1, ReinitializeStep
<1>5. CASE call[p].retriesLeft = 1 /\ ~new
  <2>1. InitializeFresh(p, "retry", 1) /\ UNCHANGED reinitVars
    BY <1>5 DEF Retry
  <2>2. /\ call' \in [Callers -> CallState]
        /\ CallShape'
        /\ \A q \in Callers : call'[q].at = IF q = p THEN "retry" ELSE call[q].at
        /\ connectingPromise' \in Clients \cup {None}
        /\ cl' \in [Clients -> ClientState]
    BY <1>1, <2>1, FreshShape DEF fixedVars
  <2>3. QED
    BY <1>1, <2>1, <2>2 DEF IInv, TypeOK, ReinitSerialized, Accounting, fixedVars, reinitVars
<1>6. QED
  BY <1>2, <1>3, <1>4, <1>5

-----------------------------------------------------------------------------
(* The end of a reinitialization.                                          *)
LEMMA FinishReinitStep ==
  ASSUME IInv, NEW p \in Callers, FinishReinit(p)
  PROVE  IInv'
<1> DEFINE ok == call[p].pc = "ok"
<1>1. reinitializingPromise = p /\ reinitializingPromise' = None
  BY DEF FinishReinit, IInv, ReinitSerialized
<1>2. \A q \in Callers :
        call'[q] = IF q = p THEN [call[p] EXCEPT !.at = "retry"]
                   ELSE IF call[q].pc = "waitReinit"
                        THEN [call[q] EXCEPT !.pc = IF ok THEN "reinitDone" ELSE "failed"]
                        ELSE call[q]
  BY DEF FinishReinit
<1>3. call' \in [Callers -> CallState]
  BY <1>2 DEF FinishReinit, IInv, TypeOK, CallState
<1>4. CallShape'
  BY <1>2 DEF FinishReinit, IInv, TypeOK, CallShape, CallState
<1>5. ReinitSerialized'
  BY <1>1, <1>2, CallersAssumption DEF IInv, TypeOK, ReinitSerialized, CallState
<1>6. Accounting' /\ consecutiveReinitFailures' \in 0..MaxReinitFailures
      /\ unserved' \in Nat /\ closed' \in BOOLEAN
  <2> DEFINE n == consecutiveReinitFailures
  <2>1. CASE ok
    <3>1. n' = 0 /\ unserved' = 0 /\ closed' = closed
      BY <2>1 DEF FinishReinit
    <3>2. QED
      BY <1>1, <3>1, MaxAssumption DEF IInv, TypeOK, Accounting
  <2>2. CASE ~ok /\ closed
    <3>1. n' = n /\ unserved' = unserved /\ closed' = TRUE
      BY <2>2 DEF FinishReinit
    <3>2. QED
      BY <3>1 DEF IInv, TypeOK, Accounting
  <2>3. CASE ~ok /\ ~closed
    <3>1. n' = n + 1 /\ unserved' = unserved
          /\ closed' = IF BudgetSpent(n + 1) THEN TRUE ELSE closed
      BY <2>3 DEF FinishReinit
    <3>2. n \in Nat /\ n < MaxReinitFailures /\ unserved = n + 1
      BY <1>1, <2>3, CallersAssumption DEF IInv, TypeOK, Accounting
    <3>3. CASE BudgetSpent(n + 1)
      <4>1. closed' = TRUE
        BY <3>1, <3>3
      <4>2. n' \in 0..MaxReinitFailures /\ unserved' \in Nat
            /\ unserved' <= MaxReinitFailures
        BY <3>1, <3>2, MaxAssumption
      <4>3. QED
        BY <4>1, <4>2 DEF Accounting
    <3>4. CASE ~BudgetSpent(n + 1)
      <4>1. closed' = closed
        BY <3>1, <3>4
      <4>2. n' \in 0..MaxReinitFailures /\ unserved' \in Nat
            /\ unserved' <= MaxReinitFailures
            /\ n' < MaxReinitFailures /\ unserved' = n' + 0
        BY <3>1, <3>2, <3>4, MaxAssumption DEF BudgetSpent
      <4>3. QED
        BY <1>1, <4>1, <4>2 DEF Accounting, IInv, TypeOK
    <3>5. QED
      BY <3>3, <3>4
  <2>4. QED
    BY <2>1, <2>2, <2>3
<1>7. TypeOK'
  BY <1>1, <1>3, <1>6 DEF FinishReinit, IInv, TypeOK, dialVars
<1>8. QED
  BY <1>4, <1>5, <1>6, <1>7 DEF IInv

(* The end of fs.readFile.                                                 *)
LEMMA KeyReadStep ==
  ASSUME IInv, NEW p \in Callers, KeyRead(p)
  PROVE  IInv'
<1> DEFINE at == call[p].at
           r  == call[p].retriesLeft
<1>1. UNCHANGED <<fixedVars, connected, reinitVars>> /\ call[p].pc = "readKey"
  BY DEF KeyRead
<1>2. /\ at \in {"public", "first", "retry", "reinit"}
      /\ r \in {0, 1}
      /\ at \in {"retry", "reinit"} => r = 1
  BY DEF IInv, TypeOK, CallShape, CallState
<1>3. \E pc \in {"connecting", "failed"}, on \in Clients \cup {None} :
        Put(p, pc, at, on, r)
  BY DEF KeyRead, IInv, TypeOK
<1>4. PICK pc \in {"connecting", "failed"}, on \in Clients \cup {None} :
        Put(p, pc, at, on, r)
  BY <1>3
<1>5. [pc |-> pc, at |-> at, on |-> on, retriesLeft |-> r] \in CallState
  BY <1>2 DEF CallState
<1>6. /\ call' \in [Callers -> CallState]
      /\ CallShape'
      /\ \A q \in Callers : call'[q].at = IF q = p THEN at ELSE call[q].at
  BY <1>1, <1>2, <1>4, <1>5, PutShape DEF fixedVars
<1>7. connectingPromise' \in Clients \cup {None} /\ cl' \in [Clients -> ClientState]
  BY ClientOps DEF KeyRead, IInv, TypeOK, dialVars
<1>8. QED
  BY <1>1, <1>6, <1>7 DEF IInv, TypeOK, ReinitSerialized, Accounting, fixedVars, reinitVars

(* An event of a client: whoever waited for it resumes where it was.       *)
LEMMA EventStep ==
  ASSUME IInv, NEW k \in Clients,
         cl' \in [Clients -> ClientState], connected' \in BOOLEAN,
         UNCHANGED <<fixedVars, reinitVars>>,
         \/ UNCHANGED <<call, connectingPromise>>
         \/ \E result \in {"ok", "failed"} : Settle(k, result)
  PROVE  IInv'
<1>1. CASE UNCHANGED <<call, connectingPromise>>
  BY <1>1 DEF IInv, TypeOK, ReinitSerialized, CallShape, Accounting, fixedVars, reinitVars
<1>2. CASE \E result \in {"ok", "failed"} : Settle(k, result)
  <2>1. PICK result \in {"ok", "failed"} : Settle(k, result)
    BY <1>2
  <2>2. \A p \in Callers :
          call'[p] = IF Awaits(p, k)
                     THEN [call[p] EXCEPT !.pc = result, !.on = None] ELSE call[p]
    BY <2>1 DEF Settle
  <2>3. call' \in [Callers -> CallState]
    <3>1. \A p \in Callers : call'[p] \in CallState
      <4> SUFFICES ASSUME NEW p \in Callers PROVE call'[p] \in CallState
        OBVIOUS
      <4>1. call[p] \in CallState
        BY DEF IInv, TypeOK
      <4>2. QED
        BY <2>2, <4>1 DEF CallState
    <3>2. QED
      BY <2>1, <3>1 DEF Settle
  <2>4. \A p \in Callers : /\ call'[p].at = call[p].at
                           /\ call'[p].retriesLeft = call[p].retriesLeft
                           /\ call'[p].pc = call[p].pc \/ call'[p].pc = result
    BY <2>2 DEF IInv, TypeOK, CallState
  <2>5. CallShape'
    BY <2>4 DEF IInv, CallShape, fixedVars
  <2>6. connectingPromise' \in Clients \cup {None}
    BY <2>1 DEF Settle, PromiseAfter, IInv, TypeOK
  <2>7. QED
    BY <2>3, <2>4, <2>5, <2>6
    DEF IInv, TypeOK, ReinitSerialized, Accounting, fixedVars, reinitVars
<1>3. QED
  BY <1>1, <1>2

-----------------------------------------------------------------------------
(* Every step keeps the invariant.                                         *)
LEMMA Inductive == IInv /\ [Next]_vars => IInv'
<1> SUFFICES ASSUME IInv, [Next]_vars PROVE IInv'
  OBVIOUS
<1>1. ASSUME NEW p \in Callers, CallInitialize(p) PROVE IInv'
  <2>1. call[p].at # "reinit"
    BY <1>1 DEF CallInitialize, IInv, CallShape
  <2>2. QED
    BY <1>1, <2>1, InitializeStep DEF CallInitialize
<1>2. ASSUME NEW p \in Callers, CallConnect(p) PROVE IInv'
  <2>1. call[p].at # "reinit"
    BY <1>2 DEF CallConnect, IInv, CallShape
  <2>2. QED
    BY <1>2, <2>1, AttemptStep DEF CallConnect
<1>3. ASSUME NEW p \in Callers, FinishReinit(p) PROVE IInv'
  BY <1>3, FinishReinitStep
<1>4. ASSUME NEW p \in Callers, UseReinit(p) PROVE IInv'
  <2>1. call[p].at = "retry" /\ call[p].retriesLeft = 1
    BY <1>4 DEF UseReinit, IInv, CallShape
  <2>2. QED
    BY <1>4, <2>1, InitializeStep DEF UseReinit
<1>5. ASSUME NEW p \in Callers, TryAgain(p) PROVE IInv'
  <2>1. call[p].at = "retry" /\ RetriesAfter(call[p].retriesLeft) = 0
    BY <1>5 DEF TryAgain, IInv, CallShape, RetriesAfter
  <2>2. QED
    BY <1>5, <2>1, AttemptStep DEF TryAgain
<1>6. ASSUME NEW p \in Callers, ForwardOut(p) PROVE IInv'
  <2>1. CASE cl[sshClient].sock = "up"
    <3>1. call[p].at = "first" /\ UNCHANGED agentVars
          /\ Put(p, "forwarding", "first", sshClient, call[p].retriesLeft)
      BY <1>6, <2>1 DEF ForwardOut
    <3>2. [pc |-> "forwarding", at |-> "first", on |-> sshClient,
           retriesLeft |-> call[p].retriesLeft] \in CallState
      BY DEF IInv, TypeOK, CallState
    <3>3. /\ call' \in [Callers -> CallState]
          /\ CallShape'
          /\ \A q \in Callers : call'[q].at = IF q = p THEN "first" ELSE call[q].at
      BY <3>1, <3>2, PutShape DEF agentVars, fixedVars
    <3>4. QED
      BY <3>1, <3>3 DEF IInv, TypeOK, ReinitSerialized, Accounting,
                        agentVars, fixedVars, dialVars, reinitVars
  <2>2. CASE cl[sshClient].sock # "up"
    BY <1>6, <2>2, RetryStep DEF ForwardOut
  <2>3. QED
    BY <2>1, <2>2
<1>7. ASSUME NEW p \in Callers, InitializeFailed(p) PROVE IInv'
  BY <1>7, RetryStep DEF InitializeFailed
<1>8. ASSUME NEW p \in Callers, Return(p) \/ ForwardSettled(p) PROVE IInv'
  <2>1. call' = [call EXCEPT ![p] = Idle] /\ UNCHANGED agentVars
        /\ call[p].at # "reinit"
    BY <1>8 DEF Return, ForwardSettled, IInv, CallShape
  <2>2. Put(p, "idle", "public", None, 0)
    BY <2>1 DEF Put, Idle
  <2>3. [pc |-> "idle", at |-> "public", on |-> None, retriesLeft |-> 0] \in CallState
    BY DEF CallState
  <2>4. /\ call' \in [Callers -> CallState]
        /\ CallShape'
        /\ \A q \in Callers : call'[q].at = IF q = p THEN "public" ELSE call[q].at
    BY <2>1, <2>2, <2>3, PutShape DEF agentVars, fixedVars
  <2>5. QED
    BY <2>1, <2>4 DEF IInv, TypeOK, ReinitSerialized, Accounting,
                      agentVars, fixedVars, dialVars, reinitVars
<1>9. ASSUME NEW p \in Callers, ForwardFails(p) PROVE IInv'
  <2>1. call[p].at = "first"
    BY <1>9 DEF ForwardFails, IInv, CallShape
  <2>2. QED
    BY <1>9, <2>1, RetryStep DEF ForwardFails
<1>10. ASSUME NEW p \in Callers, KeyRead(p) PROVE IInv'
  BY <1>10, KeyReadStep
<1>11. CASE Destroy
  <2>1. cl' \in [Clients -> ClientState]
    BY <1>11, ClientOps DEF Destroy, IInv, TypeOK
  <2>2. QED
    BY <1>11, <2>1 DEF Destroy, IInv, TypeOK, ReinitSerialized, CallShape,
                       Accounting, reinitVars
<1>12. ASSUME NEW k \in Clients, Ready(k) \/ ErrorEvent(k) \/ Drop(k) \/ CloseEvent(k)
       PROVE  IInv'
  <2>1. cl' \in [Clients -> ClientState] /\ connected' \in BOOLEAN
    <3>1. CASE Ready(k)
      BY <3>1 DEF Ready, IInv, TypeOK, ClientState
    <3>2. CASE ErrorEvent(k)
      BY <3>2, ClientOps DEF ErrorEvent, IInv, TypeOK
    <3>3. CASE Drop(k)
      BY <3>3, ClientOps DEF Drop, IInv, TypeOK
    <3>4. CASE CloseEvent(k)
      <4>1. [sock |-> cl[k].sock, closing |-> FALSE, again |-> FALSE] \in ClientState
        BY DEF IInv, TypeOK, ClientState
      <4>2. QED
        BY <3>4, <4>1, ClientOps DEF CloseEvent, IInv, TypeOK
    <3>5. QED
      BY <1>12, <3>1, <3>2, <3>3, <3>4
  <2>2. /\ UNCHANGED <<fixedVars, reinitVars>>
        /\ \/ UNCHANGED <<call, connectingPromise>>
           \/ \E result \in {"ok", "failed"} : Settle(k, result)
    BY <1>12 DEF Ready, ErrorEvent, Drop, CloseEvent
  <2>3. QED
    BY <2>1, <2>2, EventStep
<1>13. CASE UNCHANGED vars
  BY <1>13 DEF IInv, TypeOK, ReinitSerialized, CallShape, Accounting,
               vars, agentVars, fixedVars, dialVars, reinitVars
<1>14. QED
  BY <1>1, <1>2, <1>3, <1>4, <1>5, <1>6, <1>7, <1>8, <1>9, <1>10, <1>11,
     <1>12, <1>13 DEF Next, Continue, Answer

LEMMA Initially == Init => IInv
<1> SUFFICES ASSUME Init PROVE IInv
  OBVIOUS
<1>1. NewClient \in ClientState /\ Idle \in CallState
  BY DEF NewClient, ClientState, Idle, CallState
<1>2. TypeOK
  <2>1. keyFile \in BOOLEAN /\ closed \in BOOLEAN /\ connected \in BOOLEAN
    BY KeyFileAssumption DEF Init
  <2>2. consecutiveReinitFailures \in 0..MaxReinitFailures /\ unserved \in Nat
    BY MaxAssumption DEF Init
  <2>3. cl \in [Clients -> ClientState] /\ call \in [Callers -> CallState]
    BY <1>1 DEF Init
  <2>4. QED
    BY <2>1, <2>2, <2>3 DEF Init, TypeOK
<1>3. ReinitSerialized /\ CallShape
  BY CallersAssumption DEF Init, Idle, ReinitSerialized, CallShape
<1>4. Accounting
  BY MaxAssumption DEF Init, Accounting
<1>5. QED
  BY <1>2, <1>3, <1>4 DEF IInv

LEMMA Invariance == Spec => []IInv
BY Initially, Inductive, PTL DEF Spec

(* Every variable keeps to its kind; in particular the count of failures   *)
(* never passes the limit.                                                 *)
THEOREM TypeCorrect == Spec => []TypeOK
BY Invariance, PTL DEF IInv

(* Whatever the callers do, one of them at most is inside _doReinit.       *)
THEOREM OneReinit == Spec => []ReinitSerialized
BY Invariance, PTL DEF IInv

(* Whatever the number of callers that retry, no more than                 *)
(* MaxReinitFailures clients are created without one that came up.         *)
THEOREM Budget == Spec => []ReinitBudget
<1>1. IInv => ReinitBudget
  BY DEF IInv, Accounting, ReinitBudget
<1>2. QED
  BY <1>1, Invariance, PTL

-----------------------------------------------------------------------------
(* No step of a closed agent without a key file registers an attempt.      *)
LEMMA ClosedStep ==
  IInv /\ [Next]_vars =>
    (closed /\ ~keyFile => connectingPromise' \in {connectingPromise, None})
<1> SUFFICES ASSUME IInv, [Next]_vars, closed, ~keyFile
             PROVE  connectingPromise' \in {connectingPromise, None}
  OBVIOUS
<1>1. ~MayDial
  BY DEF MayDial
<1>2. ASSUME NEW p \in Callers, NEW at, NEW r, InitializeFresh(p, at, r)
      PROVE  connectingPromise' = connectingPromise
  BY <1>1, <1>2 DEF InitializeFresh, dialVars
<1>3. ASSUME NEW p \in Callers, NEW at, NEW r, Initialize(p, at, r)
      PROVE  connectingPromise' = connectingPromise
  BY <1>2, <1>3 DEF Initialize, dialVars
<1>4. ASSUME NEW p \in Callers, NEW new \in BOOLEAN, Retry(p, new)
      PROVE  connectingPromise' = connectingPromise
  <2>1. CASE UNCHANGED dialVars
    BY <2>1 DEF dialVars
  <2>2. CASE Reinitialize(p, call[p].retriesLeft)
    BY <1>1, <2>2 DEF Reinitialize, dialVars
  <2>3. CASE InitializeFresh(p, "retry", call[p].retriesLeft)
    BY <1>2, <2>3
  <2>4. QED
    BY <1>4, <2>1, <2>2, <2>3 DEF Retry
<1>5. ASSUME NEW p \in Callers, KeyRead(p)
      PROVE  FALSE
  BY <1>5 DEF KeyRead, IInv, CallShape
<1>6. ASSUME NEW p \in Callers, Continue(p) \/ ForwardSettled(p) \/ ForwardFails(p)
      PROVE  connectingPromise' = connectingPromise
  BY <1>3, <1>4, <1>6
  DEF Attempt, Continue, FinishReinit, UseReinit, TryAgain, ForwardOut, InitializeFailed,
      Return, ForwardSettled, ForwardFails, agentVars, dialVars
<1>7. ASSUME NEW k \in Clients, Ready(k) \/ ErrorEvent(k) \/ Drop(k) \/ CloseEvent(k)
      PROVE  connectingPromise' \in {connectingPromise, None}
  BY <1>7 DEF Ready, ErrorEvent, Drop, CloseEvent, Settle, PromiseAfter
<1>8. QED
  BY <1>3, <1>5, <1>6, <1>7
  DEF Attempt, Next, Answer, CallInitialize, CallConnect, Destroy, vars, agentVars, dialVars

(* Once closed, for good or by destroy(), an agent without a key file never*)
(* dials again: what the comment at ssh.ts:90 promises, for any number of  *)
(* callers in any state.  With a key file it does not hold (MCSshAgent).   *)
THEOREM ClosedForGood == Spec => NoDialOnceClosedNoKey
<1>1. IInv /\ [Next]_vars =>
        [closed /\ ~keyFile =>
           connectingPromise' \in {connectingPromise, None}]_vars
  BY ClosedStep
<1>2. QED
  BY <1>1, Invariance, PTL DEF Spec, NoDialOnceClosedNoKey

-----------------------------------------------------------------------------
(* What calls wait for.  An event of client c is to come: it is dialling, or *)
(* its socket was closed and the close event has not been.                   *)
EventToCome(c) == c.sock = "dialling" \/ (c.sock = "idle" /\ c.closing)

Waiting ==
  ~SilentClose => \A p \in Callers : call[p].pc = "connecting" =>
                    call[p].on \in Clients /\ EventToCome(cl[call[p].on])

Pending == AttemptIsPending /\ Waiting

LEMMA EventOps ==
  ASSUME NEW c \in ClientState
  PROVE  /\ EventToCome(c) => EventToCome(Ended(c))
         /\ EventToCome(Dialled(c))
BY DEF ClientState, EventToCome, Ended, Dialled

(* A call that waited for no client moves on.                              *)
LEMMA PutPending ==
  ASSUME IInv, Pending, NEW p \in Callers, NEW pc, NEW at, NEW on, NEW r,
         Put(p, pc, at, on, r), call[p].pc # "connecting",
         \/ connectingPromise' \in {connectingPromise, None}
         \/ pc = "connecting" /\ connectingPromise' = on,
         \A k \in Clients : EventToCome(cl[k]) => EventToCome(cl'[k]),
         pc = "connecting" /\ ~SilentClose => on \in Clients /\ EventToCome(cl'[on])
  PROVE  Pending'
<1>1. /\ \A q \in Callers : q # p => call'[q] = call[q]
      /\ call'[p] = [pc |-> pc, at |-> at, on |-> on, retriesLeft |-> r]
      BY DEF IInv, TypeOK, Put
<1>2. AttemptIsPending'
      BY <1>1 DEF Pending, AttemptIsPending, Awaits
<1>3. Waiting'
      BY <1>1 DEF Pending, Waiting
<1>4. QED BY <1>2, <1>3 DEF Pending

LEMMA EstablishPending ==
  ASSUME IInv, Pending, NEW p \in Callers, NEW at, NEW r, NEW k \in Clients,
         NEW clients \in [Clients -> ClientState], Establish(p, at, r, k, clients),
         call[p].pc # "connecting",
         \A j \in Clients : EventToCome(cl[j]) => EventToCome(clients[j])
  PROVE  Pending'
<1>1. CASE keyFile
      BY <1>1, PutPending DEF Establish
<1>2. CASE ~keyFile
  <2>1. /\ Put(p, "connecting", at, k, r) /\ connectingPromise' = k
        /\ cl' = [clients EXCEPT ![k] = Dialled(@)]
        BY <1>2 DEF Establish
  <2>2. EventToCome(cl'[k])
    <3>1. cl'[k] = Dialled(clients[k]) /\ clients[k] \in ClientState
          BY <2>1
    <3>2. QED BY <3>1, EventOps
  <2>3. \A j \in Clients : EventToCome(cl[j]) => EventToCome(cl'[j])
        BY <2>1, <2>2
  <2>4. QED BY <2>1, <2>2, <2>3, PutPending
<1>3. QED BY <1>1, <1>2

LEMMA FreshPending ==
  ASSUME IInv, Pending, NEW p \in Callers, NEW at, NEW r, InitializeFresh(p, at, r),
         call[p].pc # "connecting"
  PROVE  Pending'
<1>1. CASE connectingPromise # None
  <2>1. Put(p, "connecting", at, connectingPromise, r) /\ UNCHANGED <<connectingPromise, cl>>
        BY <1>1 DEF InitializeFresh, dialVars
  <2>2. ~SilentClose => connectingPromise \in Clients /\ EventToCome(cl[connectingPromise])
        BY <1>1 DEF Pending, AttemptIsPending, Waiting, Awaits
  <2>3. QED BY <2>1, <2>2, PutPending
<1>2. CASE connectingPromise = None /\ ~MayDial
  <2>1. Put(p, "failed", at, None, r) /\ UNCHANGED <<connectingPromise, cl>>
        BY <1>2 DEF InitializeFresh, dialVars
  <2>2. QED BY <2>1, PutPending
<1>3. CASE connectingPromise = None /\ MayDial
  <2>1. Establish(p, at, r, sshClient, cl) /\ sshClient \in Clients
        /\ cl \in [Clients -> ClientState]
        BY <1>3 DEF InitializeFresh, IInv, TypeOK
  <2>2. QED BY <2>1, EstablishPending
<1>4. QED BY <1>1, <1>2, <1>3

LEMMA AttemptPending ==
  ASSUME IInv, Pending, NEW p \in Callers, NEW at, NEW r,
         Initialize(p, at, r) \/ Attempt(p, r), call[p].pc # "connecting"
  PROVE  Pending'
<1>1. ASSUME NEW place, Initialize(p, place, r)
      PROVE  Pending'
  <2>1. CASE connected
    <3>1. Put(p, "ok", place, None, r) /\ UNCHANGED <<connectingPromise, cl>>
          BY <1>1, <2>1 DEF Initialize, dialVars
    <3>2. QED BY <3>1, PutPending
  <2>2. CASE ~connected
        BY <1>1, <2>2, FreshPending DEF Initialize
  <2>3. QED BY <2>1, <2>2
<1>2. CASE Put(p, "failed", "first", None, r) /\ UNCHANGED agentVars
      BY <1>2, PutPending DEF agentVars, dialVars
<1>3. QED BY <1>1, <1>2 DEF Attempt

LEMMA RetryPending ==
  ASSUME IInv, Pending, NEW p \in Callers, NEW new \in BOOLEAN, Retry(p, new),
         call[p].pc # "connecting"
  PROVE  Pending'
<1>1. CASE call' = [call EXCEPT ![p] = Idle] /\ UNCHANGED dialVars
  <2>1. Put(p, "idle", "public", None, 0) /\ UNCHANGED <<connectingPromise, cl>>
        BY <1>1 DEF Put, Idle, dialVars
  <2>2. QED BY <2>1, PutPending
<1>2. CASE InitializeFresh(p, "retry", call[p].retriesLeft)
      BY <1>2, FreshPending
<1>3. ASSUME NEW r, Reinitialize(p, r)
      PROVE  Pending'
  <2>1. CASE UNCHANGED dialVars /\ (Put(p, "failed", "retry", None, r)
                                    \/ Put(p, "waitReinit", "retry", None, r))
        BY <2>1, PutPending DEF dialVars
  <2>2. ASSUME NEW k \in Clients,
               Establish(p, "reinit", r, k, [cl EXCEPT ![sshClient] = Ended(@)])
        PROVE  Pending'
    <3>1. cl \in [Clients -> ClientState] /\ sshClient \in Clients
          BY DEF IInv, TypeOK
    <3>2. [cl EXCEPT ![sshClient] = Ended(@)] \in [Clients -> ClientState]
          BY <3>1, ClientOps
    <3>3. \A j \in Clients : EventToCome(cl[j]) =>
            EventToCome([cl EXCEPT ![sshClient] = Ended(@)][j])
          BY <3>1, EventOps
    <3>4. QED BY <2>2, <3>2, <3>3, EstablishPending
  <2>3. QED BY <1>3, <2>1, <2>2 DEF Reinitialize
<1>4. QED BY <1>1, <1>2, <1>3 DEF Retry

(* Somebody who waits for client k goes on, and so does everybody who does. *)
LEMMA SettlePending ==
  ASSUME IInv, Pending, NEW k \in Clients, NEW result \in {"ok", "failed"},
         Settle(k, result), \A j \in Clients \ {k} : cl'[j] = cl[j]
  PROVE  Pending'
<1>1. \A q \in Callers : IF Awaits(q, k) THEN call'[q].pc = result ELSE call'[q] = call[q]
  <2> SUFFICES ASSUME NEW q \in Callers, Awaits(q, k)
               PROVE  call'[q].pc = result
      BY DEF Settle
  <2>1. call'[q] = [call[q] EXCEPT !.pc = result, !.on = None] /\ call[q] \in CallState
        BY DEF Settle, IInv, TypeOK
  <2>2. QED BY <2>1 DEF CallState
<1>2. AttemptIsPending'
  <2>1. CASE \E q \in Callers : Awaits(q, k)
        BY <2>1 DEF Settle, PromiseAfter, AttemptIsPending
  <2>2. CASE ~\E q \in Callers : Awaits(q, k)
        BY <1>1, <2>2 DEF Settle, PromiseAfter, AttemptIsPending, Awaits, Pending
  <2>3. QED BY <2>1, <2>2
<1>3. Waiting'
  <2> SUFFICES ASSUME ~SilentClose, NEW q \in Callers, call'[q].pc = "connecting"
               PROVE  call'[q].on \in Clients /\ EventToCome(cl'[call'[q].on])
      BY DEF Waiting
  <2>1. ~Awaits(q, k) /\ call'[q] = call[q]
        BY <1>1
  <2>2. call[q].on \in Clients \ {k} /\ EventToCome(cl[call[q].on])
        BY <2>1 DEF Awaits, Pending, Waiting
  <2>3. QED BY <2>1, <2>2
<1>4. QED BY <1>2, <1>3 DEF Pending

(* Nobody's call changes, and whoever waits for a client goes on waiting.  *)
LEMMA SamePending ==
  ASSUME IInv, Pending, UNCHANGED <<call, connectingPromise>>,
         \A p \in Callers, k \in Clients :
           ~SilentClose /\ Awaits(p, k) /\ EventToCome(cl[k]) => EventToCome(cl'[k])
  PROVE  Pending'
<1>1. AttemptIsPending'
      BY DEF Pending, AttemptIsPending, Awaits
<1>2. Waiting'
      BY DEF Pending, Waiting, Awaits
<1>3. QED BY <1>1, <1>2 DEF Pending

LEMMA EventPending ==
  ASSUME IInv, Pending, NEW k \in Clients,
         Ready(k) \/ ErrorEvent(k) \/ Drop(k) \/ CloseEvent(k)
  PROVE  Pending'
<1>0. cl \in [Clients -> ClientState]
      BY DEF IInv, TypeOK
<1>1. CASE Ready(k)
      BY <1>0, <1>1, SettlePending DEF Ready
<1>2. CASE ErrorEvent(k)
      BY <1>0, <1>2, SettlePending DEF ErrorEvent
<1>3. CASE Drop(k)
  <2>1. cl' = [cl EXCEPT ![k] = Ended(@)] /\ UNCHANGED <<call, connectingPromise>>
        BY <1>3 DEF Drop
  <2>2. \A j \in Clients : EventToCome(cl[j]) => EventToCome(cl'[j])
        BY <1>0, <2>1, EventOps
  <2>3. QED BY <2>1, <2>2, SamePending
<1>4. CASE CloseEvent(k)
  <2> DEFINE c == [sock |-> cl[k].sock, closing |-> FALSE, again |-> FALSE]
  <2>1. /\ UNCHANGED <<call, connectingPromise>>
        /\ cl'[k] = IF cl[k].again THEN Dialled(c) ELSE c
        /\ \A j \in Clients : j # k => cl'[j] = cl[j]
        BY <1>0, <1>4 DEF CloseEvent
  <2>2. c \in ClientState /\ c.sock = cl[k].sock
        BY <1>0 DEF ClientState
  <2>3. ASSUME NEW p \in Callers, ~SilentClose, Awaits(p, k), EventToCome(cl[k])
        PROVE  EventToCome(cl'[k])
    <3>1. CASE cl[k].again
          BY <2>1, <2>2, <3>1, EventOps
    <3>2. CASE ~cl[k].again
      <4>1. cl[k].sock # "idle"
            BY <1>4, <2>3, <3>2 DEF CloseEvent
      <4>2. QED BY <2>1, <2>2, <2>3, <3>2, <4>1 DEF EventToCome
    <3>3. QED BY <3>1, <3>2
  <2> HIDE DEF c
  <2>4. QED BY <2>1, <2>3, SamePending
<1>5. QED BY <1>1, <1>2, <1>3, <1>4

LEMMA PendingNext == IInv /\ Pending /\ [Next]_vars => Pending'
<1> SUFFICES ASSUME IInv, Pending, [Next]_vars
             PROVE  Pending'
    OBVIOUS
<1>1. ASSUME NEW p \in Callers,
             \/ CallInitialize(p) \/ CallConnect(p) \/ UseReinit(p) \/ TryAgain(p)
      PROVE  Pending'
      BY <1>1, AttemptPending DEF CallInitialize, CallConnect, UseReinit, TryAgain
<1>2. ASSUME NEW p \in Callers, FinishReinit(p)
      PROVE  Pending'
  <2>1. \A q \in Callers : /\ call[q].pc = "connecting" => call'[q] = call[q]
                           /\ call'[q].pc = "connecting" => call'[q] = call[q]
    <3> SUFFICES ASSUME NEW q \in Callers
                 PROVE  /\ call[q].pc = "connecting" => call'[q] = call[q]
                        /\ call'[q].pc = "connecting" => call'[q] = call[q]
        OBVIOUS
    <3>1. call[q] \in CallState
          BY DEF IInv, TypeOK
    <3>2. CASE q = p
          BY <1>2, <3>1, <3>2 DEF FinishReinit, CallState
    <3>3. CASE q # p /\ call[q].pc = "waitReinit"
          BY <1>2, <3>1, <3>3 DEF FinishReinit, CallState
    <3>4. CASE q # p /\ call[q].pc # "waitReinit"
          BY <1>2, <3>4 DEF FinishReinit
    <3>5. QED BY <3>2, <3>3, <3>4
  <2>2. UNCHANGED <<connectingPromise, cl>>
        BY <1>2 DEF FinishReinit, dialVars
  <2>3. AttemptIsPending'
        BY <2>1, <2>2 DEF Pending, AttemptIsPending, Awaits
  <2>4. Waiting'
        BY <2>1, <2>2 DEF Pending, Waiting
  <2>5. QED BY <2>3, <2>4 DEF Pending
<1>3. ASSUME NEW p \in Callers, ForwardOut(p)
      PROVE  Pending'
  <2>1. CASE Retry(p, FALSE)
        BY <1>3, <2>1, RetryPending DEF ForwardOut
  <2>2. CASE Put(p, "forwarding", "first", sshClient, call[p].retriesLeft)
             /\ UNCHANGED agentVars
        BY <1>3, <2>2, PutPending DEF ForwardOut, agentVars, dialVars
  <2>3. QED BY <1>3, <2>1, <2>2 DEF ForwardOut
<1>4. ASSUME NEW p \in Callers, InitializeFailed(p) \/ ForwardFails(p)
      PROVE  Pending'
      BY <1>4, RetryPending DEF InitializeFailed, ForwardFails
<1>5. ASSUME NEW p \in Callers, Return(p) \/ ForwardSettled(p)
      PROVE  Pending'
  <2>1. /\ Put(p, "idle", "public", None, 0) /\ call[p].pc # "connecting"
        /\ UNCHANGED <<connectingPromise, cl>>
        BY <1>5 DEF Return, ForwardSettled, Put, Idle, agentVars, dialVars
  <2>2. QED BY <2>1, PutPending
<1>6. ASSUME NEW p \in Callers, KeyRead(p)
      PROVE  Pending'
  <2>1. CASE Put(p, "failed", call[p].at, None, call[p].retriesLeft) /\ UNCHANGED dialVars
        BY <1>6, <2>1, PutPending DEF KeyRead, dialVars
  <2>2. CASE ~(Put(p, "failed", call[p].at, None, call[p].retriesLeft)
               /\ UNCHANGED dialVars)
    <3>1. /\ Put(p, "connecting", call[p].at, sshClient, call[p].retriesLeft)
          /\ connectingPromise' = sshClient /\ sshClient \in Clients
          /\ cl \in [Clients -> ClientState]
          /\ cl' = [cl EXCEPT ![sshClient] = Dialled(@)]
          BY <1>6, <2>2 DEF KeyRead, IInv, TypeOK
    <3>2. EventToCome(cl'[sshClient])
          BY <3>1, EventOps
    <3>3. \A j \in Clients : EventToCome(cl[j]) => EventToCome(cl'[j])
          BY <3>1, <3>2
    <3>4. QED BY <1>6, <3>1, <3>2, <3>3, PutPending DEF KeyRead
  <2>3. QED BY <2>1, <2>2
<1>7. CASE Destroy
  <2>1. /\ cl \in [Clients -> ClientState] /\ sshClient \in Clients
        /\ cl' = [cl EXCEPT ![sshClient] = Ended(@)]
        /\ UNCHANGED <<call, connectingPromise>>
        BY <1>7 DEF Destroy, IInv, TypeOK
  <2>2. \A j \in Clients : EventToCome(cl[j]) => EventToCome(cl'[j])
        BY <2>1, EventOps
  <2>3. QED BY <2>1, <2>2, SamePending
<1>8. ASSUME NEW k \in Clients, Ready(k) \/ ErrorEvent(k) \/ Drop(k) \/ CloseEvent(k)
      PROVE  Pending'
      BY <1>8, EventPending
<1>9. CASE UNCHANGED vars
      BY <1>9, SamePending DEF vars, agentVars, dialVars
<1>10. QED BY <1>1, <1>2, <1>3, <1>4, <1>5, <1>6, <1>7, <1>8, <1>9
           DEF Next, Continue, Answer

LEMMA PendingInvariance == Spec => []Pending
<1>1. Init => Pending
      BY DEF Init, Idle, Pending, AttemptIsPending, Waiting
<1>2. QED BY <1>1, PendingNext, Invariance, PTL DEF Spec

(* initialize() never joins an attempt that is over: connectingPromise is  *)
(* that of an attempt somebody still waits for, although the call that made*)
(* it clears it after a reinitialization may have set it for another one.  *)
THEOREM NoStaleAttempt == Spec => []AttemptIsPending
<1>1. Pending => AttemptIsPending
      BY DEF Pending
<1>2. QED BY <1>1, PendingInvariance, PTL

(* If ssh2 reports the end of every attempt, nobody waits for a client that *)
(* has nothing more to say, whoever ended or replaced it.                   *)
THEOREM NobodyOrphaned == ~SilentClose => (Spec => []NoOrphanedWait)
<1> SUFFICES ASSUME ~SilentClose
             PROVE  Spec => []NoOrphanedWait
    OBVIOUS
<1>1. Pending => NoOrphanedWait
      BY DEF Pending, Waiting, NoOrphanedWait, EventToCome
<1>2. QED BY <1>1, PendingInvariance, PTL
=============================================================================
