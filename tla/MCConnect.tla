------------------------------ MODULE MCConnect ------------------------------
(* devtools-connect: connectMongoClient, one call with every feature, and the *)
(* state share.  They share nothing that matters here: `part` names the one   *)
(* that takes steps, the other stays as it was.                               *)
EXTENDS DevtoolsConnect, TLC

CONSTANTS full, s1, s2

VARIABLE part

MCServersOf == full :> {s1, s2}
MCOptionsOf ==
  full :> [proxy : Proxies, proxyHost : BOOLEAN, fle : BOOLEAN, systemCA : {TRUE}]

PartInit ==
  /\ part \in {"connect", "share"}
  /\ Init /\ ShareInit
  /\ part = "share" => opt = CHOOSE o \in [Calls -> Options] :
                               \A c \in Calls : o[c] \in OptionsOf[c]

PartNext ==
  /\ UNCHANGED part
  /\ \/ part = "connect" /\ Next /\ UNCHANGED shareVars
     \/ part = "share" /\ ShareNext /\ UNCHANGED vars

\* Fairness, for the part that takes steps.
PartFairness ==
  /\ \A a \in Attempts : /\ WF_vars(part = "connect" /\ Step(a))
                         /\ \A r \in Runners : WF_vars(Cleanup(a, r))
                         /\ \A k \in Roles : WF_vars(ClientClosed(a, k))
  /\ ShareFairness

PartSpec == PartInit /\ [][PartNext]_<<part, vars, shareVars>> /\ PartFairness

\* Every connectMongoClient() ends, and so does a callback that is aborted.
BothSettle == ConnectSettles /\ AbortTakesEffect
=============================================================================
