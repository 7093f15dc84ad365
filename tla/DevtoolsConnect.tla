--------------------------- MODULE DevtoolsConnect ---------------------------
(* devtools-connect: connectMongoClient(), and the state that the clients it *)
(* made share with other processes.                                          *)
EXTENDS Connect, StateShare

ConnectSpec == Spec /\ ShareSpec

\* The types of what connectMongoClient() (connect.ts) and the state share
\* (ipc-rpc-state-share.ts) keep.
ConnectTypeOK == TypeOK /\ ShareTypeOK
=============================================================================
