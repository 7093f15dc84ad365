----------------------------- MODULE MCSshAgent -----------------------------
(* SshAgent with two or three concurrent calls.  Clients are reused once    *)
(* they are silent: three of them let two superseded clients still be       *)
(* closing while a third one is dialled.                                    *)
EXTENDS SshAgent, TLC

Symmetry == Permutations(Callers) \cup Permutations(Clients)
=============================================================================
