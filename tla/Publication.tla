----------------------------- MODULE Publication -----------------------------
(***************************************************************************)
(* What mongodb-downloader promises to those who share a directory: it is  *)
(* prepared in whatever order of failures and attempts, published once,    *)
(* when it is whole, and from then on stays as it is; nobody is told that  *)
(* it is there before that.                                                *)
(***************************************************************************)
CONSTANT Users

VARIABLES
  content,      \* of the directory: "none", "partial" or "whole"
  published,    \* may it be used?
  told          \* told[u]: what user u was told last

vars == <<content, published, told>>

Init ==
  /\ content = "none"
  /\ published = FALSE
  /\ told = [u \in Users |-> "none"]

Prepare ==
  /\ ~published
  /\ content' \in {"partial", "whole"}
  /\ UNCHANGED <<published, told>>

Publish(u) ==
  /\ ~published
  /\ content = "whole"
  /\ published' = TRUE
  /\ told' = [told EXCEPT ![u] = "ok"]
  /\ UNCHANGED content

(* A user learns that it is there or that this attempt failed, or asks      *)
(* again.                                                                   *)
Tell(u) ==
  /\ \E r \in {"none", "error"} \cup (IF published THEN {"ok"} ELSE {}) :
       told' = [told EXCEPT ![u] = r]
  /\ UNCHANGED <<content, published>>

Next == Prepare \/ \E u \in Users : Publish(u) \/ Tell(u)

Spec == Init /\ [][Next]_vars
=============================================================================
