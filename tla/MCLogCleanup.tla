---------------------------- MODULE MCLogCleanup ----------------------------
(* Two processes clean up a directory of up to four files, one of them past *)
(* the retention period.                                                    *)
EXTENDS LogCleanup, TLC

(* Distinct stamps: file i was created in second i.                         *)
MCStamp == [f \in Files |-> f]
MCSize  == [f \in Files |-> IF f = 3 THEN 2 ELSE 1]

(* Files of the same second.                                                *)
MCSameSecond == [f \in Files |-> 1]

Symmetry == Permutations(Cleaners)
=============================================================================
