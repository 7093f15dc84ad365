---------------------------- MODULE MCDownloader ----------------------------
(* Processes that download one version at a time.                           *)
EXTENDS Downloader, TLC

Symmetry == Permutations(Procs)
=============================================================================
