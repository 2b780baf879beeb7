------------------------------- MODULE MCInstall -------------------------------
(* Small instances of InstallTransaction; the cfg files name the processes,  *)
(* locks and files.                                                         *)
EXTENDS InstallTransaction, TLC

\* Processes, locks and files are interchangeable in every safety property.
Symmetric == Permutations(Procs) \union Permutations(Locks) \union Permutations(Files)
================================================================================
