-------------------------------- MODULE MCCache --------------------------------
(* Small instances of RegistryCache. *)
EXTENDS RegistryCache, TLC

Symmetric == Permutations(Procs)
================================================================================
