-------------------------------- MODULE MCStore --------------------------------
(* Small instances of ContentStore: two providers that share an object. *)
EXTENDS ContentStore, TLC

CONSTANTS o1, o2, a, b

SharedObject == (a :> {o1, o2}) @@ (b :> {o2})

Symmetric == Permutations(Procs)
================================================================================
