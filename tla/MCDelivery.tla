------------------------------- MODULE MCDelivery -------------------------------
(* Small instances of Delivery: one snapshot of two packages with a common file. *)
EXTENDS Delivery, TLC

CONSTANTS a, b, x, s

MCSnapshotOf == (a :> s) @@ (b :> s)
MCContents == (a :> {x}) @@ (b :> {x})
=================================================================================
