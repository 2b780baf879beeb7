------------------------------- MODULE MCExports -------------------------------
(* A provider of two files. *)
EXTENDS Exports, TLC

CONSTANTS a, x, y

MCContents == a :> {x, y}
=================================================================================
