-------------------------------- MODULE MCFetch --------------------------------
(* A small instance of ContainerFetch. *)
EXTENDS ContainerFetch
================================================================================
