---------------------------- MODULE MCConfigStore ----------------------------
(* ConfigStore with two processes and two profile names.                     *)
EXTENDS ConfigStore
=============================================================================
