-------------------------- MODULE MCStoreReconnect --------------------------
(* Constants for model checking StoreReconnect. *)
EXTENDS StoreReconnect

CONSTANTS c1, c2
=============================================================================
