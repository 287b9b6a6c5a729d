---------------------------- MODULE MCDeviceSync ----------------------------
(* Constants for model checking DeviceSync. *)
EXTENDS DeviceSync

CONSTANTS a, b, RowsOfA, RowsOfB

OneEach == [c \in Clients |-> c]

\* With no rows of its own a device only reads.
MCMaxRows == [d \in Devices |-> IF d = a THEN RowsOfA ELSE RowsOfB]
=============================================================================
