------------------------------- MODULE MCRfApp -------------------------------
(* RfApp for TLC, with the driver under it: timeouts of 300, 1000 and 2000 *)
(* polls become 2 and 3, as do the LED's periods of 1000 and 2000.         *)
EXTENDS RfApp

ShortTimeout ==
  [kind \in Kinds |-> IF kind \in {"read", "write", "query"} THEN 3 ELSE 2]
ShortPeriod == [connected |-> 3, disconnected |-> 2]
=============================================================================
