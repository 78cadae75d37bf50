---------------------------- MODULE MCServoTime -----------------------------
(***************************************************************************)
(* Instances of ServoExchange.                                             *)
(***************************************************************************)
EXTENDS ServoExchange

TwoPorts ==
  {[tx_m |-> 0, rx_m |-> 0, tx_s |-> 0, rx_s |-> 0],
   [tx_m |-> 1, rx_m |-> 2, tx_s |-> 3, rx_s |-> 5]}
Asymmetries == {-1, 0, 1}

=============================================================================
