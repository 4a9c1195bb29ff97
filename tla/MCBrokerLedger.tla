--------------------------- MODULE MCBrokerLedger ---------------------------
(***************************************************************************)
(* Instances of BrokerLedger for TLC.                                      *)
(***************************************************************************)
EXTENDS BrokerLedger
=============================================================================
