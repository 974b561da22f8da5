---------------------------- MODULE MC_EtcdWatch ----------------------------
(* Instantiates EtcdWatch for TLC. *)
EXTENDS EtcdWatch
=============================================================================
