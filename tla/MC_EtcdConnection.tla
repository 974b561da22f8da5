-------------------------- MODULE MC_EtcdConnection --------------------------
(* Instantiates EtcdConnection for TLC. *)
EXTENDS EtcdConnection, MCEtcdConfigs
=============================================================================
