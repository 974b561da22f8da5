---------------------------- MODULE MC_EtcdClient ----------------------------
(* Instantiates EtcdClient for TLC. *)
EXTENDS EtcdClient, MCEtcdConfigs
=============================================================================
