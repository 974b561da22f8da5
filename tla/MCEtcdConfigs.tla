---------------------------- MODULE MCEtcdConfigs ----------------------------
(* Configuration snapshots given to load in the model-checking runs, with *)
(* options in section "etcd" and in the compat section "compat"; they     *)
(* reach every branch of load and of getConfigStringWithFallback.         *)
Ep == <<"10.0.0.1:2379">>

\* "endpoints = 10.0.0.1:2379" with and without TLS files, with only a
\* key file, with the key in [etcd] and certificate and CA in the compat
\* section, "endpoints = ," (only blank entries), SRV discovery configured
\* in the compat section, nothing.
MCConfigs ==
  { [etcd |-> [endpoints |-> Ep]],
    [etcd |-> [endpoints |-> Ep, clientkey |-> "key.pem",
               clientcert |-> "cert.pem", cacert |-> "ca.pem"]],
    [etcd |-> [endpoints |-> Ep, clientkey |-> "key.pem"]],
    [etcd |-> [endpoints |-> Ep, clientkey |-> "key.pem"],
     compat |-> [clientcert |-> "cert.pem", cacert |-> "ca.pem"]],
    [etcd |-> [endpoints |-> <<"", "">>, discoverysrv |-> "example.com"]],
    [etcd |-> [clientkey |-> "key.pem", clientcert |-> "cert.pem",
               cacert |-> "ca.pem"],
     compat |-> [discoverysrv |-> "example.com"]],
    [etcd |-> [discoverysrv |-> ""]] }

\* For WaitForConnection only a reload replacing the client and one leaving
\* the client unconfigured matter: a plain list, a TLS list, nothing.
MCConnectionConfigs ==
  { [etcd |-> [endpoints |-> Ep]],
    [etcd |-> [endpoints |-> Ep, clientkey |-> "key.pem",
               clientcert |-> "cert.pem", cacert |-> "ca.pem"]],
    [etcd |-> [discoverysrv |-> ""]] }
=============================================================================
