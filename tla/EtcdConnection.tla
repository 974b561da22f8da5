---------------------------- MODULE EtcdConnection ----------------------------
(***************************************************************************)
(* EtcdClient.WaitForConnection (src/etcd_client.go) running beside the    *)
(* EtcdClient of module EtcdClient: a caller that has seen the client      *)
(* configured loops on syncClient, which reads the current client and      *)
(* syncs it with a one second timeout; on failure it sleeps waitDelay and  *)
(* doubles it up to maxWaitDelay.  A reload may close the client a sync is *)
(* running on, the cluster may be unreachable for a while, and Close may   *)
(* close the client for good.                                              *)
(*                                                                         *)
(* Durations are in units of initialWaitDelay's granularity.  The failure  *)
(* counter and the sleep total saturate at MaxSyncFailures, so the loop    *)
(* can keep failing while the state space stays finite.                    *)
(***************************************************************************)
EXTENDS Naturals, Sequences, FiniteSets

CONSTANTS
  Listeners, Configs, MaxLoads, MaxListenerOps, OneShot, CompatSection, ReloadAfterClose, NoClient,
  InitialWaitDelay,  \* initialWaitDelay
  MaxWaitDelay,      \* maxWaitDelay
  MaxSyncFailures,   \* failed syncs after which failures and elapsed stop counting
  MaxOutages         \* bound on the times the cluster becomes unreachable

ASSUME /\ InitialWaitDelay \in Nat \ {0}
       /\ MaxWaitDelay \in Nat /\ MaxWaitDelay >= InitialWaitDelay
       /\ MaxSyncFailures \in Nat /\ MaxOutages \in Nat

VARIABLES
  slot, clients, closed, lpc, newClient, loads, listeners, notifying, pending, told,
  listenerOps, getResult, shutdown,
  wpc,        \* where the caller of WaitForConnection is
  waitDelay,  \* waitDelay of WaitForConnection
  target,     \* the client syncClient read with getEtcdClient
  failures,   \* failed syncs so far (saturating)
  elapsed,    \* total time slept so far (saturating with failures)
  clusterUp,  \* a member with a leader is reachable
  outages     \* number of times the cluster became unreachable

clientVars == <<slot, clients, closed, lpc, newClient, loads, listeners,
                notifying, pending, told, listenerOps, getResult, shutdown>>
waitVars == <<wpc, waitDelay, target, failures, elapsed>>
envVars == <<clusterUp, outages>>
vars == <<clientVars, waitVars, envVars>>

C == INSTANCE EtcdClient

-----------------------------------------------------------------------------
(***************************************************************************)
(* Reference definition of the backoff: the n-th sleep lasts               *)
(* min(InitialWaitDelay * 2^(n-1), MaxWaitDelay); BackoffTotal(n) is the   *)
(* time slept by n failed syncs.                                           *)
(***************************************************************************)
CappedDelay(n) ==
  IF InitialWaitDelay * 2^(n - 1) > MaxWaitDelay THEN MaxWaitDelay
  ELSE InitialWaitDelay * 2^(n - 1)

RECURSIVE BackoffTotal(_)
BackoffTotal(n) == IF n = 0 THEN 0 ELSE BackoffTotal(n - 1) + CappedDelay(n)

-----------------------------------------------------------------------------
Init ==
  /\ C!Init
  /\ wpc = "idle"
  /\ waitDelay = InitialWaitDelay
  /\ target = NoClient
  /\ failures = 0
  /\ elapsed = 0
  /\ clusterUp = TRUE
  /\ outages = 0

\* The EtcdClient's own steps, which the waiting caller does not take part in.
ClientStep == C!Next /\ UNCHANGED <<waitVars, envVars>>

\* A caller that found IsConfigured() calls WaitForConnection.
WaitForConnection ==
  /\ wpc = "idle"
  /\ C!Constructed /\ C!IsConfigured
  /\ wpc' = "read"
  /\ waitDelay' = InitialWaitDelay
  /\ UNCHANGED <<clientVars, target, failures, elapsed, envVars>>

\* syncClient: c.getEtcdClient(), then Sync on it.
SyncRead ==
  /\ wpc = "read"
  /\ target' = slot
  /\ wpc' = "sync"
  /\ UNCHANGED <<clientVars, waitDelay, failures, elapsed, envVars>>

\* Sync succeeds on an open client of a reachable cluster; the loop returns.
SyncSucceeded ==
  /\ wpc = "sync"
  /\ target \notin closed /\ clusterUp
  /\ wpc' = "done"
  /\ UNCHANGED <<clientVars, waitDelay, target, failures, elapsed, envVars>>

\* Mutation: the delay is doubled before the sleep instead of after it.
SyncFailedDoublesFirst ==
  LET next == IF waitDelay * 2 > MaxWaitDelay THEN MaxWaitDelay
              ELSE waitDelay * 2
  IN  /\ wpc = "sync"
      /\ target \in closed \/ ~clusterUp
      /\ elapsed' = IF failures < MaxSyncFailures THEN elapsed + next
                    ELSE elapsed
      /\ failures' = IF failures < MaxSyncFailures THEN failures + 1
                     ELSE failures
      /\ waitDelay' = next
      /\ wpc' = "read"
      /\ UNCHANGED <<clientVars, target, envVars>>

\* Mutation: the delay is doubled without the cap at maxWaitDelay.
SyncFailedUncapped ==
  /\ wpc = "sync"
  /\ target \in closed \/ ~clusterUp
  /\ elapsed' = IF failures < MaxSyncFailures THEN elapsed + waitDelay
                ELSE elapsed
  /\ failures' = IF failures < MaxSyncFailures THEN failures + 1 ELSE failures
  /\ waitDelay' = waitDelay * 2
  /\ wpc' = "read"
  /\ UNCHANGED <<clientVars, target, envVars>>

SyncFailed ==
  /\ wpc = "sync"
  /\ target \in closed \/ ~clusterUp
  /\ elapsed' = IF failures < MaxSyncFailures THEN elapsed + waitDelay
                ELSE elapsed
  /\ failures' = IF failures < MaxSyncFailures THEN failures + 1 ELSE failures
  /\ waitDelay' = IF waitDelay * 2 > MaxWaitDelay THEN MaxWaitDelay
                  ELSE waitDelay * 2
  /\ wpc' = "read"
  /\ UNCHANGED <<clientVars, target, envVars>>

ClusterDown ==
  /\ clusterUp /\ outages < MaxOutages
  /\ clusterUp' = FALSE
  /\ outages' = outages + 1
  /\ UNCHANGED <<clientVars, waitVars>>

ClusterUp ==
  /\ ~clusterUp
  /\ clusterUp' = TRUE
  /\ UNCHANGED <<clientVars, waitVars, outages>>

Next ==
  \/ ClientStep
  \/ WaitForConnection
  \/ SyncRead
  \/ SyncSucceeded
  \/ SyncFailed
  \/ ClusterDown
  \/ ClusterUp

\* The waiting goroutine and the goroutines of EtcdClient are scheduled by
\* the Go runtime; an outage of the cluster ends eventually.
Fairness ==
  /\ WF_vars(C!LoadClosePrev /\ UNCHANGED <<waitVars, envVars>>)
  /\ WF_vars(C!LoadStore /\ UNCHANGED <<waitVars, envVars>>)
  /\ WF_vars(C!NotifyListeners /\ UNCHANGED <<waitVars, envVars>>)
  /\ \A l \in Listeners :
       WF_vars(C!NotifyListener(l) /\ UNCHANGED <<waitVars, envVars>>)
  /\ WF_vars(C!NotifyListenersDone /\ UNCHANGED <<waitVars, envVars>>)
  /\ WF_vars(SyncRead)
  /\ WF_vars(SyncSucceeded)
  /\ WF_vars(SyncFailed)
  /\ WF_vars(ClusterUp)

Spec == Init /\ [][Next]_vars /\ Fairness

-----------------------------------------------------------------------------
TypeOK ==
  /\ C!TypeOK
  /\ wpc \in {"idle", "read", "sync", "done"}
  /\ waitDelay \in InitialWaitDelay .. MaxWaitDelay
  /\ target \in C!ClientIds \cup {NoClient}
  /\ failures \in 0 .. MaxSyncFailures
  /\ elapsed \in Nat
  /\ clusterUp \in BOOLEAN
  /\ outages \in 0 .. MaxOutages

\* The time WaitForConnection has slept after n failed syncs is the sum of
\* the doubling backoff sequence from initialWaitDelay capped at
\* maxWaitDelay, and the delay it will sleep next is the next term.
BackoffSchedule ==
  /\ elapsed = BackoffTotal(failures)
  /\ failures < MaxSyncFailures => waitDelay = CappedDelay(failures + 1)

WaitForConnectionStopsOnClose ==
  (shutdown /\ wpc \in {"read", "sync"}) ~> (wpc = "done")
=============================================================================
