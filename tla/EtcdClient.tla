------------------------------ MODULE EtcdClient ------------------------------
(***************************************************************************)
(* EtcdClient of src/etcd_client.go: load() turning a configuration        *)
(* snapshot into a clientv3 client, the atomic.Value slot that holds the    *)
(* current client, closing the previous client, the listener registry and  *)
(* its two notification paths (notifyListeners under c.mu, the goroutine   *)
(* AddListener starts for a late joiner), Get and Close.                    *)
(*                                                                         *)
(* A client is an id 1..MaxLoads (clientv3.New is called at most once per  *)
(* load).  AddListener and RemoveListener hold c.mu without blocking, so   *)
(* each is one step; notifyListeners holds it across the listener          *)
(* callbacks, one step per callback.  A callback records the client it     *)
(* finds; the callback of a OneShot listener then unregisters it with      *)
(* RemoveListener, which needs c.mu.                                       *)
(* load runs on a single goroutine (construction, then reloads on a        *)
(* configuration change), and is split at the points where other           *)
(* goroutines can observe its effects: closing prev, storing the new       *)
(* client, notifying.                                                      *)
(***************************************************************************)
EXTENDS Naturals, Sequences, FiniteSets

CONSTANTS
  Listeners,       \* EtcdClientListener values collaborators register
  Configs,         \* configuration snapshots load may be given
  MaxLoads,        \* bound on calls of load, construction included
  MaxListenerOps,  \* bound on AddListener/RemoveListener calls
  OneShot,         \* listeners whose EtcdClientCreated calls RemoveListener
  CompatSection,   \* compatSection of NewEtcdClient ("" for none)
  ReloadAfterClose, \* whether a configuration change may still reach load
                    \* after Close (decided by code outside src/)
  NoClient         \* the empty atomic.Value (getEtcdClient returns nil)

ASSUME /\ MaxLoads \in Nat \ {0} /\ MaxListenerOps \in Nat
       /\ OneShot \subseteq Listeners /\ ReloadAfterClose \in BOOLEAN

ClientIds == 1 .. MaxLoads

\* How a created client secures its connection: without TLS because none
\* was configured, with TLS, or without TLS although key, certificate and
\* CA were all configured (tlsInfo.ClientConfig failed, lines 124-130).
Modes == {"plain", "tls", "downgraded"}

VARIABLES
  slot,        \* c.client: NoClient or the id of the current client
  clients,     \* clients[i]: the mode of the i-th client clientv3.New made
  closed,      \* ids of clients whose Close has been called
  lpc,         \* where the goroutine running load is
  newClient,   \* the client load created and has not yet published
  loads,       \* number of load calls so far
  listeners,   \* the keys of c.listeners
  notifying,   \* listeners notifyListeners has still to call
  pending,     \* pending[l]: goroutines AddListener started, not yet run
  told,        \* told[l]: the client each EtcdClientCreated call to l found,
               \* in order, since l's latest AddListener
  listenerOps, \* number of AddListener/RemoveListener calls so far
  getResult,   \* outcome of the latest Get
  shutdown     \* EtcdClient.Close has been called

vars == <<slot, clients, closed, lpc, newClient, loads, listeners, notifying,
          pending, told, listenerOps, getResult, shutdown>>

-----------------------------------------------------------------------------
(***************************************************************************)
(* Configuration.  A snapshot maps section names to sections, a section    *)
(* maps the options it sets to their values.  "endpoints" is given as the  *)
(* sequence of its comma separated entries after TrimSpace, so its empty   *)
(* value is <<>>; every other option is a string.                          *)
(***************************************************************************)

\* The value config.GetString returns for an option that is not set.
Unset(option) == IF option = "endpoints" THEN <<>> ELSE ""

\* config.GetString(section, option), its error ignored.
GetString(cfg, section, option) ==
  IF section \in DOMAIN cfg /\ option \in DOMAIN cfg[section]
  THEN cfg[section][option] ELSE Unset(option)

\* An option of section "etcd", else of the compat section.
GetConfigStringWithFallback(cfg, option) ==
  IF GetString(cfg, "etcd", option) = Unset(option) /\ CompatSection # ""
  THEN GetString(cfg, CompatSection, option)
  ELSE GetString(cfg, "etcd", option)

\* The endpoints load ends up with, and whether SRV discovery failed
\* (lines 81-99).  A non-empty "endpoints" option wins even when all its
\* entries are blank; discovery is only tried when the option is empty.
ResolveEndpoints(cfg, srvOk) ==
  LET eps == GetConfigStringWithFallback(cfg, "endpoints") IN
  IF eps # <<>>
  THEN [eps |-> SelectSeq(eps, LAMBDA e : e # ""), discErr |-> FALSE]
  ELSE IF GetConfigStringWithFallback(cfg, "discoverysrv") # ""
       THEN [eps |-> IF srvOk THEN <<"srv-member">> ELSE <<>>,
             discErr |-> ~srvOk]
       ELSE [eps |-> <<>>, discErr |-> FALSE]

\* TLS is set up only when key, certificate and CA are all configured.
TlsRequested(cfg) ==
  \A o \in {"clientkey", "clientcert", "cacert"} :
    GetConfigStringWithFallback(cfg, o) # ""

\* What load(config, ignoreErrors) does before touching shared state:
\* return an error, leave the client alone, or create a client with the
\* given mode.  srvOk, tlsOk and dialOk are the outcomes of
\* srv.GetClient, tlsInfo.ClientConfig and clientv3.New.
LoadResult(cfg, ignoreErrors, srvOk, tlsOk, dialOk) ==
  LET r   == ResolveEndpoints(cfg, srvOk)
      tls == TlsRequested(cfg)
  IN  IF r.discErr /\ ~ignoreErrors THEN [kind |-> "error", mode |-> "plain"]
      ELSE IF r.eps = <<>> THEN [kind |-> "keep", mode |-> "plain"]
      ELSE IF tls /\ ~tlsOk /\ ~ignoreErrors
           THEN [kind |-> "error", mode |-> "plain"]
      ELSE IF ~dialOk
           THEN [kind |-> IF ignoreErrors THEN "keep" ELSE "error",
                 mode |-> "plain"]
      ELSE [kind |-> "create",
            mode |-> IF ~tls THEN "plain"
                     ELSE IF tlsOk THEN "tls" ELSE "downgraded"]

IsConfigured == slot # NoClient

\* NewEtcdClient has returned the EtcdClient (its load returned no error),
\* so other goroutines can call its methods.
Constructed == lpc = "idle" \/ loads > 1

\* c.mu is held by the goroutine running load, in notifyListeners.
MuHeld == lpc \in {"notifying", "blocked"}

\* The client l found at its latest EtcdClientCreated, NoClient if none.
LastTold(l) == IF told[l] = <<>> THEN NoClient ELSE told[l][Len(told[l])]

\* How many EtcdClientCreated calls to l found client k.
TimesTold(l, k) == Cardinality({i \in DOMAIN told[l] : told[l][i] = k})

-----------------------------------------------------------------------------
Init ==
  /\ slot = NoClient
  /\ clients = <<>>
  /\ closed = {}
  /\ lpc = "construct"
  /\ newClient = NoClient
  /\ loads = 0
  /\ listeners = {}
  /\ notifying = {}
  /\ pending = [l \in Listeners |-> 0]
  /\ told = [l \in Listeners |-> <<>>]
  /\ listenerOps = 0
  /\ getResult = "none"
  /\ shutdown = FALSE

\* The part of load before prev is read.  An error ends a construction
\* (NewEtcdClient returns it), a reload cannot fail.
StartLoad(res, afterError) ==
  /\ loads' = loads + 1
  /\ IF res.kind = "create"
     THEN /\ clients' = Append(clients, res.mode)
          /\ newClient' = Len(clients) + 1
          /\ lpc' = "close"
     ELSE /\ lpc' = IF res.kind = "error" THEN afterError ELSE "idle"
          /\ UNCHANGED <<clients, newClient>>
  /\ UNCHANGED <<slot, closed, listeners, notifying, pending, told, listenerOps,
                 getResult, shutdown>>

\* NewEtcdClient: load(config, false).
NewEtcdClient ==
  /\ lpc = "construct"
  /\ \E cfg \in Configs, srvOk, tlsOk, dialOk \in BOOLEAN :
       StartLoad(LoadResult(cfg, FALSE, srvOk, tlsOk, dialOk), "failed")

\* A configuration change: load(config, true).
Reload ==
  /\ lpc = "idle"
  /\ loads < MaxLoads
  /\ ReloadAfterClose \/ ~shutdown
  /\ \E cfg \in Configs, srvOk, tlsOk, dialOk \in BOOLEAN :
       StartLoad(LoadResult(cfg, TRUE, srvOk, tlsOk, dialOk), "idle")

\* Mutation: load stores the new client without closing prev.
LoadClosePrevSkipped ==
  /\ lpc = "close"
  /\ lpc' = "store"
  /\ UNCHANGED <<slot, clients, closed, newClient, loads, notifying, listeners, pending,
                 told, listenerOps, getResult, shutdown>>

\* prev := c.getEtcdClient(); if prev != nil { prev.Close() }
LoadClosePrev ==
  /\ lpc = "close"
  /\ closed' = IF slot # NoClient THEN closed \cup {slot} ELSE closed
  /\ lpc' = "store"
  /\ UNCHANGED <<slot, clients, newClient, loads, notifying, listeners, pending, told,
                 listenerOps, getResult, shutdown>>

\* c.client.Store(client)
LoadStore ==
  /\ lpc = "store"
  /\ slot' = newClient
  /\ lpc' = "notify"
  /\ UNCHANGED <<clients, closed, newClient, loads, notifying, listeners, pending, told,
                 listenerOps, getResult, shutdown>>

\* notifyListeners: c.mu.Lock(), then range over c.listeners.
NotifyListeners ==
  /\ lpc = "notify"
  /\ ~MuHeld
  /\ notifying' = listeners
  /\ lpc' = "notifying"
  /\ UNCHANGED <<slot, clients, closed, newClient, loads, listeners, pending,
                 told, listenerOps, getResult, shutdown>>

\* listener.EtcdClientCreated(c), called with c.mu held: the listener looks
\* up c's current client.  A OneShot listener then calls RemoveListener,
\* which waits for c.mu, held by this very goroutine, forever.
NotifyListener(l) ==
  /\ lpc = "notifying"
  /\ l \in notifying
  /\ told' = [told EXCEPT ![l] = Append(@, slot)]
  /\ notifying' = notifying \ {l}
  /\ lpc' = IF l \in OneShot THEN "blocked" ELSE "notifying"
  /\ UNCHANGED <<slot, clients, closed, newClient, loads, listeners, pending,
                 listenerOps, getResult, shutdown>>

\* The range loop ends; the deferred c.mu.Unlock() runs and load returns.
NotifyListenersDone ==
  /\ lpc = "notifying"
  /\ notifying = {}
  /\ lpc' = "idle"
  /\ newClient' = NoClient
  /\ UNCHANGED <<slot, clients, closed, loads, listeners, notifying, pending,
                 told, listenerOps, getResult, shutdown>>

\* Mutation: AddListener registers l but starts no goroutine for a client
\* that is already set.
AddListenerWithoutGoroutine(l) ==
  /\ Constructed /\ listenerOps < MaxListenerOps /\ ~MuHeld
  /\ listenerOps' = listenerOps + 1
  /\ listeners' = listeners \cup {l}
  /\ told' = [told EXCEPT ![l] = <<>>]
  /\ UNCHANGED <<slot, clients, closed, lpc, newClient, loads, notifying, pending,
                 getResult, shutdown>>

\* AddListener: under c.mu, register l and, if a client is set, start a
\* goroutine calling l.EtcdClientCreated(c).
AddListener(l) ==
  /\ Constructed /\ listenerOps < MaxListenerOps /\ ~MuHeld
  /\ listenerOps' = listenerOps + 1
  /\ listeners' = listeners \cup {l}
  /\ told' = [told EXCEPT ![l] = <<>>]
  /\ pending' = IF slot # NoClient THEN [pending EXCEPT ![l] = @ + 1]
                ELSE pending
  /\ UNCHANGED <<slot, clients, closed, lpc, newClient, loads, notifying,
                 getResult, shutdown>>

\* Mutation: RemoveListener deletes l without taking c.mu, so it can run
\* while notifyListeners ranges over c.listeners.
RemoveListenerUnlocked(l) ==
  /\ Constructed /\ listenerOps < MaxListenerOps
  /\ l \in listeners
  /\ listenerOps' = listenerOps + 1
  /\ listeners' = listeners \ {l}
  /\ UNCHANGED <<slot, clients, closed, lpc, newClient, loads, notifying, pending, told,
                 getResult, shutdown>>

\* RemoveListener: under c.mu, delete l.  A goroutine already started for
\* l is not stopped.
RemoveListener(l) ==
  /\ Constructed /\ listenerOps < MaxListenerOps /\ ~MuHeld
  /\ l \in listeners
  /\ listenerOps' = listenerOps + 1
  /\ listeners' = listeners \ {l}
  /\ UNCHANGED <<slot, clients, closed, lpc, newClient, loads, notifying, pending, told,
                 getResult, shutdown>>

\* The goroutine of AddListener runs l.EtcdClientCreated(c) without c.mu;
\* the RemoveListener of a OneShot listener takes c.mu once it is free
\* (the callback and its RemoveListener are one step).
RunListenerGoroutine(l) ==
  /\ pending[l] > 0
  /\ l \in OneShot => ~MuHeld
  /\ pending' = [pending EXCEPT ![l] = @ - 1]
  /\ told' = [told EXCEPT ![l] = Append(@, slot)]
  /\ listeners' = IF l \in OneShot THEN listeners \ {l} ELSE listeners
  /\ UNCHANGED <<slot, clients, closed, lpc, newClient, loads, notifying,
                 listenerOps, getResult, shutdown>>

\* Get: c.getEtcdClient().Get(...), by a caller that has seen the client
\* configured.  A closed client answers with an error.
Get ==
  /\ Constructed /\ slot # NoClient
  /\ getResult' = IF slot \in closed THEN "closed" ELSE "ok"
  /\ UNCHANGED <<slot, clients, closed, lpc, newClient, loads, notifying, listeners,
                 pending, told, listenerOps, shutdown>>

\* Close: close the current client, if any; the slot keeps it.
Close ==
  /\ Constructed /\ ~shutdown
  /\ shutdown' = TRUE
  /\ closed' = IF slot # NoClient THEN closed \cup {slot} ELSE closed
  /\ UNCHANGED <<slot, clients, lpc, newClient, loads, notifying, listeners, pending,
                 told, listenerOps, getResult>>

Next ==
  \/ NewEtcdClient
  \/ Reload
  \/ LoadClosePrev
  \/ LoadStore
  \/ NotifyListeners
  \/ \E l \in Listeners : NotifyListener(l)
  \/ NotifyListenersDone
  \/ \E l \in Listeners : AddListener(l) \/ RemoveListener(l)
  \/ \E l \in Listeners : RunListenerGoroutine(l)
  \/ Get
  \/ Close

\* The goroutines running load and those AddListener starts are scheduled
\* by the Go runtime; configuration changes, registrations, Get and Close
\* are up to the environment.
Fairness ==
  /\ WF_vars(LoadClosePrev)
  /\ WF_vars(LoadStore)
  /\ WF_vars(NotifyListeners)
  /\ \A l \in Listeners : WF_vars(NotifyListener(l))
  /\ WF_vars(NotifyListenersDone)
  /\ \A l \in Listeners : WF_vars(RunListenerGoroutine(l))

Spec == Init /\ [][Next]_vars /\ Fairness

-----------------------------------------------------------------------------
TypeOK ==
  /\ slot \in ClientIds \cup {NoClient}
  /\ clients \in Seq(Modes) /\ Len(clients) <= MaxLoads
  /\ closed \subseteq 1 .. Len(clients)
  /\ lpc \in {"construct", "failed", "idle", "close", "store", "notify",
              "notifying", "blocked"}
  /\ notifying \subseteq listeners
  /\ newClient \in ClientIds \cup {NoClient}
  /\ loads \in 0 .. MaxLoads
  /\ listeners \subseteq Listeners
  /\ pending \in [Listeners -> 0 .. MaxListenerOps]
  /\ \A l \in Listeners : told[l] \in Seq(ClientIds)
  /\ listenerOps \in 0 .. MaxListenerOps
  /\ getResult \in {"none", "ok", "closed"}
  /\ shutdown \in BOOLEAN

\* load closes every client it replaces: apart from the client in the slot
\* and the one load is about to store, every client clientv3.New created
\* has been closed.
NoLeakedClient ==
  \A i \in 1 .. Len(clients) : i # slot /\ i # newClient => i \in closed

\* A listener that is registered while a client is current eventually has
\* EtcdClientCreated called at a time that client is current, whether it
\* registered before the client was stored (notifyListeners) or after
\* (the goroutine AddListener starts), unless it is removed or the client
\* is replaced first.
ListenerLearnsCurrentClient ==
  \A l \in Listeners, k \in ClientIds :
    (l \in listeners /\ slot = k)
      ~> (LastTold(l) = k \/ l \notin listeners \/ slot # k)

\* The spec (section 3 and 9): the previous client is closed only after
\* the new one is installed, so a Get issued before Close never runs on a
\* closed client.
GetNeverUsesClosedClient ==
  getResult = "closed" => shutdown

\* The spec (sections 4.1 and 9): listeners are notified outside the
\* registration lock, "to avoid reentrancy/deadlock risk", so a listener
\* may unregister itself from its callback: a load that stored a client
\* always finishes notifying and returns.
LoadReturns == (lpc = "notify") ~> (lpc = "idle")

\* The spec (sections 4.1 and 8): a listener added while a client exists is
\* notified exactly once, asynchronously, about it; no registered listener
\* is told twice about the same client.
NotifiedOncePerClient ==
  \A l \in listeners, k \in ClientIds : TimesTold(l, k) <= 1

\* EtcdClient.Close (lines 157-163) closes the client it finds in c.client,
\* and the server stops for good after it: once Close has been called and
\* load has returned, every client clientv3.New created has been closed,
\* including one a load already running at Close stored afterwards.
NoOpenClientAfterClose ==
  shutdown /\ lpc \in {"idle", "failed"} => \A i \in 1 .. Len(clients) : i \in closed
=============================================================================
