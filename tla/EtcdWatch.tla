------------------------------- MODULE EtcdWatch -------------------------------
(***************************************************************************)
(* EtcdClient.Watch (src/etcd_client.go) on one key: it opens a            *)
(* leader-required watch on the client it reads, calls EtcdWatchCreated,   *)
(* then receives responses from the watch channel: a response carrying an  *)
(* error ends Watch with that error, otherwise its events are dispatched   *)
(* in order (Put -> EtcdKeyUpdated, Delete -> EtcdKeyDeleted, any other    *)
(* type is logged and skipped); when the channel is closed Watch returns   *)
(* nil.                                                                    *)
(*                                                                         *)
(* The store and clientv3 are the environment: the store appends events    *)
(* of the key, clientv3 puts them into the channel in batches, the         *)
(* cluster may lose its leader (an error response, then the channel is     *)
(* closed), and the client may be closed by a reload or the caller's       *)
(* context cancelled (the channel is closed, with or without a final       *)
(* error response, depending on where clientv3's watcher is).              *)
(***************************************************************************)
EXTENDS Naturals, Sequences

CONSTANTS
  Values,     \* values a Put may write
  MaxEvents   \* bound on the events of the key

\* A Put carries the new value; a Delete, or an event of another type,
\* none the watcher is given.
Events == {[type |-> "PUT", value |-> v] : v \in Values}
            \cup {[type |-> t, value |-> "none"] : t \in {"DELETE", "UNKNOWN"}}
Responses == [events : Seq(Events), err : BOOLEAN]

VARIABLES
  history,  \* the key's events in the store since the watch was opened
  sent,     \* how many of them clientv3 has put into the channel
  ch,       \* responses in the channel not yet received by Watch
  chEnd,    \* "open", or why no further response will come: "closed", "error"
  stopped,  \* the client was closed or the caller's context cancelled
  wpc,      \* where Watch is: "init", "loop", "returned"
  result,   \* what Watch returned: "none", "nil", "err"
  created,  \* EtcdWatchCreated has been called
  calls     \* the EtcdKeyUpdated / EtcdKeyDeleted calls, as events, in order

vars == <<history, sent, ch, chEnd, stopped, wpc, result, created, calls>>

\* A non-error response carrying the given events.
Batch(es) == [events |-> es, err |-> FALSE]
ErrorResponse == [events |-> <<>>, err |-> TRUE]

-----------------------------------------------------------------------------
Init ==
  /\ history = <<>>
  /\ sent = 0
  /\ ch = <<>>
  /\ chEnd = "open"
  /\ stopped = FALSE
  /\ wpc = "init"
  /\ result = "none"
  /\ created = FALSE
  /\ calls = <<>>

\* c.getEtcdClient().Watch(WithRequireLeader(ctx), key);
\* watcher.EtcdWatchCreated(c, key)
OpenWatch ==
  /\ wpc = "init"
  /\ wpc' = "loop"
  /\ created' = TRUE
  /\ UNCHANGED <<history, sent, ch, chEnd, stopped, result, calls>>

\* The store records an event of the key.
StoreEvent(e) ==
  /\ wpc # "init"
  /\ Len(history) < MaxEvents
  /\ history' = Append(history, e)
  /\ UNCHANGED <<sent, ch, chEnd, stopped, wpc, result, created, calls>>

\* clientv3 delivers the next n events of the key as one response.
SendBatch(n) ==
  /\ chEnd = "open"
  /\ sent + n <= Len(history)
  /\ ch' = Append(ch, Batch(SubSeq(history, sent + 1, sent + n)))
  /\ sent' = sent + n
  /\ UNCHANGED <<history, chEnd, stopped, wpc, result, created, calls>>

\* The cluster loses its leader: the leader-required watch is cancelled
\* with an error response and the channel closed.
LoseLeader ==
  /\ chEnd = "open"
  /\ ch' = Append(ch, ErrorResponse)
  /\ chEnd' = "error"
  /\ UNCHANGED <<history, sent, stopped, wpc, result, created, calls>>

\* The client is closed (load replacing it, EtcdClient.Close) or the
\* caller's context is cancelled: the channel is closed.
StopStream ==
  /\ ~stopped
  /\ stopped' = TRUE
  /\ \/ /\ chEnd = "open"
        /\ \/ /\ chEnd' = "closed" /\ UNCHANGED ch
           \/ /\ chEnd' = "error" /\ ch' = Append(ch, ErrorResponse)
     \/ /\ chEnd # "open"
        /\ UNCHANGED <<ch, chEnd>>
  /\ UNCHANGED <<history, sent, wpc, result, created, calls>>

\* Mutation: the switch has no default case; every event is passed on.
DispatchedAll(es) == es

\* Mutation: Delete events fall into the default case and are skipped.
DispatchedPutsOnly(es) == SelectSeq(es, LAMBDA e : e.type = "PUT")

\* The watcher calls one response's events make, in order; events of
\* other types are logged and skipped.
Dispatched(es) == SelectSeq(es, LAMBDA e : e.type \in {"PUT", "DELETE"})

\* Mutation: a response carrying an error is logged and skipped.
ReceiveSkippingErrors ==
  /\ wpc = "loop"
  /\ ch # <<>>
  /\ ch' = Tail(ch)
  /\ calls' = IF Head(ch).err THEN calls
              ELSE calls \o Dispatched(Head(ch).events)
  /\ UNCHANGED <<history, sent, chEnd, stopped, wpc, result, created>>

\* One iteration of `for response := range ch`.
Receive ==
  /\ wpc = "loop"
  /\ ch # <<>>
  /\ ch' = Tail(ch)
  /\ IF Head(ch).err
     THEN /\ wpc' = "returned" /\ result' = "err"
          /\ UNCHANGED calls
     ELSE /\ calls' = calls \o Dispatched(Head(ch).events)
          /\ UNCHANGED <<wpc, result>>
  /\ UNCHANGED <<history, sent, chEnd, stopped, created>>

\* The range loop ends on the closed channel: Watch returns nil.
ChannelClosed ==
  /\ wpc = "loop"
  /\ ch = <<>>
  /\ chEnd # "open"
  /\ wpc' = "returned"
  /\ result' = "nil"
  /\ UNCHANGED <<history, sent, ch, chEnd, stopped, created, calls>>

Next ==
  \/ OpenWatch
  \/ \E e \in Events : StoreEvent(e)
  \/ \E n \in 1 .. MaxEvents : SendBatch(n)
  \/ LoseLeader
  \/ StopStream
  \/ Receive
  \/ ChannelClosed

\* Watch runs on its own goroutine; clientv3 delivers what the store has.
Fairness ==
  /\ WF_vars(OpenWatch)
  /\ WF_vars(Receive)
  /\ WF_vars(ChannelClosed)
  /\ WF_vars(\E n \in 1 .. MaxEvents : SendBatch(n))

Spec == Init /\ [][Next]_vars /\ Fairness

-----------------------------------------------------------------------------
TypeOK ==
  /\ history \in Seq(Events) /\ Len(history) <= MaxEvents
  /\ sent \in 0 .. Len(history)
  /\ ch \in Seq(Responses)
  /\ chEnd \in {"open", "closed", "error"}
  /\ stopped \in BOOLEAN
  /\ wpc \in {"init", "loop", "returned"}
  /\ result \in {"none", "nil", "err"}
  /\ created \in BOOLEAN
  /\ calls \in Seq({e \in Events : e.type \in {"PUT", "DELETE"}})

\* Watch implements KeyWatch: the watcher is told the key's Put and Delete
\* events, in the store's order, without gaps, only after EtcdWatchCreated
\* and never after Watch returned.
KW == INSTANCE KeyWatch
        WITH relayed <- calls,
             phase <- IF wpc = "init" THEN "opening"
                      ELSE IF wpc = "loop" THEN "watching" ELSE "ended"
KeyWatchSpec == KW!Spec

\* A leader-required watch that loses the leader (or whose client is closed
\* with an error response) makes Watch return an error, so that its caller
\* knows to retry; it never ends as if the stream had finished normally.
StreamErrorReturned ==
  (chEnd = "error") ~> (result = "err")
=============================================================================
