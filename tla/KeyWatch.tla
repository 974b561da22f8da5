------------------------------- MODULE KeyWatch -------------------------------
(***************************************************************************)
(* What EtcdClient.Watch promises a watcher (spec section 4.1, "Watch"):   *)
(* once the watch is created, the watcher is told the Put and Delete       *)
(* events of the key in the store's order, none skipped, none invented,    *)
(* events of other types dropped; nothing is relayed after Watch returns.  *)
(***************************************************************************)
EXTENDS Naturals, Sequences

CONSTANTS
  Values,     \* values a Put may write
  MaxEvents   \* bound on the events of the key

\* A Put carries the new value; a Delete, or an event of another type,
\* none the watcher is given.
Events == {[type |-> "PUT", value |-> v] : v \in Values}
            \cup {[type |-> t, value |-> "none"] : t \in {"DELETE", "UNKNOWN"}}

VARIABLES
  history,  \* the key's events since the watch was opened
  relayed,  \* the events the watcher has been told about
  phase     \* "opening", "watching" or "ended"

vars == <<history, relayed, phase>>

\* The events a watcher is told about: Put and Delete, in order.
Relevant(h) == SelectSeq(h, LAMBDA e : e.type \in {"PUT", "DELETE"})

Init ==
  /\ history = <<>>
  /\ relayed = <<>>
  /\ phase = "opening"

Open ==
  /\ phase = "opening"
  /\ phase' = "watching"
  /\ UNCHANGED <<history, relayed>>

Record(e) ==
  /\ phase # "opening"
  /\ Len(history) < MaxEvents
  /\ history' = Append(history, e)
  /\ UNCHANGED <<relayed, phase>>

\* One or more further relevant events are relayed.
Relay ==
  /\ phase = "watching"
  /\ \E n \in Len(relayed) + 1 .. Len(Relevant(history)) :
       relayed' = SubSeq(Relevant(history), 1, n)
  /\ UNCHANGED <<history, phase>>

End ==
  /\ phase = "watching"
  /\ phase' = "ended"
  /\ UNCHANGED <<history, relayed>>

Next == Open \/ (\E e \in Events : Record(e)) \/ Relay \/ End

Spec == Init /\ [][Next]_vars
=============================================================================
