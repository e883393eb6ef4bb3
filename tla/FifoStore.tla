------------------------------ MODULE FifoStore ------------------------------
(***************************************************************************)
(* What a write buffer promises of its store: operations are accepted at   *)
(* the tail of one queue and leave it at the head, applied once or given   *)
(* up; other parties may remove events from the store at any time.         *)
(***************************************************************************)
EXTENDS RawStore, Sequences

VARIABLES
  queue,  \* accepted, neither applied nor given up
  store   \* events in the store

Init == queue = <<>> /\ store = {}

Accept(op) == queue' = Append(queue, op) /\ UNCHANGED store

Apply ==
  /\ queue # <<>>
  /\ store' = Written(store, Head(queue))
  /\ queue' = Tail(queue)

GiveUp == queue # <<>> /\ queue' = Tail(queue) /\ UNCHANGED store

Remove(e) == store' = store \ {e} /\ UNCHANGED queue

Next ==
  \/ \E op \in BoltOp : Accept(op)
  \/ Apply
  \/ GiveUp
  \/ \E e \in Event : Remove(e)

Spec == Init /\ [][Next]_<<queue, store>>
=============================================================================
