------------------------------ MODULE RawStore ------------------------------
(***************************************************************************)
(* The writes of the event store library (BoltDB backend), as the relay    *)
(* uses them: a store is a set of events.                                  *)
(***************************************************************************)
EXTENDS RelayEvents

(* boltOp: the event, and whether to ReplaceEvent or SaveEvent. *)
BoltOp == [ev : Event, replace : BOOLEAN]

(* ReplaceEvent deletes the older versions of the coordinate and stores    *)
(* the event unless another version is left.                               *)
Replaced(store, e) ==
  LET left == {f \in store : ~ (coordOf[f] = coordOf[e] /\ IsOlder(f, e))}
  IN IF \E f \in left : coordOf[f] = coordOf[e] THEN left ELSE left \cup {e}

(* The store after a successful operation; SaveEvent of an event that is   *)
(* there is ErrDupEvent, which the worker treats as a success.             *)
Written(store, op) ==
  IF op.replace THEN Replaced(store, op.ev) ELSE store \cup {op.ev}
=============================================================================
