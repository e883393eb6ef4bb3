----------------------------- MODULE MCRelayCore -----------------------------
EXTENDS RelayCore, MCEvents, TLC

CONSTANTS p1, p2

(* The goroutines are alike. *)
AnyCaller == Permutations({p1, p2})
=============================================================================
