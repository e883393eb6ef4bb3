----------------------------- MODULE MCAllowlist -----------------------------
EXTENDS Allowlist

CONSTANTS p, k, a1, a2

MCRequests ==
  {Refresh, [op |-> "add", side |-> "write", pk |-> p], [op |-> "remove", side |-> "write", pk |-> p],
   [op |-> "addref", ref |-> k, dir |-> ""], [op |-> "addref", ref |-> k, dir |-> "read"],
   [op |-> "removeref", ref |-> k], [op |-> "grant", pk |-> p], [op |-> "revoke", pk |-> p],
   [op |-> "setaccess", config |-> [s \in Side |-> TRUE]],
   [op |-> "setaccess", config |-> [s \in Side |-> s = "read"]]}

(* Restricted on both sides, p allowed to write or not, the list referenced *)
(* or not.                                                                  *)
MCDatabases ==
  {[config |-> [s \in Side |-> TRUE], direct |-> [s \in Side |-> IF s = "write" THEN w ELSE {}],
    refs |-> [r \in Ref |-> d], admins |-> {}] : w \in {{}, {p}}, d \in {"none", "both"}}
=============================================================================
