-------------------------- MODULE MCAdministration --------------------------
(* Small instances of Administration for TLC. *)
EXTENDS Administration, TLC

CONSTANTS p1, p2, e1, e2, e3, admin, viewer

\* Both have had both addresses.
Reassigned == [p \in {p1, p2} |-> {e1, e2}]
=============================================================================
