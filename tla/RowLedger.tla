----------------------------- MODULE RowLedger -----------------------------
(***************************************************************************)
(* What statement_transaction_rows promises its users: a row is unconsumed  *)
(* until one run consumes it, and the run books exactly one line item for   *)
(* it in that same step (design doc, sections 0 and 9).                     *)
(***************************************************************************)
EXTENDS Naturals

CONSTANTS Lines, Runs, NoRun

VARIABLES consumedBy, bookings

Init == /\ consumedBy = [l \in Lines |-> NoRun]
        /\ bookings = [l \in Lines |-> 0]

Consume(r, S) ==
    /\ \A l \in S : consumedBy[l] = NoRun
    /\ consumedBy' = [l \in Lines |-> IF l \in S THEN r ELSE consumedBy[l]]
    /\ bookings' = [l \in Lines |-> IF l \in S THEN bookings[l] + 1 ELSE bookings[l]]

Next == \E r \in Runs, S \in SUBSET Lines : Consume(r, S)

Spec == Init /\ [][Next]_<<consumedBy, bookings>>
============================================================================
