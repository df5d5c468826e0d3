-------------------------- MODULE StatementLedger --------------------------
(***************************************************************************)
(* What ingestion promises of the ledger of statement rows: it grows by     *)
(* whole statements, each row once for its account, and nothing leaves it.  *)
(* (design doc, section 0 and 2.2: "Durable, hash-deduplicated ledger".)    *)
(***************************************************************************)
CONSTANTS
    Holders,      \* bank accounts a row can be kept under
    Statements    \* the sets of rows that the statements hold

VARIABLE kept     \* rows of the ledger, as pairs of a holder and a row

Init == kept = {}

AddStatement(holder, rows) == kept' = kept \cup ({holder} \X rows)

Next == \E holder \in Holders, rows \in Statements : AddStatement(holder, rows)

Spec == Init /\ [][Next]_kept
=============================================================================
