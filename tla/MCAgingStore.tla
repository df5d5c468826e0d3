---------------------------- MODULE MCAgingStore ----------------------------
(* Small instances of AgingStore for TLC. *)
EXTENDS AgingStore, TLC

CONSTANTS n1, n2, c1, c2, bad, api, worker, t1, t2, r1, r2

\* One thread in the worker; one in the worker and one in the API.
WorkerReads == r1 :> worker
BothRead == r1 :> worker @@ r2 :> api
\* Two reports in the history.
TwoRemoved == <<n1, n2>>
=============================================================================
