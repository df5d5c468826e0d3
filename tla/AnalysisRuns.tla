--------------------------- MODULE AnalysisRuns ---------------------------
(***************************************************************************)
(* The analysis run: POST /api/run/start, the procrastinate job it defers,  *)
(* the advisory lock around the job, the chunk loop that turns statement    *)
(* rows into line items, and the receipt loop (Step 4.5).                   *)
(*                                                                         *)
(* Sources: app/bff/run_routes.py, app/tasks/analysis_tasks.py,             *)
(* app/rule_engine/orchestrator.py, app/oracle/receipt_creation.py.         *)
(*                                                                         *)
(* A transaction is modelled by what the others see: rows flushed but not  *)
(* committed live in the worker's session (work), an UPDATE of a row that  *)
(* another open transaction has updated waits (READ COMMITTED).             *)
(***************************************************************************)
EXTENDS Integers, FiniteSets

CONSTANTS
    Runs,           \* analysis_runs rows, each with the one job deferred for it
    Files,          \* bank statement files, by filename
    Lines,          \* credit lines of the statements, after row-hash dedup
    Accounts,       \* bank accounts
    NoAccount,      \* bank_account_id IS NULL
    NoRun,          \* consumed_by_run_id IS NULL
    Ledger,         \* source of an entry read from statement_transaction_rows
    AccountOf,      \* the account the ingestion of a file resolves
    LinesOf,        \* the credit lines a file holds
    Selections,     \* the file sets users select
    Workers,        \* worker processes, each executing one job at a time
    MaxExecutions,  \* executions of a job: the first one and its retries
    ChunkSize,      \* CHUNK_SIZE
    FaultBudget     \* how often each kind of fault or reset may happen

Faults == {"raise", "db", "crash", "reset"}

ASSUME RunsAssumption == NoRun \notin Runs /\ Ledger \notin Files
ASSUME AccountAssumption ==
    /\ NoAccount \notin Accounts
    /\ AccountOf \in [Files -> Accounts \cup {NoAccount}]
    /\ LinesOf \in [Files -> SUBSET Lines]
    /\ \A f, g \in Files : LinesOf[f] \cap LinesOf[g] # {} =>  \* rows after dedup
         f = g \/ (AccountOf[f] # NoAccount /\ AccountOf[f] = AccountOf[g])
ASSUME SelectionAssumption == Selections \subseteq (SUBSET Files) \ {{}}
ASSUME BoundAssumption ==
    /\ Workers \in Nat /\ MaxExecutions \in Nat \ {0} /\ ChunkSize \in Nat \ {0}
    /\ FaultBudget \in [Faults -> Nat]

VARIABLES
    ready,       \* files whose ingest_status is "ready"
    consumedBy,  \* StatementTransactionRow.consumed_by_run_id
    items,       \* committed LineItems
    created,     \* items whose oracle_post_status is "success"
    failed,      \* items whose oracle_post_status is "failed"
    oracle,      \* items Oracle holds a receipt for
    status,      \* AnalysisRun.status, "absent" before the INSERT
    selected,    \* AnalysisRun.selected_files
    api,         \* progress of the POST /start request that makes the run
    job,         \* procrastinate job status
    execs,       \* executions of the job begun so far
    pc,          \* where the worker executing the job is
    work,        \* that worker's session
    locked,      \* runs whose worker holds the advisory lock of its files
    left         \* faults still allowed

ledgerVars == <<consumedBy, items>>
oracleVars == <<created, failed, oracle>>
apiVars    == <<selected, api>>
jobVars    == <<job, execs>>
vars == <<ready, ledgerVars, oracleVars, status, apiVars, jobVars, pc, work,
          locked, left>>

Entry == [line : Lines, src : Files \cup {Ledger}]
Item  == [run : Runs, line : Lines, src : Files \cup {Ledger},
          exec : 1 .. MaxExecutions]
Work  == [unread : SUBSET Files,     \* selected files not read yet
          rows : SUBSET Entry,       \* credit rows read, not yet in a chunk
          chunk : SUBSET Entry,      \* extracted rows of the current chunk
          flushed : SUBSET Entry,    \* LineItem flushed, not committed
          stamped : SUBSET Entry,    \* consumed_by_run_id set, not committed
          toPost : SUBSET Item,      \* items Step 4.5 has still to post
          draft : SUBSET [item : Item, ok : BOOLEAN]]  \* answer, uncommitted
NoWork == [unread |-> {}, rows |-> {}, chunk |-> {}, flushed |-> {},
           stamped |-> {}, toPost |-> {}, draft |-> {}]

InSession == {"loading", "chunks", "posting"}
TypeOK ==
    /\ ready \subseteq Files
    /\ consumedBy \in [Lines -> Runs \cup {NoRun}]
    /\ items \subseteq Item
    /\ created \subseteq Item /\ failed \subseteq Item /\ oracle \subseteq Item
    /\ status \in [Runs -> {"absent", "running", "completed", "error", "idle"}]
    /\ selected \in [Runs -> SUBSET Files]
    /\ api \in [Runs -> {"new", "pending", "clear", "inserted", "done"}]
    /\ job \in [Runs -> {"none", "todo", "doing", "succeeded", "failed"}]
    /\ execs \in [Runs -> 0 .. MaxExecutions]
    /\ pc \in [Runs -> InSession \cup {"off", "locking", "returning", "raising"}]
    /\ work \in [Runs -> Work]
    /\ locked \subseteq Runs
    /\ left \in [Faults -> Nat]

Init ==
    /\ ready = {}
    /\ consumedBy = [l \in Lines |-> NoRun]
    /\ items = {} /\ created = {} /\ failed = {} /\ oracle = {}
    /\ status = [r \in Runs |-> "absent"]
    /\ selected = [r \in Runs |-> {}]
    /\ api = [r \in Runs |-> "new"]
    /\ job = [r \in Runs |-> "none"]
    /\ execs = [r \in Runs |-> 0]
    /\ pc = [r \in Runs |-> "off"]
    /\ work = [r \in Runs |-> NoWork]
    /\ locked = {}
    /\ left = FaultBudget

Spend(kind) ==
    /\ left[kind] > 0
    /\ left' = [left EXCEPT ![kind] = @ - 1]

(***************************************************************************)
(* Statement rows.  A file's rows enter the ledger when its ingestion      *)
(* ends; a query for a file reaches every row of the file's bank account,  *)
(* whichever file brought it, or the file's own rows if it has no account. *)
(***************************************************************************)
IngestReady(f) ==
    /\ f \notin ready
    /\ ready' = ready \cup {f}
    /\ UNCHANGED <<ledgerVars, oracleVars, status, apiVars, jobVars, pc, work,
                   locked, left>>

\* Mutant: the row query without its bank_account_id filter.
AnyScope(f) == Files

SameScope(f) == {g \in Files : g = f \/ ( /\ AccountOf[f] # NoAccount
                                          /\ AccountOf[g] = AccountOf[f] )}
Reach(f) == UNION {LinesOf[g] : g \in SameScope(f)}
\* Mutant: the row query without its consumed_by_run_id filter.
AllRows(f) == UNION {LinesOf[g] : g \in SameScope(f) \cap ready}

Unconsumed(f) == {l \in UNION {LinesOf[g] : g \in SameScope(f) \cap ready} :
                    consumedBy[l] = NoRun}

(***************************************************************************)
(* POST /api/run/start: two reads, an INSERT, then the deferred job.        *)
(***************************************************************************)
CheckPendingRows(r, files) ==
    /\ api[r] = "new"
    /\ \E f \in files \cap ready : AccountOf[f] # NoAccount /\ Unconsumed(f) # {}
    /\ selected' = [selected EXCEPT ![r] = files]
    /\ api' = [api EXCEPT ![r] = "pending"]
    /\ UNCHANGED <<ready, ledgerVars, oracleVars, status, jobVars, pc, work,
                   locked, left>>

CheckNoneRunning(r) ==
    /\ api[r] = "pending"
    /\ api' = [api EXCEPT ![r] = IF \E q \in Runs : status[q] = "running"
                                 THEN "new" ELSE "clear"]
    /\ UNCHANGED <<ready, ledgerVars, oracleVars, status, selected, jobVars, pc,
                   work, locked, left>>

InsertRun(r) ==
    /\ api[r] = "clear"
    /\ status' = [status EXCEPT ![r] = "running"]
    /\ api' = [api EXCEPT ![r] = "inserted"]
    /\ UNCHANGED <<ready, ledgerVars, oracleVars, selected, jobVars, pc, work,
                   locked, left>>

DeferJob(r) ==
    /\ api[r] = "inserted"
    /\ job' = [job EXCEPT ![r] = "todo"]
    /\ api' = [api EXCEPT ![r] = "done"]
    /\ UNCHANGED <<ready, ledgerVars, oracleVars, status, selected, execs, pc,
                   work, locked, left>>

ApiCrash(r) ==
    /\ api[r] = "inserted"
    /\ Spend("crash")
    /\ api' = [api EXCEPT ![r] = "done"]
    /\ UNCHANGED <<ready, ledgerVars, oracleVars, status, selected, jobVars, pc,
                   work, locked>>

ResetRun(r) ==
    /\ status[r] = "running"
    /\ Spend("reset")
    /\ status' = [status EXCEPT ![r] = "idle"]
    /\ UNCHANGED <<ready, ledgerVars, oracleVars, apiVars, jobVars, pc, work, locked>>

(***************************************************************************)
(* The job: fetched by a free worker, guarded by pg_try_advisory_lock.      *)
(***************************************************************************)
FetchJob(r) ==
    /\ job[r] = "todo"
    /\ Cardinality({q \in Runs : pc[q] # "off"}) < Workers
    /\ job' = [job EXCEPT ![r] = "doing"]
    /\ execs' = [execs EXCEPT ![r] = @ + 1]
    /\ pc' = [pc EXCEPT ![r] = "locking"]
    /\ UNCHANGED <<ready, ledgerVars, oracleVars, status, apiVars, work, locked, left>>

\* Mutant: the lock keyed by the run instead of by its files.
LockFreeOfRun(r) == r \notin locked

\* _advisory_lock_key hashes the sorted filenames: one key per file set.
LockFree(r) == \A q \in locked : selected[q] # selected[r]

TakeLock(r) ==
    /\ pc[r] = "locking"
    /\ LockFree(r)
    /\ locked' = locked \cup {r}
    /\ pc' = [pc EXCEPT ![r] = "loading"]
    /\ work' = [work EXCEPT ![r] = [NoWork EXCEPT !.unread = selected[r]]]
    /\ UNCHANGED <<ready, ledgerVars, oracleVars, status, apiVars, jobVars, left>>

LockRefused(r) ==
    /\ pc[r] = "locking"
    /\ ~LockFree(r)
    /\ status' = [status EXCEPT ![r] = "error"]
    /\ pc' = [pc EXCEPT ![r] = "off"]
    /\ job' = [job EXCEPT ![r] = "succeeded"]
    /\ UNCHANGED <<ready, ledgerVars, oracleVars, apiVars, execs, work, locked, left>>

\* Mutant: a job without a limit on its retries.
ReleaseLockAndRetry(r) ==
    /\ pc[r] \in {"returning", "raising"}
    /\ locked' = locked \ {r}
    /\ pc' = [pc EXCEPT ![r] = "off"]
    /\ job' = [job EXCEPT ![r] = IF pc[r] = "returning" THEN "succeeded" ELSE "todo"]
    /\ UNCHANGED <<ready, ledgerVars, oracleVars, status, apiVars, execs, work, left>>

\* The unlock in the finally block, then procrastinate's verdict on the job.
ReleaseLock(r) ==
    /\ pc[r] \in {"returning", "raising"}
    /\ locked' = locked \ {r}
    /\ pc' = [pc EXCEPT ![r] = "off"]
    /\ job' = [job EXCEPT ![r] = IF pc[r] = "returning" THEN "succeeded"
                                 ELSE IF execs[r] < MaxExecutions THEN "todo"
                                 ELSE "failed"]
    /\ UNCHANGED <<ready, ledgerVars, oracleVars, status, apiVars, execs, work, left>>

(***************************************************************************)
(* Step 2: the credit rows of each selected file.  A file that is not      *)
(* ready is parsed directly (or skipped when no config fits it).           *)
(***************************************************************************)
RowsReadFrom(f) ==
    IF f \in ready THEN {[line : Unconsumed(f), src : {Ledger}]}
                   ELSE {[line : LinesOf[f], src : {f}], {}}

\* Mutant: a file without rows to read leaves the loop before its end.
LoadFileOrStop(r, f) ==
    /\ pc[r] = "loading"
    /\ f \in work[r].unread
    /\ \E read \in RowsReadFrom(f) :
         /\ work' = [work EXCEPT ![r].unread = @ \ {f}, ![r].rows = @ \cup read]
         /\ pc' = [pc EXCEPT ![r] = IF read # {} THEN "chunks" ELSE "loading"]
    /\ UNCHANGED <<ready, ledgerVars, oracleVars, status, apiVars, jobVars, locked, left>>

LoadFile(r, f) ==
    /\ pc[r] = "loading"
    /\ f \in work[r].unread
    /\ \E read \in RowsReadFrom(f) :
         work' = [work EXCEPT ![r].unread = @ \ {f}, ![r].rows = @ \cup read]
    /\ pc' = [pc EXCEPT ![r] = IF work[r].unread = {f} THEN "chunks" ELSE "loading"]
    /\ UNCHANGED <<ready, ledgerVars, oracleVars, status, apiVars, jobVars, locked, left>>

(***************************************************************************)
(* Steps 3 and 4: a chunk is full unless it is the last, and extraction    *)
(* may lose rows of it (a chunk or an AI batch that failed).  Each row that *)
(* is left is flushed as a LineItem, then stamped; one commit per chunk.    *)
(***************************************************************************)
TakeChunk(r) ==
    /\ pc[r] = "chunks"
    /\ work[r].chunk = {} /\ work[r].flushed = {}
    /\ \E C \in SUBSET work[r].rows :
         /\ C # {}
         /\ Cardinality(C) = ChunkSize \/ ( /\ C = work[r].rows
                                            /\ Cardinality(C) < ChunkSize )
         /\ \E kept \in SUBSET C :
              work' = [work EXCEPT ![r].rows = @ \ C, ![r].chunk = kept]
    /\ UNCHANGED <<ready, ledgerVars, oracleVars, status, apiVars, jobVars, pc, locked, left>>

PersistLineItem(r, e) ==
    /\ pc[r] = "chunks"
    /\ e \in work[r].chunk
    /\ work[r].flushed = work[r].stamped
    /\ work' = [work EXCEPT ![r].chunk = @ \ {e}, ![r].flushed = @ \cup {e}]
    /\ UNCHANGED <<ready, ledgerVars, oracleVars, status, apiVars, jobVars, pc, locked, left>>

\* The UPDATE of r for entry e waits for the open transaction of q.
WaitsFor(r, e, q) ==
    /\ q # r
    /\ e.src = Ledger
    /\ e \in work[q].stamped

\* Mutant: the stamp in a transaction of its own, committed at once.
MarkRowConsumedAtOnce(r, e) ==
    /\ pc[r] = "chunks"
    /\ e \in work[r].flushed \ work[r].stamped
    /\ work' = [work EXCEPT ![r].stamped = @ \cup {e}]
    /\ consumedBy' = IF e.src = Ledger THEN [consumedBy EXCEPT ![e.line] = r] ELSE consumedBy
    /\ UNCHANGED <<ready, items, oracleVars, status, apiVars, jobVars, pc, locked, left>>

MarkRowConsumed(r, e) ==
    /\ pc[r] = "chunks"
    /\ e \in work[r].flushed \ work[r].stamped
    /\ \A q \in Runs : ~WaitsFor(r, e, q)
    /\ work' = [work EXCEPT ![r].stamped = @ \cup {e}]
    /\ UNCHANGED <<ready, ledgerVars, oracleVars, status, apiVars, jobVars, pc, locked, left>>

\* What db.commit() makes visible of r's session.
Commit(r) ==
    /\ items' = items \cup {[run |-> r, line |-> e.line, src |-> e.src,
                             exec |-> execs[r]] : e \in work[r].flushed}
    /\ consumedBy' = [l \in Lines |->
                        IF [line |-> l, src |-> Ledger] \in work[r].stamped
                        THEN r ELSE consumedBy[l]]

CommitChunk(r) ==
    /\ pc[r] = "chunks"
    /\ work[r].chunk = {} /\ work[r].flushed # {}
    /\ work[r].flushed = work[r].stamped
    /\ Commit(r)
    /\ work' = [work EXCEPT ![r].flushed = {}, ![r].stamped = {}]
    /\ UNCHANGED <<ready, oracleVars, status, apiVars, jobVars, pc, locked, left>>

(***************************************************************************)
(* Step 4.5: one bare receipt per line item of the run, whatever earlier    *)
(* executions did; the answer is committed row by row.  Oracle may accept   *)
(* a request whose answer is lost.                                          *)
(***************************************************************************)
\* Mutant: receipts only for the line items of this execution of the job.
StartPostingNew(r) ==
    /\ pc[r] = "chunks"
    /\ work[r].rows = {} /\ work[r].chunk = {} /\ work[r].flushed = {}
    /\ pc' = [pc EXCEPT ![r] = "posting"]
    /\ work' = [work EXCEPT ![r].toPost = {i \in items : i.run = r /\ i.exec = execs[r]}]
    /\ UNCHANGED <<ready, ledgerVars, oracleVars, status, apiVars, jobVars, locked, left>>

StartPosting(r) ==
    /\ pc[r] = "chunks"
    /\ work[r].rows = {} /\ work[r].chunk = {} /\ work[r].flushed = {}
    /\ pc' = [pc EXCEPT ![r] = "posting"]
    /\ work' = [work EXCEPT ![r].toPost = {i \in items : i.run = r}]
    /\ UNCHANGED <<ready, ledgerVars, oracleVars, status, apiVars, jobVars, locked, left>>

\* Mutant: a request repeated within the loop.
CreateReceiptAgain(r, i) ==
    /\ pc[r] = "posting"
    /\ i \in work[r].toPost /\ work[r].draft = {}
    /\ \E ok \in BOOLEAN :
         /\ oracle' = IF ok THEN oracle \cup {i} ELSE oracle
         /\ work' = [work EXCEPT ![r].draft = {[item |-> i, ok |-> ok]}]
    /\ UNCHANGED <<ready, ledgerVars, created, failed, status, apiVars, jobVars, pc,
                   locked, left>>

CreateReceipt(r, i) ==
    /\ pc[r] = "posting"
    /\ i \in work[r].toPost /\ work[r].draft = {}
    /\ \E ok \in BOOLEAN, accepted \in BOOLEAN :
         /\ ok => accepted
         /\ oracle' = IF accepted THEN oracle \cup {i} ELSE oracle
         /\ work' = [work EXCEPT ![r].toPost = @ \ {i},
                                 ![r].draft = {[item |-> i, ok |-> ok]}]
    /\ UNCHANGED <<ready, ledgerVars, created, failed, status, apiVars, jobVars, pc,
                   locked, left>>

\* Mutant: an answer that did not come counted as a success.
RecordAsSuccess(r) ==
    /\ pc[r] = "posting"
    /\ \E d \in work[r].draft : created' = created \cup {d.item}
    /\ work' = [work EXCEPT ![r].draft = {}]
    /\ UNCHANGED <<ready, ledgerVars, oracle, failed, status, apiVars, jobVars, pc, locked, left>>

RecordReceipt(r) ==
    /\ pc[r] = "posting"
    /\ \E d \in work[r].draft :
         /\ created' = IF d.ok THEN created \cup {d.item} ELSE created \ {d.item}
         /\ failed' = IF d.ok THEN failed \ {d.item} ELSE failed \cup {d.item}
    /\ work' = [work EXCEPT ![r].draft = {}]
    /\ UNCHANGED <<ready, ledgerVars, oracle, status, apiVars, jobVars, pc, locked, left>>

CompleteRun(r) ==
    /\ pc[r] = "posting"
    /\ work[r].toPost = {} /\ work[r].draft = {}
    /\ status' = [status EXCEPT ![r] = "completed"]
    /\ pc' = [pc EXCEPT ![r] = "returning"]
    /\ work' = [work EXCEPT ![r] = NoWork]
    /\ UNCHANGED <<ready, ledgerVars, oracleVars, apiVars, jobVars, locked, left>>

(***************************************************************************)
(* Failures.  The except block of _run_analysis does not roll back: it     *)
(* commits what the session has flushed, with the ERROR status.  When the   *)
(* database is what failed, the session is lost, and the ERROR status with  *)
(* it unless the session could still start a new transaction.               *)
(***************************************************************************)
RaiseInSession(r) ==
    /\ pc[r] \in {"loading", "chunks"}
    /\ Spend("raise")
    /\ Commit(r)
    /\ status' = [status EXCEPT ![r] = "error"]
    /\ pc' = [pc EXCEPT ![r] = "raising"]
    /\ work' = [work EXCEPT ![r] = NoWork]
    /\ UNCHANGED <<ready, oracleVars, apiVars, jobVars, locked>>

\* Mutant: the unlock outside of the finally block.
AbortWithoutUnlock(r, verdict) ==
    /\ status' = [status EXCEPT ![r] = verdict]
    /\ pc' = [pc EXCEPT ![r] = "off"]
    /\ job' = [job EXCEPT ![r] = "failed"]
    /\ work' = [work EXCEPT ![r] = NoWork]
    /\ UNCHANGED <<ready, ledgerVars, oracleVars, apiVars, execs, locked>>

AbortSession(r, verdict) ==
    /\ status' = [status EXCEPT ![r] = verdict]
    /\ pc' = [pc EXCEPT ![r] = "raising"]
    /\ work' = [work EXCEPT ![r] = NoWork]
    /\ UNCHANGED <<ready, ledgerVars, oracleVars, apiVars, jobVars, locked>>

DatabaseFails(r) ==
    /\ pc[r] \in InSession
    /\ Spend("db")
    /\ \E verdict \in {status[r], "error"} : AbortSession(r, verdict)

\* Two transactions wait for each other's row: Postgres aborts one of them.
DeadlockVictim(r) ==
    /\ pc[r] = "chunks"
    /\ \E q \in Runs, e \in work[r].flushed \ work[r].stamped,
          d \in Entry : /\ WaitsFor(r, e, q)
                        /\ d \in work[q].flushed \ work[q].stamped
                        /\ WaitsFor(q, d, r)
    /\ AbortSession(r, status[r])
    /\ UNCHANGED left

\* The lock and the transaction end with the connections; the job stays "doing".
WorkerCrash(r) ==
    /\ pc[r] # "off"
    /\ Spend("crash")
    /\ pc' = [pc EXCEPT ![r] = "off"]
    /\ work' = [work EXCEPT ![r] = NoWork]
    /\ locked' = locked \ {r}
    /\ UNCHANGED <<ready, ledgerVars, oracleVars, status, apiVars, jobVars>>

Request(r) ==
    \/ \E files \in Selections : CheckPendingRows(r, files)
    \/ CheckNoneRunning(r) \/ InsertRun(r) \/ DeferJob(r)

Execute(r) ==
    \/ FetchJob(r) \/ TakeLock(r) \/ LockRefused(r) \/ ReleaseLock(r)
    \/ \E f \in Files : LoadFile(r, f)
    \/ TakeChunk(r)
    \/ \E e \in Entry : PersistLineItem(r, e) \/ MarkRowConsumed(r, e)
    \/ CommitChunk(r) \/ StartPosting(r)
    \/ \E i \in items : CreateReceipt(r, i)
    \/ RecordReceipt(r) \/ CompleteRun(r)
    \/ DeadlockVictim(r)

Fault(r) ==
    \/ RaiseInSession(r) \/ DatabaseFails(r) \/ WorkerCrash(r)
    \/ ApiCrash(r) \/ ResetRun(r)

Next ==
    \/ \E f \in Files : IngestReady(f)
    \/ \E r \in Runs : Request(r) \/ Execute(r) \/ Fault(r)

Spec == Init /\ [][Next]_vars

\* The request handler and the worker keep stepping; users need not ask.
FairSpec ==
    /\ Spec
    /\ \A r \in Runs : /\ WF_vars(InsertRun(r)) /\ WF_vars(DeferJob(r))
                       /\ WF_vars(CheckNoneRunning(r))
                       /\ WF_vars(Execute(r))

-----------------------------------------------------------------------------
(***************************************************************************)
(* Properties                                                              *)
(***************************************************************************)

\* A row is never left consumed without the line item it was consumed for: the
\* run that stamped it has a committed line item for it, whatever crashed,
\* raised or was retried in between (_mark_row_consumed, orchestrator.py:496).
ConsumedHasItem ==
    \A l \in Lines : consumedBy[l] # NoRun =>
        \E i \in items : i.run = consumedBy[l] /\ i.line = l /\ i.src = Ledger

\* The advisory lock: two workers are never inside _run_analysis for the same
\* set of files, even while a failed run is retried next to a new one.
Holding == InSession \cup {"returning", "raising"}
SameFilesExclusive ==
    \A r, q \in Runs : /\ r # q
                       /\ pc[r] \in Holding
                       /\ pc[q] \in Holding
                       => selected[r] # selected[q]

\* A row that one run consumed is not consumed again by another run.
ConsumedOnce ==
    [][\A l \in Lines : consumedBy[l] # NoRun => consumedBy'[l] = consumedBy[l]]_vars

\* Receipts follow committed line items: Oracle never holds a receipt of a line
\* item that a rollback took away, and "success" is only written when it holds one.
ReceiptsBacked == oracle \subseteq items /\ created \subseteq oracle

\* A COMPLETED run has the outcome of the receipt of each of its line items.
CompletedIsPosted ==
    \A r \in Runs : status[r] = "completed" =>
        \A i \in items : i.run = r => i \in created \cup failed

\* A receipt that already succeeded is not sent to Oracle again.
ReceiptSentOnce ==
    [][\A r \in Runs : \A d \in work'[r].draft \ work[r].draft :
          d.item \notin created]_vars

\* One line item for each statement row, over all runs and executions.
OneItemPerRow ==
    \A i, j \in items : (i.line = j.line /\ i.src = Ledger /\ j.src = Ledger) => i = j

\* One line item for each bank credit line, whichever way it was read.
OneItemPerLine == \A i, j \in items : i.line = j.line => i = j

\* The line item of a row and the stamp on the row are committed together.
ItemAndStampTogether ==
    \A i \in items : i.src = Ledger => consumedBy[i.line] # NoRun

\* Every run that was started stops being RUNNING.
RunEnds == \A r \in Runs : (status[r] = "running") ~> (status[r] # "running")

\* An advisory lock that was taken is released.
LockFreed == \A r \in Runs : (r \in locked) ~> (r \notin locked)

(***************************************************************************)
(* What the ledger promises: RowLedger, where a row is booked at the moment *)
(* it is consumed and never again.                                          *)
(***************************************************************************)
Bookings == [l \in Lines |-> Cardinality({i \in items : i.line = l /\ i.src = Ledger})]
Promise == INSTANCE RowLedger WITH bookings <- Bookings
LedgerPromise == Promise!Spec
============================================================================
