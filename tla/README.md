# CashApply backend: TLA+ models, checks and proofs

This directory holds TLA+ models of the CashApply backend (`src/app`), the TLC
configurations that check them on small instances, and proofs, checked by TLAPS,
of theorems about them for every value of their constants.

CashApply takes bank statements, turns each credit line into a *line item*,
decides by rules which open invoices of the aging report the credit pays, creates
a receipt for it in Oracle Fusion and, when a SPOC approves, attaches invoice
references to that receipt. It is a FastAPI application, a procrastinate worker and a
remittance recheck worker over one PostgreSQL database (READ COMMITTED; nothing
uses `SELECT ... FOR UPDATE`, and no column is a SQLAlchemy `version_id_col`). What
is hard about it is what these three do to the same rows at the same time, and what
is left behind when one of them fails in the middle.

## 1. Inventory

| Part | State it keeps | Operations | Works with |
|---|---|---|---|
| Analysis run: `bff/run_routes.py`, `tasks/analysis_tasks.py`, `rule_engine/orchestrator.py` | `analysis_runs`, the procrastinate job, the advisory lock, `consumed_by_run_id`, `line_items`, `oracle_post_status` | start, reset, defer, fetch, lock, load, chunk, flush, stamp, commit, post receipts, complete; retry | Ingestion (rows), Extraction, Rule engine, Oracle |
| Review (HITL): `hitl/service.py`, `hitl/manual_mapping.py`, `bff/hitl_routes.py`, `bff/metrics.py` | the review columns of `line_items`, `version` | approve, bulk approve, reject, retry, map by hand | Oracle, Aging report, recheck |
| Remittance recheck: `rule_engine/remittance_recheck.py`, its worker | the same rows | recheck one row, recheck all | Rule engine, Aging report |
| Oracle client: `oracle/` | none of its own; receipts and references are Oracle's | create receipt, post reference | external |
| Ingestion: `ingestion/`, `tasks/ingestion_tasks.py` | `source_files` (status, account, hash, archived), `statement_transaction_rows`, `bank_accounts`, stored bytes by filename | upload, restore, retry of a failed upload, re-ingest, archive, ingest job | Storage, Detection |
| Aging report: `aging/`, `bff/config_routes.py` | the map each process caches, its snapshot in `app_config`, aging rows, history | upload, watch a folder, refresh, clear, activate | Review, run, recheck |
| Rule engine: `rule_engine/evaluator.py`, `fx_service.py`, `ou_resolver.py`, `remittance_lookup.py` | an FX cache per run | evaluate a row, split an amount, look up a remittance, resolve OU and rate | external FX source |
| Extraction: `extraction/` | none (threads over chunks) | regex layer, language-model layer, merge | external model |
| Statement parsing and detection: `bank_statement/` | the registry of onboarded accounts, read from `bank_accounts` and their recipes at each detection | detect, locate the account, resolve the unit, parse | Config builder, Ingestion |
| Configuration builder: `bff/config_builder_routes.py` | `organization_units`, `bank_accounts`, recipes and their versions | save a recipe, delete an account or a recipe | Ingestion, Detection |
| Authentication and administration: `auth/`, `bff/admin_routes.py`, `scripts/seed_rbac.py` | users, roles | sign in, onboard, change a role, deactivate, bootstrap | all routes |
| Storage, audit, AI usage, reports, scripts | files; append-only logs | | |

Which behaviours are hard, and what makes each part correct:

* **Analysis run.** Two start requests race past the "already running" check; two
  workers run at once; a job is retried on top of what its failed execution committed; the
  process dies anywhere. Correct means: a credit row gets one line item, a row is stamped if
  and only if the line item is there, a run ends, and Oracle gets one receipt for each item.
* **Review.** A request reads the row, talks to Oracle for up to a minute for each call,
  and then writes. Correct means: no decision is lost, no invoice is referenced twice, nothing is
  posted that was rejected or that the SPOC did not see.
* **Recheck.** It may only move rows that still wait for a remittance.
* **Ingestion.** Duplicate bytes, duplicate rows, two jobs for one file, a retry after an
  error, archive and restore, accounts that appear and vanish in the Config Builder meanwhile.
  Correct means: one ledger row for each distinct line of an account, whole statements, no
  dangling reference, and a status that ends.
* **Aging report.** The history, the snapshot and the cache of each process should name the same
  report; a failed load must leave the previous one in force; a report put into the watch folder is
  loaded in the end.
* **Extraction and rule engine.** Every row gets one line item whatever the model answers or fails
  to answer; what may be posted pays what is open; the split adds up to the amount received; the
  mapping by hand classifies as the evaluator does; one rate for one pair and day.
* **Administration.** No request takes the last active administrator away; a person keeps the row
  that the first sign-in bound.

`PROJECT.json` lists the hazards line by line, with the property that covers each one
or the reason why none does.

## 2. Modules

| Module | What it is |
|---|---|
| `AnalysisRuns` | the analysis run, from the request to the last receipt |
| `RowLedger` | what the run promises of the ledger, abstractly: a row is consumed once and booked in that same step |
| `Hitl` | one line item under review: SPOC requests, recheck, Step 4.5, Oracle |
| `Ingestion` | uploads, stored bytes, the ingest job, bank accounts, the Config Builder beside them |
| `StatementLedger` | what ingestion promises of the ledger: it grows by whole statements, each row once for its account |
| `AgingStore` | files, folder, snapshot and caches of the aging report, and what a run sees of it |
| `Administration` | sign-in, onboarding, roles, activation and bootstrap of users |
| `RuleEngine` | the decision on one credit row, as operators |
| `Extraction` | chunks, the two layers, batches, fallback, merge (extends `RuleEngine`) |
| `RowPipeline` | the composition of the last two: credit rows to line items and receipts (extends `Extraction`) |
| `MC...` | small values of the constants for TLC |
| `..._proofs` | theorems and their proofs |

### AnalysisRuns

One run of the model is one `analysis_runs` row with the one job deferred for it. State
and code:

| Variable | Code |
|---|---|
| `ready` | files whose `ingest_status` is "ready"; their rows are in the ledger |
| `consumedBy` | `StatementTransactionRow.consumed_by_run_id` |
| `items` | committed `LineItem`s: run, credit line, where it was read, which execution of the job |
| `created`, `failed`, `oracle` | `oracle_post_status`; what Oracle really holds |
| `status`, `selected`, `api` | the run row and the request that makes it |
| `job`, `execs` | procrastinate's job status and its attempts |
| `pc`, `work` | where the worker is and its uncommitted session |
| `locked` | runs whose worker holds `pg_try_advisory_lock` |
| `left` | faults still allowed (a bound) |

A transaction is what the others see of it: rows that were flushed or stamped sit in `work` until
`CommitChunk` (or the `except` block, which commits too) makes them visible. Because the
session does not autoflush and the isolation is READ COMMITTED, the rows read by `LoadFile` are
stale when `MarkRowConsumed` stamps them, and an UPDATE waits for another open
transaction that updated the row (`WaitsFor`); two that wait for each other lose one
(`DeadlockVictim`). Extraction appears as the rows a chunk may lose (`TakeChunk`).

`LockFree` compares file sets, because the key is the hash of the sorted filenames;
`Unconsumed` goes by bank account, because the query does. Most of what the model says about
concurrency follows from this difference.

Abstracted: narratives, amounts, rules, FX (they are in `RowPipeline`). `AccountOf` and `LinesOf`
say what a file holds after row deduplication; files that share a line belong to one account. A
filename names one `SourceFile`; a ready file is not ingested again while a run uses it (the life of
files is in `Ingestion`). Oracle is assumed to accept every request that
reaches it; whether it rejects a repeated ReceiptNumber is not something the code knows.

### Hitl

One row, several sessions. Each request copies the row (`Begin`), works on the copy while
it talks to Oracle (`CreateReceipt`, `PostReference`) and commits. `Written` is
SQLAlchemy's UPDATE: the columns in which the copy differs from what was read, and no
other. That, and not "last writer wins on the whole row", decides which of two
requests is lost and how. `Evaluations` are the results `evaluate_row` can have for a row whose
remittance lists some invoices; `Category` is `_category_for_row`. A bulk approval is the
approvals of its rows, each without `expected_version`. `Answers` covers an Oracle that
refuses, and one that accepts and whose answer is lost. The log of activities and the history
rows are left out.

### Ingestion

| Variable | Code |
|---|---|
| `files` | `source_files` in the order of their ids: name, hash (None for a file of the Config Builder's wizard, which has no row in `statement_file_hashes`), archived, `ingest_status`, `ou_number` as detected, `bank_account_id` |
| `stored` | the bytes under a storage key, which is the filename |
| `saved` | history: all bytes that were ever saved under a key |
| `ledger` | `statement_transaction_rows`, each with the execution and line that inserted it |
| `registry` | `bank_accounts` by (number, bank name), with the recipe; the Config Builder and the job both write it |
| `request` | upload and reingest requests between their transactions |
| `jobs` | the deferred jobs with what their session has read |

An upload saves the bytes, then inserts the file under `UNIQUE(file_hash)`, restores an archived
one or asks again for one that failed, and defers the job in a step of its own: a crash in between
is `faults`. The job has parts that other transactions fall between: detection reads the
registry (`JobDetect`), and again for the unit (`JobResolve`), parsing reads the stored bytes
(`JobParse`), and the account is looked up,
healed or created (`JobLookup`, `JobCreate`, under the unique key) before one commit writes rows,
account and status (`JobCommit`, `Inserted`: `ON CONFLICT DO NOTHING` on account and row hash; rows
without an account have no key and are never dropped). `Stamped` is SQLAlchemy's UPDATE of the
columns the session changed. A detection that raises ends like one without a match (`Detected`). `SaveRecipe` and `DeleteAccount` are the Config Builder beside it.

Two accounts with the same last four digits, a parser that names the bank differently from the wizard and
a recipe without an account number are values of `Suffix`, `ParsedBank` and `NoNumber`.

### AgingStore

One API process (routes and watcher) and worker processes. `sources`, `stored`, `folder`,
`snapshot`, `cache` are the history, the storage, the watch folder, the `app_config` row and `_state`
of each process; `task` is a request or a scan between its transactions, with the rows its open
transaction has archived (`locks`, which make others wait, and `Deadlocked` if in a circle); `reader`
is a thread in `get_aging_map`, which looks into the cache, then reads the snapshot, then fills the
cache, with nothing locked in between. Because a session does not autoflush, the flag of the chosen
file is written at the commit and those of the others before. `calm` is a history variable: no two changes, and no
change and lookup in the API, overlapped so far, and nothing failed.

### Administration

`users` are the rows by address (oid None: the placeholder `pending:<email>`), `local` the
environment in which an `X-Dev-User` header may stand for a token (a request without the header
is identified by its token there too), `request` a request between its two transactions: sign-in, with
the adoption of an invited row, is committed before the permission and the guards are read; what they
read is written at the end. `counted`, in a request that has passed its checks, is a history variable: who the
active administrators were then. `SeedUser` is the bootstrap script, at any time, for any address and with
any role: `--dev-role` takes one, and an existing row gets it without a look at the other administrators.
`calm` says that no two requests overlapped so far.

### RuleEngine, Extraction, RowPipeline

`RuleEngine` has no state: lookups in the aging map (with the fallback to the base number and the
cut-off at the customer limit), business units of a customer, rates (cache, Oracle, static map direct,
inverse or by way of the dollar, the latter two rounded to the scale `RateScale`, which is 10^6 in the
code), remittance lookup (2 %, 10 days), the resolved invoices, the split of
the amount, the rule table in the order of `evaluate_row`, `_classify` of the mapping by hand, whose tolerance is a constant of
its own (`DefaultTolerancePct`, 12) beside the engine's setting (`TolerancePct`), the amounts in the
payloads. Amounts are whole hundredths, a rate is a quotient; that a sum of floats may be off in the
last place is `drift`, a choice of -1, 0 or 1 thousandths of a hundredth wherever several amounts
are added. A name similarity is a table (`Score`).

`Extraction` runs chunks and their batches in any order: layer 2A (`Confirmed`, what the report knows of
the numbers written in the row), the batches of layer 2B with their three fates (answered, asked row by
row, raised), `_validate_ai_output`, and the merge. `RowPipeline` evaluates what they give, chunk by
chunk, with a commit each, and an evaluation that raises (`DividesByZero`) ends the run and
commits what was flushed. What the model answers is any function into `Answers`; the regular
expressions and the scanning of cells are in `written` and `text` of a credit.

## 3. Runs

Passing runs (every action of every module is taken in one of them):

| Run | Question | Bounds |
|---|---|---|
| `AnalysisRuns_same` | two runs of the same file, every fault once: is the ledger consistent with the items, is the lock exclusive, are receipts backed? | 2 runs, 2 workers, 1 file, 2 lines, 2 executions, chunk of 2 |
| `AnalysisRuns_overlap` | two overlapping runs on one account: does a stamp still come with its line item, through row-lock waits and deadlock victims? | 2 workers, 2 files, 2 lines, 1 execution, no faults |
| `AnalysisRuns_one_worker` | with the one worker process of the set-up guide, does the run implement `RowLedger`, does each started run end, and is the lock released? | fair, 1 worker, overlapping files, 2 executions, a database failure |
| `Hitl_one_spoc` | what holds beside the recheck and Step 4.5, with crashes and a failing Oracle? | 2 invoices, 4 requests |
| `Hitl_two_spocs` | and with two SPOC requests at a time? | 1 invoice, 3 requests |
| `Ingestion` | does ingestion implement `StatementLedger`, is every ready file complete, does nothing dangle, and does every file end? | fair, 1 name, 3 contents that overlap (one without an account number), 2 requests, 2 jobs at a time, 2 executions each, 2 changes, 1 fault |
| `AgingStore` | which report is in force after uploads, refreshes, removals, selections, restarts and failures, and is a watched file loaded? | fair, 2 names, a readable and an unreadable content, a reader in each process, 2 requests, 1 restart, 1 fault |
| `Administration` | who takes the last administrator away in any order and overlap of requests, and does every person keep their row? | 2 people, 3 addresses, 2 roles, 2 requests at a time, 5 requests and runs of the script in all |
| `RowPipeline` | one item for every row, sound postable rows, sums that add up, one rate, the same bands by hand? | 5 credits in 2 chunks, batches of 2, 2 reports, with and without remittances, every rate call up or down, engine's tolerance 10 %, rates to 3 decimals |

Two runs, two lines and two files are enough for what can go wrong between runs: each property
relates at most two runs and one row, the deadlock needs two rows, and a row that is
lost or booked twice needs two executions (of one run or of two). A chunk of 2 puts a partial commit
inside a chunk, a chunk of 1 puts it between chunks. A file without a bank account appears in no run
of `AnalysisRuns`; the proofs cover it. `MaxExecutions = 2` is the
first execution and one retry; `retry=2` allows more of the same. Each kind of fault
happens at most once: every passing property survives any number of them in the
proofs where there is one. In `Hitl` two invoices tell a partial mapping from a
complete one, and four requests are an approval, its failure, a retry and a request that disturbs
them. In `Ingestion` one filename makes every upload overwrite the one before, two jobs with two
executions give every overlap of a job with a retry of another, and two changes are a save and a
removal. In `AgingStore` two tasks make every overlap of two changes; a third would repeat it. In
`Administration` two requests race, and five are enough to invite, adopt, promote and demote beside a
run of the script. The
credits of `RowPipeline` are chosen so that each rule, the fallback, a row of layer 2A, a row without
a text and both chunks occur, and one shortfall of 11 % falls between the engine's tolerance and that of the
mapping by hand; the instance has no symmetry, as every value means something else.

Deadlock checking is off where, once requests and faults are used up, nothing
has to happen. In `RowPipeline` it is on: until the run is evaluated or has failed some step is
enabled, so that a run never waits for a batch or chunk that does not come.

*Where the properties hold and where they do not.* `ConsumedOnce` and `LedgerPromise` of
`AnalysisRuns` hold for one worker, or where selections do not share an account; for two workers on one account
they do not (`AnalysisRuns_x_double`). `RejectStands` and `ProcessedIsPosted` hold for one SPOC request at a time and
not for two: a rejection is lost to an approval under way (`Hitl_x_lost_reject`), and two retries beside each
other, with a mapping in between, break the other with four requests (`Hitl_x_payload`), three are not enough.
`RejectStands` says that a rejected row stays so and nothing more of it is posted, and leaves one way out, which
the code has: the retry of a mapping that failed before the rejection (`Hitl_x_retry_rejected`).
`ReferencePostedOnce` holds without retries, crashes and concurrent SPOCs. `SomeAdmin` holds for any overlap and
names the two ways in which the last administrator goes, a stale count and the script; that nothing else than the script, or
nothing at all, does it is false (`Administration_x`). `BoundForGood`, `SnapshotIsActive` and `ApiHasSnapshot`
hold for one change at a time (`calm`). `ReadyIsComplete` speaks of the statements that were saved under the file's name: they are
the file's own until an upload overwrites them (`Ingestion_x_overwritten`). `HandAgrees` holds outside
the shortfalls that round to nothing or lie between the two tolerances, and
`ReferencesAddUp` as long as no share is zero. The
passing runs draw these borders on purpose, and the other configurations step over them.

Runs that end in a counterexample, each against a sentence of the repository (quoted with
its line in `PROJECT.json`):

| Run | What happens |
|---|---|
| `AnalysisRuns_x_double` | the lock is keyed by filenames, the rows by account: a row gets two line items |
| `Hitl_x_double_post` | two approvals of one version both pass the check and both post |
| `Ingestion_x_shared` | a statement with the lines of two accounts: all rows go to the first line's account, and a row that both have is dropped |

Further configurations, outside the list of runs, reproduce other places where the code and a
sentence about it part, or show on an instance of its own what a run leaves out
(`tlc -config <name>.cfg MC<module>`). Where a configuration
names several properties, the others are commented out in the file.

| Configuration | Property | What happens | The sentence |
|---|---|---|---|
| `AnalysisRuns_two_accounts` | `ConsumedOnce`, `ReceiptSentOnce` | holds: two workers on different accounts, chunk of 1, exception and crash | |
| `AnalysisRuns_x_together` | `ItemAndStampTogether` | an exception after the flush: the `except` block commits the line item without its stamp | `orchestrator.py:499` "both flushed together, both committed together"; design doc:639 |
| `AnalysisRuns_x_receipt` | `ReceiptSentOnce` | Step 4.5 of a retried job takes every line item of the run (`orchestrator.py:740-748`) and posts receipts that succeeded again | `receipt_creation.py:40` "Does NOT re-create a receipt that already succeeded" |
| `AnalysisRuns_x_legacy` | `OneItemPerLine` | a file selected during its ingestion is booked from the file (`orchestrator.py:620-643`), and again from the ledger by the next run | design doc:27 "A `Run` no longer re-parses a file"; `models.py:595` |
| `AnalysisRuns_x_crash` | `RunEnds` | a dead worker leaves its run RUNNING, which blocks every later start (`run_routes.py:295`) | `orchestrator.py:102`, design doc:480, of the thread that the job queue replaced: "no crash-survival", "can't survive an app restart mid-run" |
| `Hitl_no_retry` | `ReferencePostedOnce` | holds: without retries and a second SPOC the category gate keeps references from being posted twice | |
| `Hitl_x_demoted` | `RecheckKeepsWaiting` | a remittance without an invoice turns a waiting row into an unidentified one | `remittance_recheck.py:118` "leave the row exactly as it was" |
| `Hitl_x_lost_reject` | `RejectStands` | with two SPOCs, an approval under way still posts a row that was rejected meanwhile, and then overwrites the rejection (`hitl/service.py:248-259`) | design doc:638 "a conflict, not a silent overwrite" |
| `Hitl_x_payload` | `ProcessedIsPosted` | two retries at a time, a mapping between their reads: the row gets the invoices of one and the "success" of the other | `hitl/service.py:207-209` "two SPOCs acting on the same row concurrently get a conflict" |
| `Hitl_x_retry_rejected` | `RejectedNotPosted` | a retry posts a row that was rejected after its failure (`hitl/service.py:352`) | `hitl/service.py:355` "no category gate needed here" |
| `Hitl_x_remap` | `ProcessedKeepsMapping` | a processed row is mapped to other invoices (`manual_mapping.py:205`) | `manual_mapping.py:7-8` "anything except ready_for_oracle and processed" |
| `Hitl_x_mapped` | `MappedIsReady` | a rejected or failed row that was mapped by hand keeps that category (`metrics.py:110-116`) and cannot be approved | `manual_mapping.py:236` "Row moved to Ready for Oracle — use Approve to post it." |
| `Hitl_x_overwritten` | `RecheckLeavesDecided` | the recheck overwrites a mapping made between its query and its commit (`remittance_recheck.py:178-183`) | `remittance_recheck.py:160` "is left alone" |
| `Hitl_x_stale_view` | `ApprovedAsSeen` | an approval with the right version posts invoices the SPOC has not seen, because mapping and recheck leave the version alone | `hitl/service.py:217` "was modified by another user since you loaded it" |
| `Ingestion_x_reingest` | `RowsOnce` | rows without an account have no key in the row hash's constraint: a second execution inserts them again | `ingest_service.py` "Idempotent: safe to re-run for the same source_file_id" |
| `Ingestion_x_second_account` | `OneAccountPerNumber` | the parser's bank name differs from the wizard's: the job creates a second account for the number | `models.py` on `BankAccount` "one row per onboarded bank account" |
| `Ingestion_x_heal` | `HealsOnlyStubs` | the look-up by last four digits finds another, onboarded account and heals its unit | `ingest_service.py` "never clears one out or overwrites with something worse" |
| `Ingestion_x_overwritten` | `BytesMatchHash` | another upload of the same filename has replaced the bytes that a restore or retry parses | `ingest_service.py` "the bytes (and the storage key they were saved under) haven't changed" |
| `AgingStore_x_active` | `OneActive`, `ActiveIsLoaded` | two changes at a time, or an upload that nothing loads, leave two active rows, or one that is not the loaded one | `config_routes.py` "Exactly one row has is_active=true at any moment" |
| `AgingStore_x_same_data` | `SameData`, `ApiIsCurrent` | a worker keeps what it loaded for ever; a lookup that fills the API's cache late puts an old report over a new one | `aging_store.py` "backed by a Postgres snapshot so every process sees the same data" |
| `Administration_x` | `AlwaysSomeAdmin`, `NeverLockedOut`, `NeverRebound`, `LastMeansTarget` | two administrators demote each other; the script gives the last one another role (`seed_rbac.py:95`); two first sign-ins adopt one row, the second for good; the guard does not read the target's own flag | `_is_last_active_admin` "Used to prevent locking everyone out of user management"; `dependencies.py` "an email already bound to a different real oid is treated as not-onboarded" |
| `RowPipeline_x` | `ReferencesAlwaysAddUp` | a share of zero is sent to Oracle as the whole outstanding amount | `evaluator.py` "reference amounts MUST sum to the credited amount expressed in INVOICE currency" |
| | `OverpaidIsR11` | with a target of zero any amount is an exact match | `evaluator.py` "All overpayments ... are routed to R11" |
| | `EqualIsExact` | equal sums of floats may differ | the definition of R9a |
| | `StaticNeverPosted`, `SourceOfRate` | a static rate reaches the payload; the source stamped on the row comes from a second call | `fx_service.py` "NEVER use these for Oracle posting" |
| | `AmountIsConverted` | without a rate the credited amount is sent in the invoices' currency | `fusion_client.py`, the receipt's amount |
| | `OneRowAtMostLost` | a confidence that is no number loses the batch | `layer_2b_ai.py` "a single malformed batch response doesn't blank out every row in it" |
| | `UnknownHasNothing` | the customer that layer 2A found is dropped with the row | `schemas/extraction.py` "neither Layer 2A nor Layer 2B found anything" |
| | `HandMirrors` | with another setting for the engine, a shortfall between it and 12 % is R9c for the engine and R9b by hand | `manual_mapping.py:115-116` "same formula, same tolerance, same rule IDs" |
| | `NeverRaises` | invoices that are all settled make the split divide by zero, which ends the run | |
| `RowPipeline_x_wrong_ou` | `WrongOuIsWrong` | a customer after the limit of a unit counts as another unit's | `ou_resolver.py` "Returns all OU numbers where this customer has open invoices" |

### Fairness

`FairSpec` of `AnalysisRuns` assumes weak fairness of the steps of a start request that has
begun (one HTTP handler, which runs to its end) and of the steps of a worker (a loop that
polls for jobs, then straight code). It assumes nothing of users, ingestion, faults or
resets. With it, `RunEnds` and `LockFreed` hold while processes live and a retry is
left for the failure (`AnalysisRuns_one_worker`), and `AnalysisRuns_x_crash`
shows the same formula under the same fairness failing when one dies.

`FairSpec` of `Ingestion` assumes that the API goes on with some request while there is one (handlers
run to their end), and the worker with some job (its loop polls for ever). `IngestEnds` is
claimed as long as no process has died (`Undisturbed`): a file whose job was never deferred, or whose
worker died, does stay in "processing".

`FairSpec` of `AgingStore` assumes weak fairness of handlers and of the watcher's thread, and for each
filename strong fairness of the scan that takes it: a scan goes through all files of the folder, so
that the one it is busy with can delay another but not keep it out. `WatchedIsLoaded` then
holds through bad files, database failures and restarts.

`Administration`, `Hitl` and `RowPipeline` have no liveness property. In the first two nothing has to
happen; a run of `RowPipeline` takes finitely many steps (each chunk, batch, row and commit
advances one counter), so that the deadlock check says that it ends.

## 4. Proofs

The `_proofs` modules prove, for all values of the constants that meet the modules' assumptions:

| Module | Theorem | Statement |
|---|---|---|
| `AnalysisRuns_proofs` | `TypeCorrect` | `Spec => []TypeOK` |
| | `ConsumedHasItemAlways` | `Spec => []ConsumedHasItem` |
| | `SameFilesExclusiveAlways` | `Spec => []SameFilesExclusive` |
| | `ConsumedOnceIfApart` | `Spec => ConsumedOnce`, if different selections reach different rows or there is one worker |
| | `ItemAndStampTogetherIfWhole` | `Spec /\ [][RaisedWhole]_vars => []ItemAndStampTogether` |
| | `OneItemPerRowIfWhole`, `RunsKeepPromise` | `Spec /\ [][RaisedWhole]_vars => []OneItemPerRow`, `... => LedgerPromise` (the run implements `RowLedger`), under the condition of `ConsumedOnceIfApart` |
| | `ReceiptsBackedAlways`, `CompletedIsPostedAlways` | `Spec => []ReceiptsBacked`, `Spec => []CompletedIsPosted` |
| `Hitl_proofs` | `HitlTypeCorrect` | `Spec => []TypeOK` |
| | `OutcomeOfDecisionAlways`, `ReceiptFirstAlways` | `Spec => []OutcomeOfDecision`, `Spec => []ReceiptFirst` |
| | `ProcessedIsPostedAlone`, `RejectStandsAlone` | `OneSpoc => (Spec => []ProcessedIsPosted)`, `OneSpoc => (Spec => RejectStands)` |
| `Ingestion_proofs` | `IngestionTypeCorrect` | `Spec => []TypeOK` |
| | `LedgerUniqueAlways`, `BytesListedOnceAlways`, `AccountsExistAlways`, `ReadyIsCompleteAlways` | `Spec => []` of the property each is named for |
| | `IngestionKeepsPromise` | `Spec => LedgerPromise`: ingestion implements `StatementLedger` |
| `AgingStore_proofs` | `AgingStoreTypeCorrect` | `Spec => []TypeOK` |
| | `RunKeepsReportAlways` | `Spec => []RunKeepsReport`, if no two readers share a process |
| | `SnapshotIsActiveAlways`, `ApiHasSnapshotAlways` | `Spec => []SnapshotIsActive`, `Spec => []ApiHasSnapshot` |
| `Administration_proofs` | `AdministrationTypeCorrect` | `Spec => []TypeOK` |
| | `SomeAdminAlways`, `BoundForGoodAlways` | `Spec => SomeAdmin`, `Spec => BoundForGood` (whose premise is `calm`) |
| `RuleEngine_proofs` | lemmas only | what the operators return for any input: sums, lists in order, splits, rounding, bands |
| `RowPipeline_proofs` | `PipelineInvariant` | `Spec => []PipelineInv`, the inductive invariant |
| | `TypeOKAlways`, `EveryRowOnceAlways`, `UnknownInvoiceIsRemittedAlways`, `ReferencesAddUpAlways`, `HandAgreesAlways`, `SameRateAlways` | `Spec => []` of the property each is named for |
| | `PostableIsSoundOfCredits` | `Spec => []PostableIsSound`, if no credit is negative and the tolerance is below 100 % |

*AnalysisRuns.* `ConsumedHasItem` alone is not inductive: that a stamp is only ever
committed with its item depends on a session's stamps being among its flushed line
items. The invariant adds this, and that what a session holds was read for the run it works for.
For the lock: a worker inside `_run_analysis` is in `locked`, and two runs in `locked`
have different file sets; a run that is executing never changes its selection.
For `ConsumedOnce`, the rows in a session are unconsumed or consumed by the run itself, which
needs that selections are apart (`DisjointSelections`: other runs with other files do not reach the same
rows, which is exactly what the lock key does not see) or that there is one worker, so that no two runs
are in their sessions at once. The theorem so says under which
condition the lock is enough, and `AnalysisRuns_x_double` is the instance in which the
condition fails. The promise of `RowLedger` needs one thing more: the `except` block commits what the session
has flushed, so that an exception between flush and stamp leaves a line item alone
(`AnalysisRuns_x_together`). `RaisedWhole` says of every step that no exception is raised there; it
is a hypothesis on the behaviour, allows every other exception, crash and retry, and is the exact
place where the code and its comment part. Under it every commit takes the items and the stamps of the same
rows (`WholeCommits`), `Booked` (a consumed row has exactly one item, an unconsumed one none) is kept,
and each step is a step of `RowLedger` or a stutter.
`Backed` adds to `ReceiptsBacked` that what Step 4.5 still has to post is committed and
that an answer that says yes is about a receipt Oracle holds; `Outcomes` that while a run posts each of
its items has an outcome, or waits for its request or its answer, and that a COMPLETED run is
never fetched again.

*Hitl.* The invariant relates the row and each session's two copies of it (as read, as changed):
versions do not run backwards; an outcome of the mapping or an approval comes with a decision in
each of them, so that whichever columns a commit mixes (`Written`), the row that results has the
relation again; and wherever "success" is written as the receipt's status, Oracle holds
a receipt. Lemma `WrittenColumns` is the core: each column of the committed row comes from the copy
or from the row. The two theorems for one SPOC rest on two more invariants. `Matched`: a row with R7 has no
invoices and one with R9 or an outcome of its mapping has some, in the row and in both copies of an open session; a row that
has invoices keeps some. `Undisturbed`: while the one SPOC request is open, the row's decision is as it
read it, what its copy calls posted is in Oracle or the posting has gone wrong, and the copies of the recheck and of Step 4.5
change no decision. For two SPOCs both theorems are false, and TLC has the counterexamples.

*Ingestion.* `TypeOK` is not inductive either: the invariant (`TInv`) adds what a job's session holds
at each of its steps, and that the files and accounts it names exist or are gone. Every
step is then classified once (`NextSteps`): it keeps the files, adds one, changes the registry, or
is the commit of a job. All later theorems go by these few cases. That the commit leaves no row out
(`CommitComplete`) looks at the first line of the statement with the row: it was inserted unless an
earlier execution had done so. That there is a first line is lemma `Least`, from the
well-foundedness of the naturals. That what it parsed was saved under the name of its file is `WasSaved`, for jobs and for
what is stored; `saved` only grows (`SavedGrows`), and `CompleteStays` keeps a complete file complete. `IngestionKeepsPromise` maps the commit to `AddStatement` and every
other step to a stutter.

*AgingStore.* `StepsFit` says what a task has at each step; `CalmInv`, under `calm`, that one task at most is
under way, and how snapshot, cache and history relate at each of its steps and of a lookup in the
API. `RunKeepsReport` needs that a worker process has one reader, as the worker and the recheck have;
two threads that both miss the cache could load different snapshots.

*Administration.* For `SomeAdmin`, `NeverTheOnly`: a request that has passed its checks and will demote or disable
its target has not counted the target alone. If its count still holds when it writes, another active
administrator stays; the other actions but the script only add administrators. For `BoundForGood`, under `calm` one
request at most is past its sign-in, and the placeholder that an identified request is to adopt is
still one.

*RuleEngine.* A recursive definition is out of the prover's reach, and so are the folds the sums are made
with; `SumExists` and `SumAgrees` get around it: by the size of the subsets
there is a function, and only one, that has the sum of every subset, and the fold is it. From there sums unfold by one
element (`SumStep`), are integers, and add over disjoint sets. `InOrderOf` says that a filtered list holds the values at the
chosen numbers, each once; `NthOf` has the counting. `SplitAddsUp` is the arithmetic of the split: the last share
absorbs what rounding took from or gave to the others, so that the stated amounts sum to what was received,
whatever the amounts and their signs. `BandIsSound` is the arithmetic of the bands for any integers and any
drift of the sum, `HandLikeBand` that of the mapping by hand against it, for any tolerance of the engine. `RuleIs` reads the rule table: a
row has the rule of a line only if that line's condition holds and no earlier one does.

*RowPipeline.* None of the properties is inductive. `PipelineInv` is, of three parts. `ExtractionInv`: the batches of a chunk are
disjoint and cover its rows with a text that layer 2A did not settle; a batch that is asked row by row holds some of its rows and has some left, any other holds none;
a chunk's buckets hold each of its rows once, except those a batch still holds or lost, and only invoices that
the report knows. `Walk`: the items of the current chunk follow its buckets slot by slot, and the
committed ones are the rows of the chunks before it, which is how "every row once" survives the
commits. `ItemsFine`: of each item, what its evaluation established; report and remittances do not change during a run, so that
it holds for ever. For `SameRate`, the cache only grows (`LegKeeps`), and each item's rate is the
cached one of its pair and day; that a rate in the cache is positive (`CacheRated`) is what makes a
converted credit a whole number that is not negative. `PostableIsSound` needs its two hypotheses: the parser keeps
credits only, and with a tolerance of 100 % a credit of nothing would be an acceptable short payment of credit notes.

What the proofs rest on, besides the `ASSUME`s of the modules: that the constants have the types that the
tables and the API schemas give them (`RuleAssumption`, `ExtractionAssumption`, `RemittanceAssumption`; rates
are quotients of positive naturals; TLC evaluates all of them on the instance). The proofs also changed the model where it
was wrong: `Rounded` is now right for negative divisors (the total of credit notes), `LeftToSplit`
looks at the last remittance line of a number, which is the one the code keeps, and a run without rows is
evaluated at once.
Filters and sums are written with `InOrder` and `SumFunctionOnSet`, because `SelectSeq` and folds over sequences
have no definition a proof could use.

Every safety invariant and action property of the passing runs is a theorem, those of `AnalysisRuns` and `Hitl` that
hold in some configurations only under the condition that draws the border. Only model-checked are:
`ReferencePostedOnce` (in `Hitl_no_retry.cfg` only), `ReceiptSentOnce` (in `AnalysisRuns_two_accounts.cfg`), that a run of `RowPipeline` never
waits for ever (the deadlock check: ENABLED is out of the prover's reach), and the liveness properties `RunEnds`, `LockFreed`,
`IngestEnds` and `WatchedIsLoaded` (liveness under fairness is, too).

## 5. Not modelled

* The formats of statements and reports, cell scanning, the regular expressions and the language model:
  what they deliver is an input of the models (`Located`, `LinesOf`, `written`, `Answers`), chosen freely.
* Versions of recipes and previews in the Config Builder (a save replaces the recipe as far as
  ingestion can tell), and the cache of JSON files, which are edited at set-up only.
* The layout of Oracle's payloads and the transport below them; token validation (who a token
  names is an input of `Administration`).
* Reports and views (queries without effect), the audit log and the counts of AI usage (records that
  no decision reads), storage beyond the overwriting of a key, one-time scripts but for the bootstrap.

## 6. Plan

Done: `AnalysisRuns`, `RowLedger`, `Hitl`, `Ingestion`, `StatementLedger`, `AgingStore`,
`Administration`, `RuleEngine`, `Extraction`, `RowPipeline`, and the theorems above. Left, in this order:

1. `ReferencePostedOnce` for one SPOC and no retry, and `ReceiptSentOnce` for one execution, as theorems.
2. The border of `ReferencesAddUp` drawn exactly: which inputs make a share zero.
3. The composition of `Ingestion` and `AnalysisRuns`, in which `AccountOf`, `LinesOf` and `ready` become
   state.
