----------------------------- MODULE Ingestion -----------------------------
(***************************************************************************)
(* Bank statements on their way into the ledger: uploads, the files they    *)
(* leave in storage, the background job that recognises and parses a file,  *)
(* and the registry of bank accounts that the Config Builder writes and     *)
(* both detection and the job read (and the job extends).                   *)
(*                                                                         *)
(* Sources: app/ingestion/, app/tasks/ingestion_tasks.py, the upload,       *)
(* reingest and delete routes of app/bff/run_routes.py, app/bank_statement/ *)
(* detector.py, configs/account_loader.py, ou_resolver.py, the builder      *)
(* routes of app/bff/config_builder_routes.py, app/storage/client.py.       *)
(*                                                                         *)
(* A statement is named by its bytes, which its SHA-256 hash stands for.    *)
(* The storage key of an upload is its filename.                            *)
(***************************************************************************)
EXTENDS Integers, Sequences, FiniteSets

CONSTANTS
    Names,          \* filenames
    Contents,       \* bytes of a statement
    Rows,           \* what a row hash covers besides the account
    Numbers,        \* account numbers
    NoNumber,       \* the account number of a recipe that maps none
    Banks,          \* bank names
    Units,          \* organization units
    Layouts,        \* signatures of the parse-relevant part of a recipe
    None,
    Located,        \* account numbers the locators find in the bytes
    LinesOf,        \* credit rows that the parser makes of the bytes
    SavedBank,      \* bank name that the wizard saves for an account
    ParsedBank,     \* bank name that the parser gives to its rows
    Suffix,         \* last four digits of an account number
    Requests,       \* upload and reingest requests under way at the same time
    MaxRequests,    \* bound on the requests that defer a job
    MaxChanges,     \* bound on the changes in the Config Builder and the removals
    MaxExecutions,  \* executions of a job (retry=2)
    Workers,        \* bound on the jobs executed at the same time
    MaxFaults       \* bound on the faults

Line == [number : Numbers \cup {NoNumber}, row : Rows]
Keys == Numbers \X Banks        \* uq_bank_account_number_name
Account == [unit : Units, layout : Layouts \cup {None}]   \* None: no recipe, no last4

ASSUME NamesAssumption ==
    /\ Names # {} /\ Contents # {} /\ NoNumber \notin Numbers
    /\ None \notin Keys \cup Layouts \cup Units \cup Contents \cup Account
ASSUME ContentAssumption ==
    /\ Located \in [Contents -> SUBSET Numbers]
    /\ LinesOf \in [Contents -> Seq(Line)]
    /\ SavedBank \in [Numbers -> Banks]
    /\ ParsedBank \in [Numbers -> Banks]
    /\ Requests # {}
ASSUME BoundsAssumption ==
    /\ MaxRequests \in Nat /\ MaxChanges \in Nat
    /\ MaxExecutions \in Nat /\ Workers \in Nat
    /\ MaxFaults \in Nat

VARIABLES
    files,      \* source_files, in the order of their ids
    stored,     \* bytes under each storage key
    ledger,     \* statement_transaction_rows
    registry,   \* bank_accounts, with the layout of their recipe
    request,    \* HTTP requests: upload, reingest
    jobs,       \* ingest_statement jobs, in the order they were deferred
    asked, changed, faults,   \* requests and changes so far, faults that happened
    saved       \* history: all bytes that were ever saved under a storage key
vars == <<files, stored, saved, ledger, registry, request, jobs, asked, changed, faults>>

File == [name : Names, hash : Contents \cup {None}, archived : BOOLEAN,
         status : {"processing", "ready", "error", "unrecognized", "config_only"},
         unit : Units \cup {None},         \* ou_number, as detected at upload
         account : Keys \cup {None}]       \* bank_account_id
Request == [step : {"idle", "fresh", "restore", "again", "saved", "defer"},
            name : Names, content : Contents, file : Nat]
Job == [file : Nat, tries : Nat,
        step : {"todo", "detected", "resolved", "parsed", "missing", "linked",
                "done", "failed", "dead"},
        content : Contents \cup {None}, found : Numbers \cup {None},
        seen : File \cup {None},           \* the file as the session loaded it
        unit : Units \cup {None},          \* resolved_ou_number
        account : Keys \cup {None},        \* what the session holds of bank_accounts
        writes : {"none", "heal", "create"}]
Entry == [file : Nat, account : Keys \cup {None}, row : Rows, job : Nat, line : Nat]

TypeOK ==
    /\ files \in Seq(File)
    /\ stored \in [Names -> Contents \cup {None}]
    /\ saved \in [Names -> SUBSET Contents]
    /\ ledger \in SUBSET Entry
    /\ registry \in [Keys -> Account \cup {None}]
    /\ request \in [Requests -> Request]
    /\ jobs \in Seq(Job)
    /\ asked \in Nat /\ changed \in Nat
    /\ faults \in Seq({"exception", "worker", "api"})

NewJob(file) == [file |-> file, tries |-> 0, step |-> "todo", content |-> None, found |-> None,
                 seen |-> None, unit |-> None, account |-> None, writes |-> "none"]
Idle == [step |-> "idle", name |-> CHOOSE n \in Names : TRUE,
         content |-> CHOOSE c \in Contents : TRUE, file |-> 0]

Init ==
    /\ files = <<>>
    /\ stored = [n \in Names |-> None]
    /\ saved = [n \in Names |-> {}]
    /\ ledger = {}
    /\ registry = [k \in Keys |-> None]
    /\ request = [u \in Requests |-> Idle]
    /\ jobs = <<>>
    /\ asked = 0 /\ changed = 0
    /\ faults = <<>>

-----------------------------------------------------------------------------
(***************************************************************************)
(* Detection.  The registry is a dictionary by account number: of two rows  *)
(* with one number the later one of an unordered query is seen.             *)
(***************************************************************************)
Held == {k \in Keys : registry[k] # None}
Onboarded == {k \in Held : registry[k].layout # None}
Seen == {s \in SUBSET Held : \A n \in {k[1] : k \in Held} :
                                Cardinality({k \in s : k[1] = n}) = 1}

\* The recipes that match, for one way of seeing the registry.
Matches(content, seen) == {k \in seen \cap Onboarded : k[1] \in Located[content]}

\* What detect_config may find: the account of a single match, any one of several
\* that share a layout; None: UNKNOWN, AMBIGUOUS, or a detection that raised, which is
\* answered like no match.
Detected(content) == {None} \cup UNION {
    LET matches == Matches(content, s)
    IN  IF Cardinality({registry[k].layout : k \in matches}) = 1
        THEN {k[1] : k \in matches} ELSE {} : s \in Seen}

\* The OU that detect_config gives to what it found, by the last four digits; accounts
\* with the same digits overwrite each other in the mapping.
Resolved(found) ==
    LET same == {k \in Onboarded : Suffix[k[1]] = Suffix[found]}
    IN  IF found = None \/ same = {} THEN {None} ELSE {registry[k].unit : k \in same}

-----------------------------------------------------------------------------
(***************************************************************************)
(* Uploads.  The check for duplicates and what follows from it are          *)
(* different transactions; so are the commit and the defer() of the job.    *)
(***************************************************************************)
HashOwner(content) == {i \in DOMAIN files : files[i].hash = content}

Proceed(u, step) == request' = [request EXCEPT ![u].step = step]
Finish(u) == request' = [request EXCEPT ![u] = Idle]

CheckDuplicate(u, name, content) ==
    /\ request[u].step = "idle" /\ asked < MaxRequests
    /\ asked' = asked + 1
    /\ LET ask(step, i) == request' = [request EXCEPT ![u] =
               [step |-> step, name |-> name, content |-> content, file |-> i]]
       IN  \/ HashOwner(content) = {} /\ ask("fresh", 0)
           \/ \E i \in HashOwner(content) :
                \/ files[i].archived /\ ask("restore", i)
                \/ /\ ~files[i].archived
                   /\ files[i].status \in {"error", "unrecognized"}
                   /\ ask("again", i)
                \/ /\ ~files[i].archived      \* rejected as a duplicate
                   /\ files[i].status \notin {"error", "unrecognized"}
                   /\ UNCHANGED request
    /\ UNCHANGED <<files, stored, saved, ledger, registry, jobs, changed, faults>>

\* A file that was removed comes back as it was; the route defers a job all the same.
RestoreFile(u) ==
    /\ request[u].step = "restore"
    /\ files' = [files EXCEPT ![request[u].file].archived = FALSE]
    /\ Proceed(u, "defer")
    /\ UNCHANGED <<stored, saved, ledger, registry, jobs, asked, changed, faults>>

\* Mutant: the retry of an upload resets the status and defers no job.
RetryFileOnly(u) ==
    /\ request[u].step = "again"
    /\ files' = [files EXCEPT ![request[u].file].status = "processing"]
    /\ Finish(u)
    /\ UNCHANGED <<stored, saved, ledger, registry, jobs, asked, changed, faults>>

RetryFile(u) ==
    /\ request[u].step = "again"
    /\ files' = [files EXCEPT ![request[u].file].status = "processing"]
    /\ Proceed(u, "defer")
    /\ UNCHANGED <<stored, saved, ledger, registry, jobs, asked, changed, faults>>

Save(name, content) ==
    /\ stored' = [stored EXCEPT ![name] = content]
    /\ saved' = [saved EXCEPT ![name] = @ \cup {content}]

SaveBytes(u) ==
    /\ request[u].step = "fresh"
    /\ Save(request[u].name, request[u].content)
    /\ Proceed(u, "saved")
    /\ UNCHANGED <<files, ledger, registry, jobs, asked, changed, faults>>

\* Mutant: the hash is not UNIQUE.
InsertFileUnchecked(u) ==
    /\ request[u].step = "saved"
    /\ \E found \in Detected(stored[request[u].name]) :
         files' = Append(files,
             [name |-> request[u].name, hash |-> request[u].content, archived |-> FALSE,
              unit |-> None, account |-> None,
              status |-> IF found = None THEN "unrecognized" ELSE "processing"])
    /\ request' = [request EXCEPT ![u].step = "defer", ![u].file = Len(files')]
    /\ UNCHANGED <<stored, saved, ledger, registry, jobs, asked, changed, faults>>

\* SourceFile and hash are inserted together; UNIQUE(file_hash) turns the loser of a
\* race into a duplicate.
InsertFile(u) ==
    /\ request[u].step = "saved"
    /\ \/ /\ HashOwner(request[u].content) # {}
          /\ Finish(u)
          /\ UNCHANGED files
       \/ /\ HashOwner(request[u].content) = {}
          /\ \E found \in Detected(stored[request[u].name]) :
             \E unit \in Resolved(found) :
                files' = Append(files,
                    [name |-> request[u].name, hash |-> request[u].content,
                     archived |-> FALSE, unit |-> unit, account |-> None,
                     status |-> IF found = None THEN "unrecognized" ELSE "processing"])
          /\ request' = [request EXCEPT ![u].step = "defer", ![u].file = Len(files')]
    /\ UNCHANGED <<stored, saved, ledger, registry, jobs, asked, changed, faults>>

ReingestFile(u, i) ==
    /\ request[u].step = "idle" /\ asked < MaxRequests
    /\ asked' = asked + 1
    /\ files' = [files EXCEPT ![i].status = "processing"]
    /\ request' = [request EXCEPT ![u].step = "defer", ![u].file = i]
    /\ UNCHANGED <<stored, saved, ledger, registry, jobs, changed, faults>>

DeferJob(u) ==
    /\ request[u].step = "defer"
    /\ jobs' = Append(jobs, NewJob(request[u].file))
    /\ Finish(u)
    /\ UNCHANGED <<files, stored, saved, ledger, registry, asked, changed, faults>>

ApiCrash(u) ==
    /\ request[u].step # "idle" /\ Len(faults) < MaxFaults
    /\ faults' = Append(faults, "api")
    /\ Finish(u)
    /\ UNCHANGED <<files, stored, saved, ledger, registry, jobs, asked, changed>>

\* Every listed file of the name is archived; bytes, rows and hash stay.
DeleteFile(name) ==
    /\ changed < MaxChanges
    /\ changed' = changed + 1
    /\ \E i \in DOMAIN files : files[i].name = name /\ ~files[i].archived
    /\ files' = [i \in DOMAIN files |->
                    IF files[i].name = name THEN [files[i] EXCEPT !.archived = TRUE]
                    ELSE files[i]]
    /\ UNCHANGED <<stored, saved, ledger, registry, request, jobs, asked, faults>>

-----------------------------------------------------------------------------
(***************************************************************************)
(* The Config Builder.  An account is deleted with its recipes unless a     *)
(* file or a row of the ledger refers to it (foreign keys).                 *)
(***************************************************************************)
\* A row of bank_accounts that a job has inserted or updated and not yet committed.
LockedBy(j, key) == /\ jobs[j].step = "linked" /\ jobs[j].writes # "none"
                    /\ jobs[j].account = key
Locked(key) == \E j \in DOMAIN jobs : LockedBy(j, key)

\* The wizard's own upload: same storage key, no hash, no job.
BuilderUpload(name, content) ==
    /\ changed < MaxChanges
    /\ changed' = changed + 1
    /\ Save(name, content)
    /\ files' = IF \E i \in DOMAIN files : files[i].name = name THEN files
                ELSE Append(files, [name |-> name, hash |-> None, archived |-> TRUE,
                                    status |-> "config_only", unit |-> None, account |-> None])
    /\ UNCHANGED <<ledger, registry, request, jobs, asked, faults>>

SaveRecipe(number, unit, layout) ==
    LET key == <<number, SavedBank[number]>>
    IN  /\ changed < MaxChanges
        /\ changed' = changed + 1
        /\ ~Locked(key)
        /\ registry' = [registry EXCEPT ![key] = [unit |-> unit, layout |-> layout]]
        /\ UNCHANGED <<files, stored, saved, ledger, request, jobs, asked, faults>>

\* Mutant: an account is deleted whatever refers to it.
DeleteAccountInUse(key) ==
    /\ changed < MaxChanges
    /\ changed' = changed + 1
    /\ registry[key] # None
    /\ registry' = [registry EXCEPT ![key] = None]
    /\ UNCHANGED <<files, stored, saved, ledger, request, jobs, asked, faults>>

DeleteAccount(key) ==
    /\ changed < MaxChanges
    /\ changed' = changed + 1
    /\ registry[key] # None /\ ~Locked(key)
    /\ \A i \in DOMAIN files : files[i].account # key
    /\ \A e \in ledger : e.account # key
    /\ registry' = [registry EXCEPT ![key] = None]
    /\ UNCHANGED <<files, stored, saved, ledger, request, jobs, asked, faults>>

-----------------------------------------------------------------------------
(***************************************************************************)
(* The job: ingest_and_parse in one transaction, read committed.            *)
(***************************************************************************)
Running == {j \in DOMAIN jobs : jobs[j].step \in {"detected", "resolved", "parsed", "missing", "linked"}}
Its(j) == files[jobs[j].file]

Ended(j, step) == jobs' = [jobs EXCEPT ![j] = [NewJob(jobs[j].file) EXCEPT
                               !.tries = jobs[j].tries, !.step = step]]

\* Only a changed attribute is written: a status that is assigned the value it was
\* loaded with stays what it is in the database.
Stamped(j, status, account) ==
    [Its(j) EXCEPT !.status = IF jobs[j].seen.status = status THEN @ ELSE status,
                   !.account = IF account \in {None, jobs[j].seen.account} THEN @ ELSE account]

\* The exception path: roll back, report on the file, leave the rest to the retry.
JobRaises(j) ==
    /\ files' = [files EXCEPT ![jobs[j].file].status = "error"]
    /\ jobs' = [jobs EXCEPT ![j] = [NewJob(jobs[j].file) EXCEPT
                   !.tries = jobs[j].tries + 1,
                   !.step = IF jobs[j].tries + 1 < MaxExecutions THEN "todo" ELSE "failed"]]

JobDetect(j) ==
    /\ jobs[j].step = "todo" /\ Cardinality(Running) < Workers
    /\ \E found \in Detected(stored[Its(j).name]) :
         jobs' = [jobs EXCEPT ![j].step = "detected", ![j].found = found, ![j].seen = Its(j),
                              ![j].content = stored[Its(j).name]]
    /\ UNCHANGED <<files, stored, saved, ledger, registry, request, asked, changed, faults>>

\* No configuration yet: an outcome of its own and not a failure.
JobUnrecognized(j) ==
    /\ jobs[j].step = "detected" /\ jobs[j].found = None
    /\ files' = [files EXCEPT ![jobs[j].file] = Stamped(j, "unrecognized", None)]
    /\ Ended(j, "done")
    /\ UNCHANGED <<stored, saved, ledger, registry, request, asked, changed, faults>>

\* detect_config reads the accounts a second time, for the OU; the file's own is the
\* fallback.
JobResolve(j) ==
    /\ jobs[j].step = "detected" /\ jobs[j].found # None
    /\ \E unit \in Resolved(jobs[j].found) :
         jobs' = [jobs EXCEPT ![j].step = "resolved",
                              ![j].unit = IF unit = None THEN jobs[j].seen.unit ELSE unit]
    /\ UNCHANGED <<files, stored, saved, ledger, registry, request, asked, changed, faults>>

\* The parser opens the file again: local storage may have other bytes by now, a blob was
\* copied once.
JobParse(j) ==
    /\ jobs[j].step = "resolved"
    /\ \E content \in {jobs[j].content, stored[Its(j).name]} :
         jobs' = [jobs EXCEPT ![j].step = "parsed", ![j].content = content]
    /\ UNCHANGED <<files, stored, saved, ledger, registry, request, asked, changed, faults>>

\* The account of all rows: the one the first row names.
NamesAccount(content) == LinesOf[content] # <<>> /\ LinesOf[content][1].number # NoNumber
KeyOf(content) == LET number == LinesOf[content][1].number IN <<number, ParsedBank[number]>>

Link(j, key, writes) ==
    jobs' = [jobs EXCEPT ![j].step = "linked", ![j].account = key, ![j].writes = writes]

JobLookup(j) ==
    /\ jobs[j].step = "parsed"
    /\ LET key == KeyOf(jobs[j].content)
       IN  \/ ~NamesAccount(jobs[j].content) /\ Link(j, None, "none")
           \/ /\ NamesAccount(jobs[j].content) /\ registry[key] = None
              /\ jobs' = [jobs EXCEPT ![j].step = "missing"]
           \/ /\ NamesAccount(jobs[j].content) /\ registry[key] # None
              /\ jobs[j].unit \in {None, registry[key].unit}
              /\ Link(j, key, "none")
           \/ /\ NamesAccount(jobs[j].content) /\ registry[key] # None   \* self-heal
              /\ jobs[j].unit \notin {None, registry[key].unit}
              /\ ~Locked(key)
              /\ Link(j, key, "heal")
    /\ UNCHANGED <<files, stored, saved, ledger, registry, request, asked, changed, faults>>

JobNotMapped(j) ==      \* OUNotMappedError: final, not retried
    /\ jobs[j].step = "missing" /\ jobs[j].unit = None
    /\ files' = [files EXCEPT ![jobs[j].file].status = "error"]
    /\ Ended(j, "done")
    /\ UNCHANGED <<stored, saved, ledger, registry, request, asked, changed, faults>>

\* Mutant: an account is created although no OU is known.
JobCreateUnmapped(j) ==
    /\ jobs[j].step = "missing"
    /\ registry[KeyOf(jobs[j].content)] = None
    /\ Link(j, KeyOf(jobs[j].content), "create")
    /\ UNCHANGED <<files, stored, saved, ledger, registry, request, asked, changed, faults>>

JobCreate(j) ==
    /\ jobs[j].step = "missing" /\ jobs[j].unit # None
    /\ ~Locked(KeyOf(jobs[j].content))
    /\ \/ /\ registry[KeyOf(jobs[j].content)] = None
          /\ Link(j, KeyOf(jobs[j].content), "create")
          /\ UNCHANGED files
       \/ /\ registry[KeyOf(jobs[j].content)] # None      \* uq_bank_account_number_name
          /\ JobRaises(j)
    /\ UNCHANGED <<stored, saved, ledger, registry, request, asked, changed, faults>>

\* Mutants: no unique constraint; a row hash without the account; an off-by-one.
AllLines(j) == {[file |-> jobs[j].file, account |-> jobs[j].account, job |-> j, line |-> l,
                 row |-> LinesOf[jobs[j].content][l].row] : l \in DOMAIN LinesOf[jobs[j].content]}
NewOfAnyAccount(j) == {n \in AllLines(j) : \A e \in ledger : e.row # n.row}
AllButLast(j) == {n \in AllLines(j) : n.line < Len(LinesOf[jobs[j].content])}

\* What ON CONFLICT (bank_account_id, row_hash) DO NOTHING inserts; NULLs never conflict.
Inserted(j) ==
    LET lines == LinesOf[jobs[j].content]
        account == jobs[j].account
        Conflicts(l) == /\ account # None
                        /\ \/ \E e \in ledger : e.account = account /\ e.row = lines[l].row
                           \/ \E k \in 1..(l - 1) : lines[k].row = lines[l].row
    IN  {[file |-> jobs[j].file, account |-> account, row |-> lines[l].row,
          job |-> j, line |-> l] : l \in {i \in DOMAIN lines : ~Conflicts(i)}}

Registered(j) ==
    LET key == jobs[j].account
    IN  CASE jobs[j].writes = "none" -> registry
          [] jobs[j].writes = "heal" -> [registry EXCEPT ![key].unit = jobs[j].unit]
          [] jobs[j].writes = "create" ->
                [registry EXCEPT ![key] = [unit |-> jobs[j].unit, layout |-> None]]

AccountGone(j) == /\ jobs[j].account # None /\ jobs[j].writes # "create"
                  /\ registry[jobs[j].account] = None

\* Rows, account and status in one commit.
JobCommit(j) ==
    /\ jobs[j].step = "linked" /\ ~AccountGone(j)
    /\ ledger' = ledger \cup Inserted(j)
    /\ registry' = Registered(j)
    /\ files' = [files EXCEPT ![jobs[j].file] = Stamped(j, "ready", jobs[j].account)]
    /\ Ended(j, "done")
    /\ UNCHANGED <<stored, saved, request, asked, changed, faults>>

JobAccountGone(j) ==      \* foreign key of the rows
    /\ jobs[j].step = "linked" /\ AccountGone(j)
    /\ JobRaises(j)
    /\ UNCHANGED <<stored, saved, ledger, registry, request, asked, changed, faults>>

JobFails(j) ==      \* a column that is missing, storage or database out of reach
    /\ j \in Running /\ Len(faults) < MaxFaults
    /\ faults' = Append(faults, "exception")
    /\ JobRaises(j)
    /\ UNCHANGED <<stored, saved, ledger, registry, request, asked, changed>>

WorkerCrash(j) ==      \* the job stays "doing"; nobody fetches it again
    /\ j \in Running /\ Len(faults) < MaxFaults
    /\ faults' = Append(faults, "worker")
    /\ Ended(j, "dead")
    /\ UNCHANGED <<files, stored, saved, ledger, registry, request, asked, changed>>

-----------------------------------------------------------------------------
Serve(u) == RestoreFile(u) \/ RetryFile(u) \/ SaveBytes(u) \/ InsertFile(u) \/ DeferJob(u)

Execute(j) ==
    \/ JobDetect(j) \/ JobUnrecognized(j) \/ JobResolve(j) \/ JobParse(j) \/ JobLookup(j)
    \/ JobNotMapped(j) \/ JobCreate(j) \/ JobCommit(j) \/ JobAccountGone(j)

Ask ==
    \/ \E u \in Requests, name \in Names, content \in Contents : CheckDuplicate(u, name, content)
    \/ \E u \in Requests : \E i \in DOMAIN files : ReingestFile(u, i)
    \/ \E name \in Names : DeleteFile(name)
    \/ \E name \in Names, content \in Contents : BuilderUpload(name, content)

Configure ==
    \/ \E number \in Numbers, unit \in Units, layout \in Layouts : SaveRecipe(number, unit, layout)
    \/ \E key \in Keys : DeleteAccount(key)

Fault ==
    \/ \E u \in Requests : ApiCrash(u)
    \/ \E j \in DOMAIN jobs : JobFails(j) \/ WorkerCrash(j)

Next ==
    \/ Ask \/ Configure \/ Fault
    \/ \E u \in Requests : Serve(u)
    \/ \E j \in DOMAIN jobs : Execute(j)

Spec == Init /\ [][Next]_vars

\* The API goes on with some request while there is one, the worker with some job.
Serving == \E u \in Requests : Serve(u)
Executing == \E j \in DOMAIN jobs : Execute(j)
Fairness == WF_vars(Serving) /\ WF_vars(Executing)
FairSpec == Spec /\ Fairness

-----------------------------------------------------------------------------
(* Properties *)

\* uq_statement_row_account_hash: whatever is retried, restored, re-ingested or uploaded in
\* another file, a row of a known account is in the ledger once.
LedgerUnique ==
    \A d, e \in ledger : d.account # None /\ d.account = e.account /\ d.row = e.row => d = e

\* A file that says "ready" has all the rows of a statement that was saved under its name
\* in the ledger, under its account when it has one; these are its own rows as long as no
\* other bytes have come under that name.  Status, account and rows are committed
\* together, and no later execution, failure, restore or removal undoes a part of it.
InLedger(content, account) ==
    \A l \in DOMAIN LinesOf[content] :
        \E e \in ledger : e.account = account /\ e.row = LinesOf[content][l].row
ReadyIsComplete ==
    \A i \in DOMAIN files :
        files[i].status = "ready" \/ files[i].account # None =>
            \E content \in saved[files[i].name] : InLedger(content, files[i].account)

\* The accounts that the files and rows refer to exist: a removal in the Config Builder
\* beside a running job leaves no dangling reference (foreign keys).
AccountsExist ==
    /\ \A i \in DOMAIN files : files[i].account # None => registry[files[i].account] # None
    /\ \A e \in ledger : e.account # None => registry[e.account] # None

\* The hash table decides between concurrent uploads of the same bytes (UNIQUE(file_hash)).
BytesListedOnce ==
    \A i, k \in DOMAIN files : files[i].hash # None /\ files[i].hash = files[k].hash => i = k

\* In the end no file is left in "processing": every status change that needs a job is
\* followed by one, and every job by an answer, unless a process dies on the way.
Undisturbed == \A f \in DOMAIN faults : faults[f] = "exception"
Processing == \E i \in DOMAIN files : files[i].status = "processing"
IngestEnds == <>[](~Undisturbed \/ ~Processing)

\* The ledger, file and job left out, grows by whole statements and loses nothing.
Kept == {<<e.account, e.row>> : e \in ledger}
RowsOf(content) == {LinesOf[content][l].row : l \in DOMAIN LinesOf[content]}
Ledger == INSTANCE StatementLedger WITH
    kept <- Kept, Holders <- Keys \cup {None}, Statements <- {RowsOf(c) : c \in Contents}
LedgerPromise == Ledger!Spec

-----------------------------------------------------------------------------
(* What the documentation says and the code does not do. *)

\* row_hash.py: "Scoped to bank_account_id: the same amount/date/reference on two different
\* accounts is not a duplicate." Every line of a file that is ready is in the ledger under
\* an account with the number of the line.
RowsKeptApart ==
    \A i \in DOMAIN files : \A c \in Contents :
        files[i].status = "ready" /\ files[i].hash = c =>
            \A l \in DOMAIN LinesOf[c] : LinesOf[c][l].number # NoNumber =>
                \E e \in ledger : /\ e.account # None /\ e.account[1] = LinesOf[c][l].number
                                  /\ e.row = LinesOf[c][l].row

\* ingest_service.py: "Idempotent: safe to re-run for the same source_file_id".
RowsOnce ==
    \A d, e \in ledger : d.file = e.file /\ d.line = e.line => d = e

\* models.py, BankAccount: "one row per onboarded bank account".
OneAccountPerNumber == \A k, m \in Held : k[1] = m[1] => k = m

\* ingest_service.py: the self-heal "never clears one out or overwrites with something
\* worse": only the Config Builder takes an account away from the unit it was onboarded to.
HealsOnlyStubs ==
    [][changed' # changed \/ \A k \in Onboarded : registry'[k].unit = registry[k].unit]_vars

\* ingest_service.py on a retry: "the bytes (and the storage key they were saved under)
\* haven't changed".
BytesMatchHash ==
    \A i \in DOMAIN files : files[i].hash # None => stored[files[i].name] = files[i].hash
=============================================================================
