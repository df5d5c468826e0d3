----------------------------- MODULE AgingStore -----------------------------
(***************************************************************************)
(* The aging report: the files it is loaded from, the snapshot in Postgres, *)
(* the cache of it in each process, and what an analysis run sees of it.    *)
(*                                                                         *)
(* Sources: app/aging/aging_store.py, watcher.py, uploader.py, parser.py    *)
(* (refresh_aging_map), app/bff/config_routes.py, the readers in            *)
(* orchestrator.py, remittance_recheck.py and fusion_client.py.             *)
(*                                                                         *)
(* Only the API process changes the report, in request handlers and in the  *)
(* watcher's thread.  Sessions do not autoflush, so that the flag of the    *)
(* chosen file is written at the commit and those of the others before.     *)
(***************************************************************************)
EXTENDS Integers, Sequences, FiniteSets

CONSTANTS
    Names,          \* filenames
    Contents,       \* contents of a report
    Unreadable,     \* contents that the parser rejects
    None,
    Api,            \* the process of the routes and the watcher
    Workers,        \* processes of the job worker and the recheck worker
    Tasks,          \* requests and watcher scans under way at the same time
    Readers,        \* threads that look up the report
    ProcessOf,      \* the process of each reader
    Uploaded,       \* filenames of the reports uploaded, and removed, in the past
    MaxRequests,    \* bound on requests and files dropped in the watch folder
    MaxReads,       \* bound on the readers' uses
    MaxRestarts,    \* bound on restarts
    MaxFaults       \* bound on database failures and crashes of the API

Processes == {Api} \cup Workers
Report == [name : Names, content : Contents]

ASSUME ReportAssumption ==
    Names # {} /\ Unreadable \subseteq Contents /\ None \notin Contents \cup Report
ASSUME UploadedAssumption == Uploaded \in Seq(Names)
ASSUME ReaderAssumption == ProcessOf \in [Readers -> Processes]
ASSUME BoundsAssumption ==
    MaxRequests \in Nat /\ MaxReads \in Nat /\ MaxRestarts \in Nat /\ MaxFaults \in Nat

VARIABLES
    sources,    \* source_files of kind aging_report, in the order of their upload
    stored,     \* bytes under each storage key
    folder,     \* the watch folder
    processed,  \* filenames the watcher has seen
    snapshot,   \* app_config "aging_map_snapshot"
    cache,      \* _state of each process
    task,       \* what each request or scan has done
    reader,     \* what each reader has got
    calm,       \* so far no two changes, or change and lookup in the API, overlapped, and
                \* nothing failed (for the properties)
    requested, reads, restarts, faults
vars == <<sources, stored, folder, processed, snapshot, cache, task, reader,
          calm, requested, reads, restarts, faults>>
bounds == <<calm, requested, reads, restarts, faults>>

Source == [name : Names, archived : BOOLEAN]
Task == [op : {"none", "upload", "refresh", "remove", "select", "watch"},
         step : {"idle", "begun", "flagged", "cached", "saved", "persisted"},
         name : Names,
         source : Nat,         \* the row chosen; 0: a new one
         loaded : BOOLEAN,     \* its flag as the session loaded it
         locks : SUBSET Nat,   \* rows this transaction archives
         report : Report \cup {None}]      \* what it parsed
Reader == [step : {"idle", "missed", "loaded", "filled", "using"},
           found : Report \cup {None},     \* what it read from the snapshot
           report : Report \cup {None}]    \* the report the run was evaluated with

TypeOK ==
    /\ sources \in Seq(Source)
    /\ stored \in [Names -> Contents \cup {None}]
    /\ folder \in [Names -> Contents \cup {None}]
    /\ processed \in SUBSET Names
    /\ snapshot \in Report \cup {None}
    /\ cache \in [Processes -> Report \cup {None}]
    /\ task \in [Tasks -> Task]
    /\ \A t \in Tasks : task[t].source \in 0..Len(sources) /\ task[t].locks \subseteq DOMAIN sources
    /\ reader \in [Readers -> Reader]
    /\ calm \in BOOLEAN /\ requested \in Nat /\ reads \in Nat /\ restarts \in Nat /\ faults \in Nat

IdleTask == [op |-> "none", step |-> "idle", name |-> CHOOSE n \in Names : TRUE,
             source |-> 0, loaded |-> FALSE, locks |-> {}, report |-> None]
IdleReader == [step |-> "idle", found |-> None, report |-> None]

Init ==
    /\ sources = [i \in DOMAIN Uploaded |-> [name |-> Uploaded[i], archived |-> TRUE]]
    /\ stored \in [Names -> Contents \cup {None}]
    /\ \A n \in Names : stored[n] # None <=> \E i \in DOMAIN Uploaded : Uploaded[i] = n
    /\ folder = [n \in Names |-> None]
    /\ processed = {}
    /\ snapshot = None /\ cache = [p \in Processes |-> None]
    /\ task = [t \in Tasks |-> IdleTask]
    /\ reader = [r \in Readers |-> IdleReader]
    /\ calm = TRUE /\ requested = 0 /\ reads = 0 /\ restarts = 0 /\ faults = 0

-----------------------------------------------------------------------------
(***************************************************************************)
(* Requests.  The row locks of an open transaction make others wait.        *)
(***************************************************************************)
Idle(t) == task[t].step = "idle"
Finish(t) == task' = [task EXCEPT ![t] = IdleTask]
LockedFor(t, rows) == \E u \in Tasks \ {t} : task[u].locks \cap rows # {}

Ask == requested < MaxRequests /\ requested' = requested + 1
Filling(r) == ProcessOf[r] = Api /\ reader[r].step \in {"missed", "loaded"}
Quiet == (\A u \in Tasks : Idle(u)) /\ \A r \in Readers : ~Filling(r)
Start(t) == Idle(t) /\ calm' = (calm /\ Quiet)
Begin(t, op, name, i) ==
    /\ Start(t) /\ Ask
    /\ task' = [task EXCEPT ![t] = [IdleTask EXCEPT !.op = op, !.step = "begun", !.name = name,
                                                    !.source = i]]
    /\ UNCHANGED <<folder, processed, snapshot, cache, reader, reads, restarts, faults>>

\* handle_aging_upload: the bytes, then a row of its own; nothing is loaded or archived.
Upload(t, name, content) ==
    /\ Begin(t, "upload", name, 0)
    /\ stored' = [stored EXCEPT ![name] = content]
    /\ UNCHANGED sources

InsertSource(t) ==
    /\ task[t].op = "upload" /\ task[t].step = "begun"
    /\ sources' = Append(sources, [name |-> task[t].name, archived |-> FALSE])
    /\ Finish(t)
    /\ UNCHANGED <<stored, folder, processed, snapshot, cache, reader, bounds>>

\* The latest upload that is not archived, as refresh and remove choose it.
Latest == {i \in DOMAIN sources : /\ ~sources[i].archived
                                  /\ \A k \in DOMAIN sources : ~sources[k].archived => k <= i}

Refresh(t) ==
    \E i \in Latest : Begin(t, "refresh", sources[i].name, i) /\ UNCHANGED <<sources, stored>>

Remove(t) ==
    /\ Start(t) /\ Ask
    /\ ~LockedFor(t, Latest)
    /\ sources' = [i \in DOMAIN sources |->
                      IF i \in Latest THEN [sources[i] EXCEPT !.archived = TRUE] ELSE sources[i]]
    /\ task' = [task EXCEPT ![t] = [IdleTask EXCEPT !.op = "remove", !.step = "begun"]]
    /\ UNCHANGED <<stored, folder, processed, snapshot, cache, reader, reads, restarts, faults>>

ClearCache(t) ==
    /\ task[t].op = "remove" /\ task[t].step = "begun"
    /\ cache' = [cache EXCEPT ![Api] = None]
    /\ task' = [task EXCEPT ![t].step = "cached"]
    /\ UNCHANGED <<sources, stored, folder, processed, snapshot, reader, bounds>>

\* Mutant: an empty snapshot is written instead of none.
EmptySnapshot(t) ==
    /\ task[t].op = "remove" /\ task[t].step = "cached"
    /\ snapshot' = [name |-> task[t].name, content |-> None]
    /\ Finish(t)
    /\ UNCHANGED <<sources, stored, folder, processed, cache, reader, bounds>>

DeleteSnapshot(t) ==
    /\ task[t].op = "remove" /\ task[t].step = "cached"
    /\ snapshot' = None
    /\ Finish(t)
    /\ UNCHANGED <<sources, stored, folder, processed, cache, reader, bounds>>

\* Mutant: the flags committed before the report is loaded.
FlagOthersAtOnce(t, op, name, i, others) ==
    /\ sources' = [k \in DOMAIN sources |-> [sources[k] EXCEPT !.archived = (@ \/ k \in others) /\ k # i]]
    /\ task' = [task EXCEPT ![t] =
          [op |-> op, step |-> "flagged", name |-> name, source |-> i, locks |-> {}, report |-> None,
           loaded |-> FALSE]]
    /\ UNCHANGED <<stored, snapshot, cache, reader, reads, restarts, faults>>

\* UPDATE of all other rows: not visible before the commit.
FlagOthers(t, op, name, i, others) ==
    /\ ~LockedFor(t, others)
    /\ task' = [task EXCEPT ![t] =
          [op |-> op, step |-> "flagged", name |-> name, source |-> i, locks |-> others, report |-> None,
           loaded |-> IF i = 0 THEN FALSE ELSE sources[i].archived]]
    /\ UNCHANGED <<sources, stored, snapshot, cache, reader, reads, restarts, faults>>

Select(t, i) ==
    /\ Start(t) /\ Ask
    /\ FlagOthers(t, "select", sources[i].name, i, DOMAIN sources \ {i})
    /\ UNCHANGED <<folder, processed>>

-----------------------------------------------------------------------------
(* The watcher: one thread, which takes a filename as seen before it works on it. *)

DropFile(name, content) ==
    /\ Ask
    /\ folder' = [folder EXCEPT ![name] = content]
    /\ UNCHANGED <<sources, stored, processed, snapshot, cache, task, reader, calm, reads, restarts, faults>>

Watch(t, name) ==
    /\ Start(t) /\ \A u \in Tasks : task[u].op # "watch"
    /\ folder[name] # None /\ name \notin processed
    /\ processed' = processed \cup {name}
    /\ stored' = [stored EXCEPT ![name] = folder[name]]
    /\ task' = [task EXCEPT ![t] = [IdleTask EXCEPT !.op = "watch", !.step = "begun", !.name = name]]
    /\ UNCHANGED <<sources, folder, snapshot, cache, reader, requested, reads, restarts, faults>>

\* The row with the filename, or a new one; rows of other filenames are archived.
WatchedRow(name) == {i \in DOMAIN sources : /\ sources[i].name = name
                                            /\ \A k \in 1..(i - 1) : sources[k].name # name}
FlagWatched(t) ==
    LET name == task[t].name
        row == WatchedRow(name)
    IN  /\ task[t].op = "watch" /\ task[t].step = "begun"
        /\ FlagOthers(t, "watch", name, IF row = {} THEN 0 ELSE CHOOSE i \in row : TRUE,
                      {i \in DOMAIN sources : sources[i].name # name})
        /\ UNCHANGED <<folder, processed, calm, requested>>

-----------------------------------------------------------------------------
(***************************************************************************)
(* refresh_aging_map: parse, set the cache, persist the snapshot in a       *)
(* session of its own; then the flags are committed.                        *)
(***************************************************************************)
Loading(t) == \/ task[t].op = "refresh" /\ task[t].step = "begun"
              \/ task[t].op \in {"select", "watch"} /\ task[t].step = "flagged"
ReportOf(t) == [name |-> task[t].name, content |-> stored[task[t].name]]

\* Mutant: a file that failed stays in the set of processed ones.
FailForGood(t) == Finish(t) /\ UNCHANGED processed

\* Roll back; a scan will come back to its file.
Fail(t) ==
    /\ Finish(t)
    /\ processed' = IF task[t].op = "watch" THEN processed \ {task[t].name} ELSE processed

Unparsable(t) ==
    /\ Loading(t) /\ stored[task[t].name] \in Unreadable
    /\ Fail(t)
    /\ UNCHANGED <<sources, stored, folder, snapshot, cache, reader, bounds>>

SetCache(t) ==
    /\ Loading(t) /\ stored[task[t].name] \notin Unreadable
    /\ cache' = [cache EXCEPT ![Api] = ReportOf(t)]
    /\ task' = [task EXCEPT ![t].step = "cached", ![t].report = ReportOf(t)]
    /\ UNCHANGED <<sources, stored, folder, processed, snapshot, reader, bounds>>

Parsed(t) == task[t].op \in {"refresh", "select", "watch"} /\ task[t].step = "cached"

\* Mutant: a caller that passes no raw rows.
PersistNothing(t) ==
    /\ Parsed(t)
    /\ task' = [task EXCEPT ![t] = IF task[t].op = "refresh" THEN IdleTask ELSE [@ EXCEPT !.step = "persisted"]]
    /\ UNCHANGED <<sources, stored, folder, processed, snapshot, cache, reader, bounds>>

Persist(t) ==
    /\ Parsed(t)
    /\ snapshot' = task[t].report
    /\ task' = [task EXCEPT ![t] = IF @.op = "refresh" THEN IdleTask ELSE [@ EXCEPT !.step = "persisted"]]
    /\ UNCHANGED <<sources, stored, folder, processed, cache, reader, bounds>>

\* The flags: the others were archived in the transaction; the own one is written when it
\* differs from what was loaded.
Own(t) == IF task[t].loaded THEN {task[t].source} ELSE {}
CommitFlags(t) ==
    /\ task[t].step = "persisted" /\ ~LockedFor(t, Own(t))
    /\ LET flagged == [i \in DOMAIN sources |->
                [sources[i] EXCEPT !.archived = (@ \/ i \in task[t].locks) /\ i \notin Own(t)]]
       IN  sources' = IF task[t].source # 0 THEN flagged
                      ELSE Append(flagged, [name |-> task[t].name, archived |-> FALSE])
    /\ Finish(t)
    /\ UNCHANGED <<stored, folder, processed, snapshot, cache, reader, bounds>>

\* Two transactions that archived each other's row: PostgreSQL ends one.
Deadlocked(t) ==
    /\ task[t].step = "persisted"
    /\ \E u \in Tasks \ {t} : /\ task[u].step = "persisted"
                              /\ task[u].locks \cap Own(t) # {} /\ task[t].locks \cap Own(u) # {}
DeadlockVictim(t) ==
    /\ Deadlocked(t)
    /\ Fail(t)
    /\ UNCHANGED <<sources, stored, folder, snapshot, cache, reader, bounds>>

\* The database fails at the snapshot or at the commit of the flags.
DatabaseFails(t) ==
    /\ faults < MaxFaults /\ faults' = faults + 1 /\ calm' = FALSE
    /\ task[t].step \in {"cached", "persisted"}
    /\ Fail(t)
    /\ UNCHANGED <<sources, stored, folder, snapshot, cache, reader, requested, reads, restarts>>

-----------------------------------------------------------------------------
(***************************************************************************)
(* get_aging_map: the cache, else the snapshot, which then is the cache.    *)
(* A run asks when it starts and again for the customer of a receipt.       *)
(***************************************************************************)
\* Mutant: every lookup goes to the database.
NoCacheOf(r) == snapshot

CacheOf(r) == cache[ProcessOf[r]]
Goes(r, step) == reader' = [reader EXCEPT ![r].step = step]
Uses(r, report) == reader' = [reader EXCEPT ![r].step = "using", ![r].found = None, ![r].report = report]

LookUp(r) ==
    /\ reader[r].step = "idle" /\ reads < MaxReads /\ reads' = reads + 1
    /\ IF CacheOf(r) # None THEN Uses(r, CacheOf(r)) ELSE Goes(r, "missed")
    /\ calm' = (calm /\ (CacheOf(r) = None /\ ProcessOf[r] = Api => Quiet))
    /\ UNCHANGED <<sources, stored, folder, processed, snapshot, cache, task, requested, restarts, faults>>

LoadSnapshot(r) ==
    /\ reader[r].step = "missed"
    /\ IF snapshot = None
         THEN reader' = [reader EXCEPT ![r] = IdleReader]      \* "No aging map loaded"
         ELSE reader' = [reader EXCEPT ![r].step = "loaded", ![r].found = snapshot]
    /\ UNCHANGED <<sources, stored, folder, processed, snapshot, cache, task, bounds>>

FillCache(r) ==
    /\ reader[r].step = "loaded"
    /\ cache' = [cache EXCEPT ![ProcessOf[r]] = reader[r].found]
    /\ Goes(r, "filled")
    /\ UNCHANGED <<sources, stored, folder, processed, snapshot, task, bounds>>

ReturnCached(r) ==      \* _state is read again, without the lock
    /\ reader[r].step = "filled"
    /\ IF CacheOf(r) # None THEN Uses(r, CacheOf(r)) ELSE reader' = [reader EXCEPT ![r] = IdleReader]
    /\ UNCHANGED <<sources, stored, folder, processed, snapshot, cache, task, bounds>>

EndUse(r) ==
    /\ reader[r].step = "using"
    /\ reader' = [reader EXCEPT ![r] = IdleReader]
    /\ UNCHANGED <<sources, stored, folder, processed, snapshot, cache, task, bounds>>

\* A process starts again, in the middle of its work when faults are left for that.
Restart(p) ==
    /\ restarts < MaxRestarts /\ restarts' = restarts + 1
    /\ IF p = Api /\ \E t \in Tasks : ~Idle(t)
         THEN faults < MaxFaults /\ faults' = faults + 1 /\ calm' = FALSE
         ELSE UNCHANGED <<calm, faults>>
    /\ cache' = [cache EXCEPT ![p] = None]
    /\ reader' = [r \in Readers |-> IF ProcessOf[r] = p THEN IdleReader ELSE reader[r]]
    /\ IF p = Api THEN task' = [t \in Tasks |-> IdleTask] /\ processed' = {}
                  ELSE UNCHANGED <<task, processed>>
    /\ UNCHANGED <<sources, stored, folder, snapshot, requested, reads>>

-----------------------------------------------------------------------------
Work(t) ==
    \/ InsertSource(t) \/ ClearCache(t) \/ DeleteSnapshot(t) \/ FlagWatched(t)
    \/ Unparsable(t) \/ SetCache(t) \/ Persist(t) \/ CommitFlags(t) \/ DeadlockVictim(t)
Scan == \E t \in Tasks, name \in Names : Watch(t, name)
Request ==
    \/ \E t \in Tasks, name \in Names, content \in Contents : Upload(t, name, content)
    \/ \E t \in Tasks : Refresh(t) \/ Remove(t) \/ \E i \in DOMAIN sources : Select(t, i)
    \/ \E name \in Names, content \in Contents : DropFile(name, content)
Read(r) == LoadSnapshot(r) \/ FillCache(r) \/ ReturnCached(r) \/ EndUse(r)

Next ==
    \/ Request \/ Scan
    \/ \E t \in Tasks : Work(t) \/ DatabaseFails(t)
    \/ \E r \in Readers : LookUp(r) \/ Read(r)
    \/ \E p \in Processes : Restart(p)

Spec == Init /\ [][Next]_vars

\* Handlers run to their end, and the watcher polls for ever; a scan goes through all the
\* files, so that none is passed over because of another.
FairSpec ==
    /\ Spec
    /\ WF_vars(\E t \in Tasks : Work(t))
    /\ \A name \in Names : SF_vars(\E t \in Tasks : Watch(t, name))

-----------------------------------------------------------------------------
(* Properties *)

AtRest == \A t \in Tasks : Idle(t)

\* With one change at a time and no failure of the database the history shows as active the
\* file that every process would load: a file that does not parse does not take the place
\* of the one in use (the patch notes of watcher.py and config_routes.py).
SnapshotIsActive ==
    calm /\ AtRest /\ snapshot # None =>
        \E i \in DOMAIN sources : sources[i].name = snapshot.name /\ ~sources[i].archived

\* Likewise the API's own cache is the snapshot, through refreshes, removals, restarts and the
\* lookups that fill it.
ApiHasSnapshot == calm /\ AtRest => cache[Api] \in {None, snapshot}

\* The report a run was evaluated with is still the one its receipts are made from: a worker
\* keeps what it loaded, whatever the API replaces or removes meanwhile.
RunKeepsReport ==
    \A r \in Readers : ProcessOf[r] # Api /\ reader[r].step = "using" => CacheOf(r) = reader[r].report

\* A report that waits in the watch folder is loaded in the end, although bad files come
\* first, the database fails or the API restarts.
Waiting(name) == folder[name] \notin Unreadable \cup {None} /\ name \notin processed
Loaded(name) == cache[Api] # None /\ cache[Api].name = name
WatchedIsLoaded ==
    \A name \in Names : Waiting(name) ~> Loaded(name) \/ folder[name] \in Unreadable

-----------------------------------------------------------------------------
(* What the documentation says and the code does not do. *)

\* aging_store.py: "backed by a Postgres snapshot so every process sees the same data".
SameData == \A p, q \in Processes : AtRest => cache[p] = None \/ cache[q] \in {None, cache[p]}

\* The same sentence, of the API alone: a lookup that fills the cache late puts an old report
\* over a new one, and so do two changes at a time.
ApiIsCurrent == faults = 0 /\ AtRest => cache[Api] \in {None, snapshot}

\* config_routes.py: "Exactly one row has is_active=true at any moment" (once one has).
OneActive == \A i, k \in DOMAIN sources : ~sources[i].archived /\ ~sources[k].archived => i = k

\* config_routes.py, of the active row: "the one currently held in aging_store's in-memory
\* AgingMap".
ActiveIsLoaded ==
    AtRest /\ cache[Api] # None => \A i \in DOMAIN sources :
        ~sources[i].archived => sources[i].name = cache[Api].name
=============================================================================
