------------------------- MODULE AnalysisRuns_proofs -------------------------
EXTENDS AnalysisRuns, FiniteSetTheorems, TLAPS

\* The rows a query for a file returns are lines, unconsumed ones within its scope.
LEMMA UnconsumedLines ==
    ASSUME NEW f \in Files
    PROVE  /\ Unconsumed(f) \subseteq Lines \cap Reach(f)
           /\ \A l \in Unconsumed(f) : consumedBy[l] = NoRun
<1>1. SUFFICES ASSUME NEW l \in Unconsumed(f)
               PROVE  l \in Lines /\ l \in Reach(f) /\ consumedBy[l] = NoRun
  OBVIOUS
<1>2. PICK g \in SameScope(f) : l \in LinesOf[g]
  BY DEF Unconsumed
<1>3. g \in Files
  BY DEF SameScope
<1>4. QED
  BY <1>2, <1>3, AccountAssumption DEF Unconsumed, Reach

\* Each step of an execution keeps the sessions well-formed.
LEMMA SessionTyped ==
    ASSUME NEW r \in Runs, work \in [Runs -> Work], items \subseteq Item,
           \/ \E f \in Files : LoadFile(r, f)
           \/ TakeChunk(r)
           \/ \E e \in Entry : PersistLineItem(r, e) \/ MarkRowConsumed(r, e)
           \/ StartPosting(r)
           \/ \E i \in items : CreateReceipt(r, i)
           \/ RecordReceipt(r)
    PROVE  work' \in [Runs -> Work]
<1>1. ASSUME NEW f \in Files, LoadFile(r, f) PROVE work' \in [Runs -> Work]
  <2>1. PICK read \in RowsReadFrom(f) :
          work' = [work EXCEPT ![r].unread = @ \ {f}, ![r].rows = @ \cup read]
    BY <1>1 DEF LoadFile
  <2>2. LinesOf[f] \subseteq Lines /\ Unconsumed(f) \subseteq Lines
    BY UnconsumedLines, AccountAssumption
  <2>3. read \subseteq Entry
    <3>1. \/ read = [line : Unconsumed(f), src : {Ledger}]
          \/ read = [line : LinesOf[f], src : {f}]
          \/ read = {}
      BY <2>1 DEF RowsReadFrom
    <3>2. [line : Unconsumed(f), src : {Ledger}] \subseteq Entry
      BY <2>2 DEF Entry
    <3>3. [line : LinesOf[f], src : {f}] \subseteq Entry
      BY <2>2 DEF Entry
    <3>4. QED
      BY <3>1, <3>2, <3>3
  <2>4. QED
    BY ZenonT(40), <2>1, <2>3 DEF Work
<1>2. ASSUME TakeChunk(r) PROVE work' \in [Runs -> Work]
  <2>1. PICK C \in SUBSET work[r].rows :
          \E kept \in SUBSET C :
            work' = [work EXCEPT ![r].rows = @ \ C, ![r].chunk = kept]
    BY <1>2 DEF TakeChunk
  <2>2. PICK kept \in SUBSET C :
          work' = [work EXCEPT ![r].rows = @ \ C, ![r].chunk = kept]
    BY <2>1
  <2>3. QED
    BY ZenonT(40), <2>2 DEF Work
<1>3. ASSUME NEW e \in Entry, PersistLineItem(r, e) PROVE work' \in [Runs -> Work]
  <2>1. work' = [work EXCEPT ![r].chunk = @ \ {e}, ![r].flushed = @ \cup {e}]
    BY <1>3 DEF PersistLineItem
  <2>2. QED
    BY ZenonT(40), <2>1 DEF Work
<1>4. ASSUME NEW e \in Entry, MarkRowConsumed(r, e) PROVE work' \in [Runs -> Work]
  <2>1. work' = [work EXCEPT ![r].stamped = @ \cup {e}]
    BY <1>4 DEF MarkRowConsumed
  <2>2. QED
    BY <2>1 DEF Work
<1>5. ASSUME StartPosting(r) PROVE work' \in [Runs -> Work]
  <2>1. work' = [work EXCEPT ![r].toPost = {i \in items : i.run = r}]
    BY <1>5 DEF StartPosting
  <2>2. QED
    BY <2>1 DEF Work
<1>6. ASSUME NEW i \in items, CreateReceipt(r, i) PROVE work' \in [Runs -> Work]
  <2>1. PICK ok \in BOOLEAN :
          work' = [work EXCEPT ![r].toPost = @ \ {i},
                               ![r].draft = {[item |-> i, ok |-> ok]}]
    BY <1>6 DEF CreateReceipt
  <2>2. {[item |-> i, ok |-> ok]} \subseteq [item : Item, ok : BOOLEAN]
    OBVIOUS
  <2>3. QED
    BY ZenonT(40), <2>1, <2>2 DEF Work
<1>7. ASSUME RecordReceipt(r) PROVE work' \in [Runs -> Work]
  <2>1. work' = [work EXCEPT ![r].draft = {}]
    BY <1>7 DEF RecordReceipt
  <2>2. QED
    BY <2>1 DEF Work
<1>8. QED
    BY <1>1, <1>2, <1>3, <1>4, <1>5, <1>6, <1>7

\* How the request, the job, the worker and the lock of a run go together.
Control ==
    \A r \in Runs :
        /\ api[r] # "done" => job[r] = "none" /\ execs[r] = 0
        /\ job[r] = "todo" => execs[r] < MaxExecutions
        /\ pc[r] # "off" => job[r] = "doing" /\ execs[r] >= 1
        /\ r \in locked <=> pc[r] \in Holding
        /\ pc[r] \notin InSession => work[r] = NoWork

\* Every step keeps the types, given where the sessions are in their execution.
LEMMA TypeStep == TypeOK /\ Control /\ [Next]_vars => TypeOK'
<1> SUFFICES ASSUME TypeOK, Control, [Next]_vars PROVE TypeOK'
  OBVIOUS
<1> USE RunsAssumption, AccountAssumption, SelectionAssumption, BoundAssumption
    DEF TypeOK, Control, ledgerVars, oracleVars, apiVars, jobVars
<1>1. ASSUME NEW f \in Files, IngestReady(f)
      PROVE  TypeOK'
  BY <1>1 DEF IngestReady, InSession, Faults, Work, Entry, Item, NoWork
<1>2. ASSUME NEW r \in Runs, NEW files \in Selections, CheckPendingRows(r, files)
      PROVE  TypeOK'
  BY <1>2 DEF CheckPendingRows, InSession, Faults, Work, Entry, Item, NoWork
<1>3. ASSUME NEW r \in Runs, CheckNoneRunning(r)
      PROVE  TypeOK'
  BY <1>3 DEF CheckNoneRunning, InSession, Faults, Work, Entry, Item, NoWork
<1>4. ASSUME NEW r \in Runs, InsertRun(r)
      PROVE  TypeOK'
  BY <1>4 DEF InsertRun, InSession, Faults, Work, Entry, Item, NoWork
<1>5. ASSUME NEW r \in Runs, DeferJob(r)
      PROVE  TypeOK'
  BY <1>5 DEF DeferJob, InSession, Faults, Work, Entry, Item, NoWork
<1>6. ASSUME NEW r \in Runs, ApiCrash(r)
      PROVE  TypeOK'
  BY <1>6 DEF ApiCrash, Spend, InSession, Faults, Work, Entry, Item, NoWork
<1>7. ASSUME NEW r \in Runs, ResetRun(r)
      PROVE  TypeOK'
  BY <1>7 DEF ResetRun, Spend, InSession, Faults, Work, Entry, Item, NoWork
<1>8. ASSUME NEW r \in Runs, FetchJob(r)
      PROVE  TypeOK'
  BY <1>8 DEF FetchJob, InSession, Faults, Work, Entry, Item, NoWork
<1>9. ASSUME NEW r \in Runs, TakeLock(r)
      PROVE  TypeOK'
  BY <1>9 DEF TakeLock, InSession, Faults, Work, Entry, Item, NoWork
<1>10. ASSUME NEW r \in Runs, LockRefused(r)
      PROVE  TypeOK'
  BY <1>10 DEF LockRefused, InSession, Faults, Work, Entry, Item, NoWork
<1>11. ASSUME NEW r \in Runs, ReleaseLock(r)
      PROVE  TypeOK'
  BY <1>11 DEF ReleaseLock, InSession, Faults, Work, Entry, Item, NoWork
<1>12. ASSUME NEW r \in Runs, NEW f \in Files, LoadFile(r, f)
      PROVE  TypeOK'
  <2>1. work' \in [Runs -> Work]
    BY <1>12, SessionTyped
  <2>2. QED
    BY <1>12, <2>1 DEF LoadFile, InSession
<1>13. ASSUME NEW r \in Runs, TakeChunk(r)
      PROVE  TypeOK'
  <2>1. work' \in [Runs -> Work]
    BY <1>13, SessionTyped
  <2>2. QED
    BY <1>13, <2>1 DEF TakeChunk, InSession
<1>14. ASSUME NEW r \in Runs, NEW e \in Entry, PersistLineItem(r, e)
      PROVE  TypeOK'
  <2>1. work' \in [Runs -> Work]
    BY <1>14, SessionTyped
  <2>2. QED
    BY <1>14, <2>1 DEF PersistLineItem, InSession
<1>15. ASSUME NEW r \in Runs, NEW e \in Entry, MarkRowConsumed(r, e)
      PROVE  TypeOK'
  <2>1. work' \in [Runs -> Work]
    BY <1>15, SessionTyped
  <2>2. QED
    BY <1>15, <2>1 DEF MarkRowConsumed, InSession
<1>16. ASSUME NEW r \in Runs, CommitChunk(r)
      PROVE  TypeOK'
  BY <1>16 DEF CommitChunk, Commit, InSession, Faults, Work, Entry, Item, NoWork
<1>17. ASSUME NEW r \in Runs, StartPosting(r)
      PROVE  TypeOK'
  <2>1. work' \in [Runs -> Work]
    BY <1>17, SessionTyped
  <2>2. QED
    BY <1>17, <2>1 DEF StartPosting, InSession
<1>18. ASSUME NEW r \in Runs, NEW i \in items, CreateReceipt(r, i)
      PROVE  TypeOK'
  <2>1. work' \in [Runs -> Work]
    BY <1>18, SessionTyped
  <2>2. QED
    BY <1>18, <2>1 DEF CreateReceipt, InSession
<1>19. ASSUME NEW r \in Runs, RecordReceipt(r)
      PROVE  TypeOK'
  <2>1. work' \in [Runs -> Work]
    BY <1>19, SessionTyped
  <2>2. \A d \in work[r].draft : d.item \in Item
    BY DEF Work
  <2>3. created' \subseteq Item /\ failed' \subseteq Item
    BY <1>19, <2>2 DEF RecordReceipt
  <2>4. QED
    BY <1>19, <2>1, <2>3 DEF RecordReceipt
<1>20. ASSUME NEW r \in Runs, CompleteRun(r)
      PROVE  TypeOK'
  BY <1>20 DEF CompleteRun, InSession, Faults, Work, Entry, Item, NoWork
<1>21. ASSUME NEW r \in Runs, DeadlockVictim(r)
      PROVE  TypeOK'
  BY <1>21 DEF DeadlockVictim, AbortSession, WaitsFor, InSession, Faults, Work, Entry, Item, NoWork
<1>22. ASSUME NEW r \in Runs, RaiseInSession(r)
      PROVE  TypeOK'
  BY <1>22 DEF RaiseInSession, Commit, Spend, InSession, Faults, Work, Entry, Item, NoWork
<1>23. ASSUME NEW r \in Runs, DatabaseFails(r)
      PROVE  TypeOK'
  BY <1>23 DEF DatabaseFails, AbortSession, Spend, InSession, Faults, Work, Entry, Item, NoWork
<1>24. ASSUME NEW r \in Runs, WorkerCrash(r)
      PROVE  TypeOK'
  BY <1>24 DEF WorkerCrash, Spend, InSession, Faults, Work, Entry, Item, NoWork
<1>25. CASE UNCHANGED vars
  BY <1>25 DEF vars
<1>26. QED
  BY <1>1, <1>2, <1>3, <1>4, <1>5, <1>6, <1>7, <1>8, <1>9, <1>10, <1>11, <1>12, <1>13, <1>14, 
     <1>15, <1>16, <1>17, <1>18, <1>19, <1>20, <1>21, <1>22, <1>23, <1>24, <1>25
  DEF Next, Request, Execute, Fault

\* Every step keeps the relation between program counters, locks and sessions.
LEMMA ControlStep == TypeOK /\ Control /\ [Next]_vars => Control'
<1> SUFFICES ASSUME TypeOK, Control, [Next]_vars PROVE Control'
  OBVIOUS
<1> USE BoundAssumption
    DEF TypeOK, Control, Holding, InSession, ledgerVars, oracleVars, apiVars, jobVars
<1>1. ASSUME NEW f \in Files, IngestReady(f)
      PROVE  Control'
  BY <1>1 DEF IngestReady
<1>2. ASSUME NEW r \in Runs, NEW files \in Selections, CheckPendingRows(r, files)
      PROVE  Control'
  BY <1>2 DEF CheckPendingRows
<1>3. ASSUME NEW r \in Runs, CheckNoneRunning(r)
      PROVE  Control'
  BY <1>3 DEF CheckNoneRunning
<1>4. ASSUME NEW r \in Runs, InsertRun(r)
      PROVE  Control'
  BY <1>4 DEF InsertRun
<1>5. ASSUME NEW r \in Runs, DeferJob(r)
      PROVE  Control'
  BY <1>5 DEF DeferJob
<1>6. ASSUME NEW r \in Runs, ApiCrash(r)
      PROVE  Control'
  BY <1>6 DEF ApiCrash, Spend
<1>7. ASSUME NEW r \in Runs, ResetRun(r)
      PROVE  Control'
  BY <1>7 DEF ResetRun, Spend
<1>8. ASSUME NEW r \in Runs, FetchJob(r)
      PROVE  Control'
  BY <1>8 DEF FetchJob
<1>9. ASSUME NEW r \in Runs, TakeLock(r)
      PROVE  Control'
  BY <1>9 DEF TakeLock
<1>10. ASSUME NEW r \in Runs, LockRefused(r)
      PROVE  Control'
  BY <1>10 DEF LockRefused
<1>11. ASSUME NEW r \in Runs, ReleaseLock(r)
      PROVE  Control'
  BY <1>11 DEF ReleaseLock
<1>12. ASSUME NEW r \in Runs, NEW f \in Files, LoadFile(r, f)
      PROVE  Control'
  BY <1>12 DEF LoadFile
<1>13. ASSUME NEW r \in Runs, TakeChunk(r)
      PROVE  Control'
  BY <1>13 DEF TakeChunk
<1>14. ASSUME NEW r \in Runs, NEW e \in Entry, PersistLineItem(r, e)
      PROVE  Control'
  BY <1>14 DEF PersistLineItem
<1>15. ASSUME NEW r \in Runs, NEW e \in Entry, MarkRowConsumed(r, e)
      PROVE  Control'
  BY <1>15 DEF MarkRowConsumed
<1>16. ASSUME NEW r \in Runs, CommitChunk(r)
      PROVE  Control'
  BY <1>16 DEF CommitChunk
<1>17. ASSUME NEW r \in Runs, StartPosting(r)
      PROVE  Control'
  BY <1>17 DEF StartPosting
<1>18. ASSUME NEW r \in Runs, NEW i \in items, CreateReceipt(r, i)
      PROVE  Control'
  BY <1>18 DEF CreateReceipt
<1>19. ASSUME NEW r \in Runs, RecordReceipt(r)
      PROVE  Control'
  BY <1>19 DEF RecordReceipt
<1>20. ASSUME NEW r \in Runs, CompleteRun(r)
      PROVE  Control'
  BY <1>20 DEF CompleteRun
<1>21. ASSUME NEW r \in Runs, DeadlockVictim(r)
      PROVE  Control'
  BY <1>21 DEF DeadlockVictim, AbortSession
<1>22. ASSUME NEW r \in Runs, RaiseInSession(r)
      PROVE  Control'
  BY <1>22 DEF RaiseInSession, Spend
<1>23. ASSUME NEW r \in Runs, DatabaseFails(r)
      PROVE  Control'
  BY <1>23 DEF DatabaseFails, AbortSession, Spend
<1>24. ASSUME NEW r \in Runs, WorkerCrash(r)
      PROVE  Control'
  BY <1>24 DEF WorkerCrash, Spend
<1>25. CASE UNCHANGED vars
  BY <1>25 DEF vars
<1>26. QED
  BY <1>1, <1>2, <1>3, <1>4, <1>5, <1>6, <1>7, <1>8, <1>9, <1>10, <1>11, <1>12, <1>13, <1>14, 
     <1>15, <1>16, <1>17, <1>18, <1>19, <1>20, <1>21, <1>22, <1>23, <1>24, <1>25
  DEF Next, Request, Execute, Fault

\* Nothing is consumed, locked or under way at first.
LEMMA Initially == Init => TypeOK /\ Control
  BY RunsAssumption, BoundAssumption
  DEF Init, TypeOK, Control, Holding, InSession, Work, NoWork

\* The model's variables have their types at all times: job executions stay
\* within the retries of the task, sessions hold rows the run could have read.
THEOREM TypeCorrect == Spec => []TypeOK
<1>1. Init => TypeOK /\ Control
  BY Initially
<1>2. (TypeOK /\ Control) /\ [Next]_vars => (TypeOK /\ Control)'
  BY TypeStep, ControlStep
<1>3. QED
  BY <1>1, <1>2, PTL DEF Spec

(***************************************************************************)
(* A row is stamped after its line item is flushed, so a commit, whenever  *)
(* it comes, never makes a stamp visible without its line item.            *)
(***************************************************************************)
Parts ==
    \A r \in Runs :
        /\ work[r].stamped \subseteq work[r].flushed
        /\ work[r].rows \cap work[r].chunk = {}
        /\ (work[r].rows \cup work[r].chunk) \cap work[r].flushed = {}
        /\ work[r].unread \subseteq selected[r]
        /\ pc[r] = "loading" => work[r].chunk = {} /\ work[r].flushed = {}

\* Every step keeps a session within the rows its run could have read.
LEMMA PartsStep == TypeOK /\ Control /\ Parts /\ [Next]_vars => Parts'
<1> SUFFICES ASSUME TypeOK, Control, Parts, [Next]_vars PROVE Parts'
  OBVIOUS
<1> USE DEF TypeOK, Control, Parts, Holding, InSession, Work, ledgerVars, oracleVars,
            apiVars, jobVars
<1>1. ASSUME NEW f \in Files, IngestReady(f)
      PROVE  Parts'
  BY <1>1 DEF IngestReady, NoWork
<1>2. ASSUME NEW r \in Runs, NEW files \in Selections, CheckPendingRows(r, files)
      PROVE  Parts'
  BY <1>2 DEF CheckPendingRows, NoWork
<1>3. ASSUME NEW r \in Runs, CheckNoneRunning(r)
      PROVE  Parts'
  BY <1>3 DEF CheckNoneRunning, NoWork
<1>4. ASSUME NEW r \in Runs, InsertRun(r)
      PROVE  Parts'
  BY <1>4 DEF InsertRun, NoWork
<1>5. ASSUME NEW r \in Runs, DeferJob(r)
      PROVE  Parts'
  BY <1>5 DEF DeferJob, NoWork
<1>6. ASSUME NEW r \in Runs, ApiCrash(r)
      PROVE  Parts'
  BY <1>6 DEF ApiCrash, NoWork
<1>7. ASSUME NEW r \in Runs, ResetRun(r)
      PROVE  Parts'
  BY <1>7 DEF ResetRun, NoWork
<1>8. ASSUME NEW r \in Runs, FetchJob(r)
      PROVE  Parts'
  BY <1>8 DEF FetchJob, NoWork
<1>9. ASSUME NEW r \in Runs, TakeLock(r)
      PROVE  Parts'
  BY <1>9 DEF TakeLock, NoWork
<1>10. ASSUME NEW r \in Runs, LockRefused(r)
      PROVE  Parts'
  BY <1>10 DEF LockRefused, NoWork
<1>11. ASSUME NEW r \in Runs, ReleaseLock(r)
      PROVE  Parts'
  BY <1>11 DEF ReleaseLock, NoWork
<1>12. ASSUME NEW r \in Runs, NEW f \in Files, LoadFile(r, f)
      PROVE  Parts'
  BY <1>12 DEF LoadFile, NoWork
<1>13. ASSUME NEW r \in Runs, TakeChunk(r)
      PROVE  Parts'
  BY <1>13 DEF TakeChunk, NoWork
<1>14. ASSUME NEW r \in Runs, NEW e \in Entry, PersistLineItem(r, e)
      PROVE  Parts'
  BY <1>14 DEF PersistLineItem, NoWork
<1>15. ASSUME NEW r \in Runs, NEW e \in Entry, MarkRowConsumed(r, e)
      PROVE  Parts'
  BY <1>15 DEF MarkRowConsumed, NoWork
<1>16. ASSUME NEW r \in Runs, CommitChunk(r)
      PROVE  Parts'
  BY <1>16 DEF CommitChunk, NoWork
<1>17. ASSUME NEW r \in Runs, StartPosting(r)
      PROVE  Parts'
  BY <1>17 DEF StartPosting, NoWork
<1>18. ASSUME NEW r \in Runs, NEW i \in items, CreateReceipt(r, i)
      PROVE  Parts'
  BY <1>18 DEF CreateReceipt, NoWork
<1>19. ASSUME NEW r \in Runs, RecordReceipt(r)
      PROVE  Parts'
  BY <1>19 DEF RecordReceipt, NoWork
<1>20. ASSUME NEW r \in Runs, CompleteRun(r)
      PROVE  Parts'
  BY <1>20 DEF CompleteRun, NoWork
<1>21. ASSUME NEW r \in Runs, DeadlockVictim(r)
      PROVE  Parts'
  BY <1>21 DEF DeadlockVictim, AbortSession, NoWork
<1>22. ASSUME NEW r \in Runs, RaiseInSession(r)
      PROVE  Parts'
  BY <1>22 DEF RaiseInSession, NoWork
<1>23. ASSUME NEW r \in Runs, DatabaseFails(r)
      PROVE  Parts'
  BY <1>23 DEF DatabaseFails, AbortSession, NoWork
<1>24. ASSUME NEW r \in Runs, WorkerCrash(r)
      PROVE  Parts'
  BY <1>24 DEF WorkerCrash, NoWork
<1>25. CASE UNCHANGED vars
  BY <1>25 DEF vars
<1>26. QED
  BY <1>1, <1>2, <1>3, <1>4, <1>5, <1>6, <1>7, <1>8, <1>9, <1>10, <1>11, <1>12, <1>13, <1>14, 
     <1>15, <1>16, <1>17, <1>18, <1>19, <1>20, <1>21, <1>22, <1>23, <1>24, <1>25
  DEF Next, Request, Execute, Fault

\* What a commit of a run's session does to the ledger and to the line items.
LEMMA CommitBooks ==
    ASSUME TypeOK, Control, Parts, ConsumedHasItem,
           NEW r \in Runs, Commit(r)
    PROVE  ConsumedHasItem'
<1>1. SUFFICES ASSUME NEW l \in Lines, consumedBy'[l] # NoRun
               PROVE  \E i \in items' : /\ i.run = consumedBy'[l]
                                         /\ i.line = l /\ i.src = Ledger
  BY DEF ConsumedHasItem
<1>2. CASE [line |-> l, src |-> Ledger] \in work[r].stamped
  <2> DEFINE e == [line |-> l, src |-> Ledger]
             i == [run |-> r, line |-> e.line, src |-> e.src, exec |-> execs[r]]
  <2>1. e \in work[r].flushed
    BY <1>2 DEF Parts
  <2>2. i \in items'
    BY <2>1 DEF Commit
  <2>3. consumedBy'[l] = r
    BY <1>2 DEF Commit
  <2>4. i.run = r /\ i.line = l /\ i.src = Ledger
    OBVIOUS
  <2>5. QED
    BY <2>2, <2>3, <2>4
<1>3. CASE [line |-> l, src |-> Ledger] \notin work[r].stamped
  <2>1. consumedBy'[l] = consumedBy[l]
    BY <1>3 DEF Commit
  <2>2. items \subseteq items'
    BY DEF Commit
  <2>3. QED
    BY <1>1, <2>1, <2>2 DEF ConsumedHasItem
<1>4. QED
  BY <1>2, <1>3

\* Every step leaves each consumed row with the line item it was consumed for.
LEMMA ConsumedStep ==
    TypeOK /\ Control /\ Parts /\ ConsumedHasItem /\ [Next]_vars => ConsumedHasItem'
<1> SUFFICES ASSUME TypeOK, Control, Parts, ConsumedHasItem, [Next]_vars
             PROVE  ConsumedHasItem'
  OBVIOUS
<1>a. ASSUME UNCHANGED ledgerVars PROVE ConsumedHasItem'
  BY <1>a DEF ConsumedHasItem, ledgerVars
<1>1. ASSUME NEW f \in Files, IngestReady(f)
      PROVE  ConsumedHasItem'
  BY <1>1, <1>a DEF IngestReady
<1>2. ASSUME NEW r \in Runs, NEW files \in Selections, CheckPendingRows(r, files)
      PROVE  ConsumedHasItem'
  BY <1>2, <1>a DEF CheckPendingRows
<1>3. ASSUME NEW r \in Runs, CheckNoneRunning(r)
      PROVE  ConsumedHasItem'
  BY <1>3, <1>a DEF CheckNoneRunning
<1>4. ASSUME NEW r \in Runs, InsertRun(r)
      PROVE  ConsumedHasItem'
  BY <1>4, <1>a DEF InsertRun
<1>5. ASSUME NEW r \in Runs, DeferJob(r)
      PROVE  ConsumedHasItem'
  BY <1>5, <1>a DEF DeferJob
<1>6. ASSUME NEW r \in Runs, ApiCrash(r)
      PROVE  ConsumedHasItem'
  BY <1>6, <1>a DEF ApiCrash
<1>7. ASSUME NEW r \in Runs, ResetRun(r)
      PROVE  ConsumedHasItem'
  BY <1>7, <1>a DEF ResetRun
<1>8. ASSUME NEW r \in Runs, FetchJob(r)
      PROVE  ConsumedHasItem'
  BY <1>8, <1>a DEF FetchJob
<1>9. ASSUME NEW r \in Runs, TakeLock(r)
      PROVE  ConsumedHasItem'
  BY <1>9, <1>a DEF TakeLock
<1>10. ASSUME NEW r \in Runs, LockRefused(r)
      PROVE  ConsumedHasItem'
  BY <1>10, <1>a DEF LockRefused
<1>11. ASSUME NEW r \in Runs, ReleaseLock(r)
      PROVE  ConsumedHasItem'
  BY <1>11, <1>a DEF ReleaseLock
<1>12. ASSUME NEW r \in Runs, NEW f \in Files, LoadFile(r, f)
      PROVE  ConsumedHasItem'
  BY <1>12, <1>a DEF LoadFile
<1>13. ASSUME NEW r \in Runs, TakeChunk(r)
      PROVE  ConsumedHasItem'
  BY <1>13, <1>a DEF TakeChunk
<1>14. ASSUME NEW r \in Runs, NEW e \in Entry, PersistLineItem(r, e)
      PROVE  ConsumedHasItem'
  BY <1>14, <1>a DEF PersistLineItem
<1>15. ASSUME NEW r \in Runs, NEW e \in Entry, MarkRowConsumed(r, e)
      PROVE  ConsumedHasItem'
  BY <1>15, <1>a DEF MarkRowConsumed
<1>16. ASSUME NEW r \in Runs, CommitChunk(r)
      PROVE  ConsumedHasItem'
  BY <1>16, CommitBooks DEF CommitChunk
<1>17. ASSUME NEW r \in Runs, StartPosting(r)
      PROVE  ConsumedHasItem'
  BY <1>17, <1>a DEF StartPosting
<1>18. ASSUME NEW r \in Runs, NEW i \in items, CreateReceipt(r, i)
      PROVE  ConsumedHasItem'
  BY <1>18, <1>a DEF CreateReceipt
<1>19. ASSUME NEW r \in Runs, RecordReceipt(r)
      PROVE  ConsumedHasItem'
  BY <1>19, <1>a DEF RecordReceipt
<1>20. ASSUME NEW r \in Runs, CompleteRun(r)
      PROVE  ConsumedHasItem'
  BY <1>20, <1>a DEF CompleteRun
<1>21. ASSUME NEW r \in Runs, DeadlockVictim(r)
      PROVE  ConsumedHasItem'
  BY <1>21, <1>a DEF DeadlockVictim, AbortSession
<1>22. ASSUME NEW r \in Runs, RaiseInSession(r)
      PROVE  ConsumedHasItem'
  BY <1>22, CommitBooks DEF RaiseInSession
<1>23. ASSUME NEW r \in Runs, DatabaseFails(r)
      PROVE  ConsumedHasItem'
  BY <1>23, <1>a DEF DatabaseFails, AbortSession
<1>24. ASSUME NEW r \in Runs, WorkerCrash(r)
      PROVE  ConsumedHasItem'
  BY <1>24, <1>a DEF WorkerCrash
<1>25. CASE UNCHANGED vars
  BY <1>25, <1>a DEF vars
<1>26. QED
  BY <1>1, <1>2, <1>3, <1>4, <1>5, <1>6, <1>7, <1>8, <1>9, <1>10, <1>11, <1>12, <1>13, <1>14, 
     <1>15, <1>16, <1>17, <1>18, <1>19, <1>20, <1>21, <1>22, <1>23, <1>24, <1>25
  DEF Next, Request, Execute, Fault

\* No row is left consumed without its line item, for any number of runs,
\* workers, files and faults: the flush precedes the stamp in the session, and
\* every commit, the one of the except block included, takes both.
THEOREM ConsumedHasItemAlways == Spec => []ConsumedHasItem
<1>1. Init => TypeOK /\ Control /\ Parts /\ ConsumedHasItem
  BY Initially DEF Init, Parts, ConsumedHasItem, NoWork
<1>2. /\ TypeOK /\ Control /\ Parts /\ ConsumedHasItem
      /\ [Next]_vars
      => (TypeOK /\ Control /\ Parts /\ ConsumedHasItem)'
  BY TypeStep, ControlStep, PartsStep, ConsumedStep
<1>3. QED
  BY <1>1, <1>2, PTL DEF Spec

(***************************************************************************)
(* The advisory lock.                                                      *)
(***************************************************************************)
OneHolder == \A r, q \in locked : r # q => selected[r] # selected[q]

\* No step gives the lock of a file set to a second run.
LEMMA OneHolderStep == TypeOK /\ Control /\ OneHolder /\ [Next]_vars => OneHolder'
<1> SUFFICES ASSUME TypeOK, Control, OneHolder, [Next]_vars PROVE OneHolder'
  OBVIOUS
<1> USE DEF TypeOK, Control, OneHolder, Holding, InSession, apiVars
<1>a. ASSUME UNCHANGED selected, locked' \subseteq locked PROVE OneHolder'
  BY <1>a
<1>1. ASSUME NEW f \in Files, IngestReady(f)
      PROVE  OneHolder'
  BY <1>1, <1>a DEF IngestReady
<1>2. ASSUME NEW r \in Runs, NEW files \in Selections, CheckPendingRows(r, files)
      PROVE  OneHolder'
  <2>1. r \notin locked
    BY <1>2 DEF CheckPendingRows
  <2>2. locked' = locked /\ \A q \in locked : selected'[q] = selected[q]
    BY <1>2, <2>1 DEF CheckPendingRows
  <2>3. QED
    BY <2>2
<1>3. ASSUME NEW r \in Runs, CheckNoneRunning(r)
      PROVE  OneHolder'
  BY <1>3, <1>a DEF CheckNoneRunning
<1>4. ASSUME NEW r \in Runs, InsertRun(r)
      PROVE  OneHolder'
  BY <1>4, <1>a DEF InsertRun
<1>5. ASSUME NEW r \in Runs, DeferJob(r)
      PROVE  OneHolder'
  BY <1>5, <1>a DEF DeferJob
<1>6. ASSUME NEW r \in Runs, ApiCrash(r)
      PROVE  OneHolder'
  BY <1>6, <1>a DEF ApiCrash
<1>7. ASSUME NEW r \in Runs, ResetRun(r)
      PROVE  OneHolder'
  BY <1>7, <1>a DEF ResetRun
<1>8. ASSUME NEW r \in Runs, FetchJob(r)
      PROVE  OneHolder'
  BY <1>8, <1>a DEF FetchJob
<1>9. ASSUME NEW r \in Runs, TakeLock(r)
      PROVE  OneHolder'
  BY <1>9 DEF TakeLock, LockFree
<1>10. ASSUME NEW r \in Runs, LockRefused(r)
      PROVE  OneHolder'
  BY <1>10, <1>a DEF LockRefused
<1>11. ASSUME NEW r \in Runs, ReleaseLock(r)
      PROVE  OneHolder'
  BY <1>11, <1>a DEF ReleaseLock
<1>12. ASSUME NEW r \in Runs, NEW f \in Files, LoadFile(r, f)
      PROVE  OneHolder'
  BY <1>12, <1>a DEF LoadFile
<1>13. ASSUME NEW r \in Runs, TakeChunk(r)
      PROVE  OneHolder'
  BY <1>13, <1>a DEF TakeChunk
<1>14. ASSUME NEW r \in Runs, NEW e \in Entry, PersistLineItem(r, e)
      PROVE  OneHolder'
  BY <1>14, <1>a DEF PersistLineItem
<1>15. ASSUME NEW r \in Runs, NEW e \in Entry, MarkRowConsumed(r, e)
      PROVE  OneHolder'
  BY <1>15, <1>a DEF MarkRowConsumed
<1>16. ASSUME NEW r \in Runs, CommitChunk(r)
      PROVE  OneHolder'
  BY <1>16, <1>a DEF CommitChunk
<1>17. ASSUME NEW r \in Runs, StartPosting(r)
      PROVE  OneHolder'
  BY <1>17, <1>a DEF StartPosting
<1>18. ASSUME NEW r \in Runs, NEW i \in items, CreateReceipt(r, i)
      PROVE  OneHolder'
  BY <1>18, <1>a DEF CreateReceipt
<1>19. ASSUME NEW r \in Runs, RecordReceipt(r)
      PROVE  OneHolder'
  BY <1>19, <1>a DEF RecordReceipt
<1>20. ASSUME NEW r \in Runs, CompleteRun(r)
      PROVE  OneHolder'
  BY <1>20, <1>a DEF CompleteRun
<1>21. ASSUME NEW r \in Runs, DeadlockVictim(r)
      PROVE  OneHolder'
  BY <1>21, <1>a DEF DeadlockVictim, AbortSession
<1>22. ASSUME NEW r \in Runs, RaiseInSession(r)
      PROVE  OneHolder'
  BY <1>22, <1>a DEF RaiseInSession
<1>23. ASSUME NEW r \in Runs, DatabaseFails(r)
      PROVE  OneHolder'
  BY <1>23, <1>a DEF DatabaseFails, AbortSession
<1>24. ASSUME NEW r \in Runs, WorkerCrash(r)
      PROVE  OneHolder'
  BY <1>24, <1>a DEF WorkerCrash
<1>25. CASE UNCHANGED vars
  BY <1>25, <1>a DEF vars
<1>26. QED
  BY <1>1, <1>2, <1>3, <1>4, <1>5, <1>6, <1>7, <1>8, <1>9, <1>10, <1>11, <1>12, <1>13, <1>14, 
     <1>15, <1>16, <1>17, <1>18, <1>19, <1>20, <1>21, <1>22, <1>23, <1>24, <1>25
  DEF Next, Request, Execute, Fault

\* Two workers never run _run_analysis for the same set of files, in every
\* interleaving of starts, retries, crashes and resets of any number of runs.
THEOREM SameFilesExclusiveAlways == Spec => []SameFilesExclusive
<1>1. Init => TypeOK /\ Control /\ OneHolder
  BY Initially DEF Init, OneHolder
<1>2. (TypeOK /\ Control /\ OneHolder) /\ [Next]_vars
      => (TypeOK /\ Control /\ OneHolder)'
  BY TypeStep, ControlStep, OneHolderStep
<1>3. Control /\ OneHolder => SameFilesExclusive
  BY DEF Control, OneHolder, SameFilesExclusive
<1>4. QED
  BY <1>1, <1>2, <1>3, PTL DEF Spec

(***************************************************************************)
(* One worker process executes one job at a time.                           *)
(***************************************************************************)
Alone == \A r, q \in Runs : pc[r] # "off" /\ pc[q] # "off" => r = q

\* Only fetching its job puts a run under way.
LEMMA UnderWay ==
    ASSUME TypeOK, [Next]_vars
    PROVE  \/ \E r \in Runs : FetchJob(r)
           \/ \A q \in Runs : pc'[q] # "off" => pc[q] # "off"
<1> DEFINE Goal == \A q \in Runs : pc'[q] # "off" => pc[q] # "off"
<1> USE DEF TypeOK, InSession
<1>1. ASSUME NEW f \in Files, IngestReady(f) PROVE Goal
  BY <1>1 DEF IngestReady
<1>2. ASSUME NEW r \in Runs,
             \/ Request(r) \/ ApiCrash(r) \/ ResetRun(r)
             \/ TakeChunk(r) \/ CommitChunk(r) \/ RecordReceipt(r)
             \/ \E e \in Entry : PersistLineItem(r, e) \/ MarkRowConsumed(r, e)
             \/ \E i \in items : CreateReceipt(r, i)
      PROVE  Goal
  BY <1>2 DEF Request, CheckPendingRows, CheckNoneRunning, InsertRun, DeferJob, ApiCrash,
              ResetRun, TakeChunk, CommitChunk, RecordReceipt, PersistLineItem,
              MarkRowConsumed, CreateReceipt
<1>3. ASSUME NEW r \in Runs,
             \/ TakeLock(r) \/ LockRefused(r) \/ ReleaseLock(r)
             \/ \E f \in Files : LoadFile(r, f)
             \/ StartPosting(r) \/ CompleteRun(r) \/ DeadlockVictim(r)
             \/ RaiseInSession(r) \/ DatabaseFails(r) \/ WorkerCrash(r)
      PROVE  Goal
  BY <1>3 DEF TakeLock, LockRefused, ReleaseLock, LoadFile, StartPosting, CompleteRun,
              DeadlockVictim, AbortSession, RaiseInSession, DatabaseFails, WorkerCrash
<1>4. CASE UNCHANGED vars
  BY <1>4 DEF vars
<1>5. QED
  BY <1>1, <1>2, <1>3, <1>4 DEF Next, Execute, Fault

\* With one worker no second job is fetched while a first is under way.
LEMMA AloneStep ==
    ASSUME Workers <= 1, TypeOK, Alone, [Next]_vars
    PROVE  Alone'
<1>1. CASE \A q \in Runs : pc'[q] # "off" => pc[q] # "off"
  BY <1>1 DEF Alone
<1>2. ASSUME NEW r \in Runs, FetchJob(r) PROVE Alone'
  <2> DEFINE S == {q \in Runs : pc[q] # "off"}
  <2>1. Cardinality(S) < Workers
    BY <1>2 DEF FetchJob
  <2>2. ASSUME NEW q \in S PROVE FALSE
    <3>1. S = {q}
      BY DEF Alone
    <3>2. Cardinality(S) = 1
      BY <3>1, FS_Singleton
    <3>3. QED
      BY <2>1, <3>2, BoundAssumption
  <2>3. \A q \in Runs : pc'[q] # "off" => q = r
    BY <1>2, <2>2 DEF FetchJob, TypeOK
  <2>4. QED
    BY <2>3 DEF Alone
<1>3. QED
  BY <1>1, <1>2, UnderWay

(***************************************************************************)
(* When users select file sets that are equal or reach no common row, the  *)
(* lock is enough: a row is consumed once.  So it is with one worker.  What *)
(* a session holds is then unconsumed until that session commits it.        *)
(***************************************************************************)
DisjointSelections ==
    \A S, T \in Selections : S # T =>
        \A f \in S, g \in T : Reach(f) \cap Reach(g) = {}
Apart == DisjointSelections \/ Alone

HeldBy(r) == work[r].rows \cup work[r].chunk \cup work[r].flushed
Fresh ==
    \A r \in Runs :
        /\ api[r] # "new" => selected[r] \in Selections
        /\ \A e \in HeldBy(r) : e.src = Ledger =>
              /\ consumedBy[e.line] = NoRun
              /\ \E f \in selected[r] : e.line \in Reach(f)

\* No two sessions hold the same row.
LEMMA NotShared ==
    ASSUME Apart, TypeOK, Control, OneHolder, Fresh,
           NEW r \in Runs, NEW q \in Runs, q # r,
           NEW e \in HeldBy(r), NEW d \in HeldBy(q), e.src = Ledger, d.src = Ledger
    PROVE  e.line # d.line
<1>1. r \in locked /\ q \in locked
  BY DEF Control, HeldBy, NoWork, Holding
<1>a. DisjointSelections
  BY <1>1 DEF Apart, Alone, Control, Holding, InSession
<1>2. selected[r] # selected[q]
  BY <1>1 DEF OneHolder
<1>3. selected[r] \in Selections /\ selected[q] \in Selections
  BY <1>1 DEF Control, Fresh, Holding, InSession
<1>4. PICK f \in selected[r] : e.line \in Reach(f)
  BY DEF Fresh
<1>5. PICK g \in selected[q] : d.line \in Reach(g)
  BY DEF Fresh
<1>6. QED
  BY <1>a, <1>2, <1>3, <1>4, <1>5 DEF DisjointSelections

\* What a commit consumes was unconsumed, and is held by no session afterwards.
LEMMA CommitFresh ==
    ASSUME Apart, TypeOK, Control, Parts, OneHolder, Fresh,
           NEW r \in Runs, Commit(r)
    PROVE  /\ \A l \in Lines : consumedBy[l] # NoRun => consumedBy'[l] = consumedBy[l]
           /\ \A q \in Runs : \A e \in HeldBy(q) :
                (e.src = Ledger /\ (q # r \/ e \notin work[r].flushed))
                  => consumedBy'[e.line] = NoRun
<1>1. ASSUME NEW l \in Lines, consumedBy[l] # NoRun
      PROVE  consumedBy'[l] = consumedBy[l]
  <2> DEFINE e == [line |-> l, src |-> Ledger]
  <2>1. e \notin work[r].stamped
    <3>1. SUFFICES ASSUME e \in work[r].stamped PROVE FALSE
      OBVIOUS
    <3>2. e \in HeldBy(r) /\ e.src = Ledger /\ e.line = l
      BY <3>1 DEF Parts, HeldBy
    <3>3. QED
      BY <1>1, <3>2 DEF Fresh
  <2>2. QED
    BY <2>1 DEF Commit
<1>2. ASSUME NEW q \in Runs, NEW e \in HeldBy(q), e.src = Ledger,
             q # r \/ e \notin work[r].flushed
      PROVE  consumedBy'[e.line] = NoRun
  <2> DEFINE d == [line |-> e.line, src |-> Ledger]
  <2>1. e \in Entry
    BY DEF HeldBy, TypeOK, Work
  <2>2. e = d /\ e.line \in Lines
    BY <1>2, <2>1 DEF Entry
  <2>3. d \notin work[r].stamped
    <3>1. SUFFICES ASSUME d \in work[r].stamped PROVE FALSE
      OBVIOUS
    <3>2. d \in work[r].flushed /\ d \in HeldBy(r)
      BY <3>1 DEF Parts, HeldBy
    <3>3. q # r
      BY <1>2, <2>2, <3>2
    <3>4. QED
      BY <1>2, <2>2, <3>2, <3>3, NotShared
  <2>4. consumedBy[e.line] = NoRun
    BY <1>2 DEF Fresh
  <2>5. QED
    BY <2>2, <2>3, <2>4 DEF Commit
<1>3. QED
  BY <1>1, <1>2

\* Every step keeps the ledger rows of a session unconsumed until it commits them.
LEMMA FreshStep ==
    ASSUME Apart, TypeOK, Control, Parts, OneHolder, Fresh, [Next]_vars
    PROVE  Fresh'
<1> USE DEF TypeOK, ledgerVars, oracleVars, apiVars, jobVars
<1>a. ASSUME UNCHANGED <<consumedBy, selected>>,
             \A q \in Runs : /\ HeldBy(q)' \subseteq HeldBy(q)
                             /\ api'[q] # "new" => api[q] # "new"
      PROVE  Fresh'
  BY <1>a DEF Fresh
<1>b. ASSUME UNCHANGED work PROVE \A q \in Runs : HeldBy(q)' \subseteq HeldBy(q)
  BY <1>b DEF HeldBy
<1>c. ASSUME NEW r \in Runs, work' = [work EXCEPT ![r] = NoWork]
      PROVE  \A q \in Runs : HeldBy(q)' \subseteq (IF q = r THEN {} ELSE HeldBy(q))
  BY <1>c DEF HeldBy, NoWork
<1>1. ASSUME NEW f \in Files, IngestReady(f)
      PROVE  Fresh'
  BY <1>1, <1>a, <1>b DEF IngestReady
<1>2. ASSUME NEW r \in Runs, NEW files \in Selections, CheckPendingRows(r, files)
      PROVE  Fresh'
  <2>1. work[r] = NoWork
    BY <1>2 DEF CheckPendingRows, Control, InSession
  <2>2. HeldBy(r)' = {} /\ \A q \in Runs : HeldBy(q)' = HeldBy(q)
    BY <1>2, <2>1 DEF CheckPendingRows, HeldBy, NoWork
  <2>3. QED
    BY <1>2, <2>2 DEF CheckPendingRows, Fresh
<1>3. ASSUME NEW r \in Runs, CheckNoneRunning(r)
      PROVE  Fresh'
  BY <1>3, <1>a, <1>b DEF CheckNoneRunning
<1>4. ASSUME NEW r \in Runs, InsertRun(r)
      PROVE  Fresh'
  BY <1>4, <1>a, <1>b DEF InsertRun
<1>5. ASSUME NEW r \in Runs, DeferJob(r)
      PROVE  Fresh'
  BY <1>5, <1>a, <1>b DEF DeferJob
<1>6. ASSUME NEW r \in Runs, ApiCrash(r)
      PROVE  Fresh'
  BY <1>6, <1>a, <1>b DEF ApiCrash
<1>7. ASSUME NEW r \in Runs, ResetRun(r)
      PROVE  Fresh'
  BY <1>7, <1>a, <1>b DEF ResetRun
<1>8. ASSUME NEW r \in Runs, FetchJob(r)
      PROVE  Fresh'
  BY <1>8, <1>a, <1>b DEF FetchJob
<1>9. ASSUME NEW r \in Runs, TakeLock(r)
      PROVE  Fresh'
  <2>1. \A q \in Runs : HeldBy(q)' \subseteq HeldBy(q)
    BY <1>9 DEF TakeLock, HeldBy, NoWork
  <2>2. QED
    BY <1>9, <1>a, <2>1 DEF TakeLock
<1>10. ASSUME NEW r \in Runs, LockRefused(r)
      PROVE  Fresh'
  BY <1>10, <1>a, <1>b DEF LockRefused
<1>11. ASSUME NEW r \in Runs, ReleaseLock(r)
      PROVE  Fresh'
  BY <1>11, <1>a, <1>b DEF ReleaseLock
<1>12. ASSUME NEW r \in Runs, NEW f \in Files, LoadFile(r, f)
      PROVE  Fresh'
  <2>1. PICK read \in RowsReadFrom(f) :
          work' = [work EXCEPT ![r].unread = @ \ {f}, ![r].rows = @ \cup read]
    BY <1>12 DEF LoadFile
  <2>2. f \in selected[r]
    BY <1>12 DEF LoadFile, Parts
  <2>3. ASSUME NEW e \in read, e.src = Ledger
        PROVE  consumedBy[e.line] = NoRun /\ e.line \in Reach(f)
    <3>1. \/ read = [line : Unconsumed(f), src : {Ledger}]
          \/ read = [line : LinesOf[f], src : {f}]
          \/ read = {}
      BY <2>1 DEF RowsReadFrom
    <3>2. e \notin [line : LinesOf[f], src : {f}]
      BY <2>3, RunsAssumption
    <3>3. e \in [line : Unconsumed(f), src : {Ledger}]
      BY <3>1, <3>2
    <3>4. e.line \in Unconsumed(f)
      BY <3>3
    <3>5. QED
      BY <3>4, UnconsumedLines
  <2>4. \A q \in Runs : HeldBy(q)' \subseteq
                          HeldBy(q) \cup (IF q = r THEN read ELSE {})
    BY <2>1 DEF HeldBy, Work
  <2>5. UNCHANGED <<consumedBy, selected, api>>
    BY <1>12 DEF LoadFile
  <2>6. QED
    BY <2>2, <2>3, <2>4, <2>5 DEF Fresh
<1>13. ASSUME NEW r \in Runs, TakeChunk(r)
      PROVE  Fresh'
  <2>1. \A q \in Runs : HeldBy(q)' \subseteq HeldBy(q)
    BY <1>13 DEF TakeChunk, HeldBy, Work
  <2>2. QED
    BY <1>13, <1>a, <2>1 DEF TakeChunk
<1>14. ASSUME NEW r \in Runs, NEW e \in Entry, PersistLineItem(r, e)
      PROVE  Fresh'
  <2>1. \A q \in Runs : HeldBy(q)' \subseteq HeldBy(q)
    BY <1>14 DEF PersistLineItem, HeldBy, Work
  <2>2. QED
    BY <1>14, <1>a, <2>1 DEF PersistLineItem
<1>15. ASSUME NEW r \in Runs, NEW e \in Entry, MarkRowConsumed(r, e)
      PROVE  Fresh'
  <2>1. \A q \in Runs : HeldBy(q)' \subseteq HeldBy(q)
    BY <1>15 DEF MarkRowConsumed, HeldBy, Work
  <2>2. QED
    BY <1>15, <1>a, <2>1 DEF MarkRowConsumed
<1>16. ASSUME NEW r \in Runs, CommitChunk(r)
      PROVE  Fresh'
  <2>1. HeldBy(r)' = HeldBy(r) \ work[r].flushed
        /\ \A q \in Runs : q # r => HeldBy(q)' = HeldBy(q)
    BY <1>16 DEF CommitChunk, HeldBy, Parts, Work
  <2>2. UNCHANGED <<selected, api>> /\ Commit(r)
    BY <1>16 DEF CommitChunk
  <2>3. ASSUME NEW q \in Runs, NEW e \in HeldBy(q)', e.src = Ledger
        PROVE  consumedBy'[e.line] = NoRun /\ e \in HeldBy(q)
    BY <2>1, <2>2, <2>3, CommitFresh
  <2>4. QED
    BY <2>2, <2>3 DEF Fresh
<1>17. ASSUME NEW r \in Runs, StartPosting(r)
      PROVE  Fresh'
  <2>1. \A q \in Runs : HeldBy(q)' \subseteq HeldBy(q)
    BY <1>17 DEF StartPosting, HeldBy, Work
  <2>2. QED
    BY <1>17, <1>a, <2>1 DEF StartPosting
<1>18. ASSUME NEW r \in Runs, NEW i \in items, CreateReceipt(r, i)
      PROVE  Fresh'
  <2>1. \A q \in Runs : HeldBy(q)' \subseteq HeldBy(q)
    BY <1>18 DEF CreateReceipt, HeldBy, Work
  <2>2. QED
    BY <1>18, <1>a, <2>1 DEF CreateReceipt
<1>19. ASSUME NEW r \in Runs, RecordReceipt(r)
      PROVE  Fresh'
  <2>1. \A q \in Runs : HeldBy(q)' \subseteq HeldBy(q)
    BY <1>19 DEF RecordReceipt, HeldBy, Work
  <2>2. QED
    BY <1>19, <1>a, <2>1 DEF RecordReceipt
<1>20. ASSUME NEW r \in Runs, CompleteRun(r)
      PROVE  Fresh'
  BY <1>20, <1>a, <1>c DEF CompleteRun
<1>21. ASSUME NEW r \in Runs, DeadlockVictim(r)
      PROVE  Fresh'
  BY <1>21, <1>a, <1>c DEF DeadlockVictim, AbortSession
<1>22. ASSUME NEW r \in Runs, RaiseInSession(r)
      PROVE  Fresh'
  <2>1. \A q \in Runs : HeldBy(q)' \subseteq (IF q = r THEN {} ELSE HeldBy(q))
    BY <1>22, <1>c DEF RaiseInSession
  <2>2. UNCHANGED <<selected, api>> /\ Commit(r)
    BY <1>22 DEF RaiseInSession
  <2>3. ASSUME NEW q \in Runs, NEW e \in HeldBy(q)', e.src = Ledger
        PROVE  consumedBy'[e.line] = NoRun /\ e \in HeldBy(q)
    BY <2>1, <2>2, <2>3, CommitFresh
  <2>4. QED
    BY <2>2, <2>3 DEF Fresh
<1>23. ASSUME NEW r \in Runs, DatabaseFails(r)
      PROVE  Fresh'
  BY <1>23, <1>a, <1>c DEF DatabaseFails, AbortSession
<1>24. ASSUME NEW r \in Runs, WorkerCrash(r)
      PROVE  Fresh'
  BY <1>24, <1>a, <1>c DEF WorkerCrash
<1>25. CASE UNCHANGED vars
  BY <1>25, <1>a, <1>b DEF vars
<1>26. QED
  BY <1>1, <1>2, <1>3, <1>4, <1>5, <1>6, <1>7, <1>8, <1>9, <1>10, <1>11, <1>12, <1>13, <1>14, 
     <1>15, <1>16, <1>17, <1>18, <1>19, <1>20, <1>21, <1>22, <1>23, <1>24, <1>25
  DEF Next, Request, Execute, Fault

\* The ledger and the line items are written by commits only: the one at the end of
\* a chunk and the one of the except block.
LEMMA LedgerSteps ==
    ASSUME [Next]_vars
    PROVE  UNCHANGED ledgerVars \/ \E r \in Runs : CommitChunk(r) \/ RaiseInSession(r)
<1>1. ASSUME NEW f \in Files, IngestReady(f) PROVE UNCHANGED ledgerVars
  BY <1>1 DEF IngestReady
<1>2. ASSUME NEW r \in Runs, Request(r) \/ ApiCrash(r) \/ ResetRun(r)
      PROVE  UNCHANGED ledgerVars
  BY <1>2 DEF Request, CheckPendingRows, CheckNoneRunning, InsertRun, DeferJob, ApiCrash,
              ResetRun
<1>3. ASSUME NEW r \in Runs, Execute(r), ~CommitChunk(r) PROVE UNCHANGED ledgerVars
  BY <1>3 DEF Execute, FetchJob, TakeLock, LockRefused, ReleaseLock, LoadFile, TakeChunk,
              PersistLineItem, MarkRowConsumed, StartPosting, CreateReceipt, RecordReceipt,
              CompleteRun, DeadlockVictim, AbortSession
<1>4. ASSUME NEW r \in Runs, DatabaseFails(r) \/ WorkerCrash(r) PROVE UNCHANGED ledgerVars
  BY <1>4 DEF DatabaseFails, AbortSession, WorkerCrash
<1>5. CASE UNCHANGED vars
  BY <1>5 DEF vars
<1>6. QED
  BY <1>1, <1>2, <1>3, <1>4, <1>5 DEF Next, Fault

OnceInv == TypeOK /\ Control /\ Parts /\ OneHolder /\ Fresh /\ Apart

\* No step consumes a consumed row again.
LEMMA OnceStep ==
    ASSUME OnceInv, [Next]_vars
    PROVE  \A l \in Lines : consumedBy[l] # NoRun => consumedBy'[l] = consumedBy[l]
<1>1. CASE UNCHANGED ledgerVars
  BY <1>1 DEF ledgerVars
<1>2. ASSUME NEW r \in Runs, CommitChunk(r) \/ RaiseInSession(r)
      PROVE  \A l \in Lines : consumedBy[l] # NoRun => consumedBy'[l] = consumedBy[l]
  BY <1>2, CommitFresh DEF CommitChunk, RaiseInSession, OnceInv
<1>3. QED
  BY <1>1, <1>2, LedgerSteps

\* Sessions stay apart when selections are disjoint or there is one worker.
LEMMA OnceInvAlways ==
    ASSUME DisjointSelections \/ Workers <= 1
    PROVE  Spec => []OnceInv
<1>1. Init => OnceInv
  <2>1. Init => Parts /\ OneHolder /\ Fresh /\ Alone
    BY DEF Init, Parts, OneHolder, Fresh, HeldBy, NoWork, Alone
  <2>2. QED
    BY <2>1, Initially DEF OnceInv, Apart
<1>2. OnceInv /\ [Next]_vars => OnceInv'
  <2> SUFFICES ASSUME OnceInv, [Next]_vars PROVE OnceInv'
    OBVIOUS
  <2>1. Apart'
    BY AloneStep DEF OnceInv, Apart, DisjointSelections
  <2>2. QED
    BY <2>1, TypeStep, ControlStep, PartsStep, OneHolderStep, FreshStep DEF OnceInv
<1>3. QED
  BY <1>1, <1>2, PTL DEF Spec

\* If any two selected file sets are equal or reach no common row, or if there is one
\* worker, a consumed row is never consumed again: not by a second run of the same
\* files, not by a retry after an exception, not after a crash.
THEOREM ConsumedOnceIfApart ==
    ASSUME DisjointSelections \/ Workers <= 1
    PROVE  Spec => ConsumedOnce
<1>1. OnceInv /\ [Next]_vars
      => [\A l \in Lines : consumedBy[l] # NoRun => consumedBy'[l] = consumedBy[l]]_vars
  BY OnceStep
<1>2. QED
  BY <1>1, OnceInvAlways, PTL DEF Spec, ConsumedOnce

(***************************************************************************)
(* The promise of the ledger.  The except block of _run_analysis commits    *)
(* what the session has flushed: the promise holds in every execution where *)
(* nothing is raised between the flush of a line item and its stamp.        *)
(***************************************************************************)
RaisedWhole == \A r \in Runs : RaiseInSession(r) => work[r].flushed = work[r].stamped

\* A commit takes the flushed line items and the stamps of the same rows.
LEMMA WholeCommits ==
    ASSUME [Next]_vars, [RaisedWhole]_vars
    PROVE  \/ UNCHANGED ledgerVars
           \/ \E r \in Runs : Commit(r) /\ work[r].flushed = work[r].stamped
<1>1. CASE UNCHANGED vars
  BY <1>1 DEF vars
<1>2. CASE RaisedWhole
  BY <1>2, LedgerSteps DEF CommitChunk, RaiseInSession, RaisedWhole
<1>3. QED
  BY <1>1, <1>2

\* A line item of a statement row is committed together with the stamp on the row, for
\* any number of workers and any selections, unless an exception comes in between.
THEOREM ItemAndStampTogetherIfWhole == Spec /\ [][RaisedWhole]_vars => []ItemAndStampTogether
<1>1. Init => ItemAndStampTogether
  BY DEF Init, ItemAndStampTogether
<1>2. TypeOK /\ ItemAndStampTogether /\ [Next]_vars /\ [RaisedWhole]_vars
        => ItemAndStampTogether'
  <2> SUFFICES ASSUME TypeOK, ItemAndStampTogether, [Next]_vars, [RaisedWhole]_vars
               PROVE  ItemAndStampTogether'
    OBVIOUS
  <2>1. CASE UNCHANGED ledgerVars
    BY <2>1 DEF ledgerVars, ItemAndStampTogether
  <2>2. ASSUME NEW r \in Runs, Commit(r), work[r].flushed = work[r].stamped,
               NEW i \in items', i.src = Ledger
        PROVE  consumedBy'[i.line] # NoRun
    <3>1. i \in items \/ \E e \in work[r].flushed : i.line = e.line /\ i.src = e.src
      BY <2>2 DEF Commit
    <3>2. CASE i \in items
      BY <2>2, <3>2, RunsAssumption DEF Commit, ItemAndStampTogether, TypeOK, Item
    <3>3. ASSUME NEW e \in work[r].flushed, i.line = e.line, i.src = e.src
          PROVE  consumedBy'[i.line] # NoRun
      <4>1. e \in Entry /\ e = [line |-> i.line, src |-> Ledger]
        BY <2>2, <3>3 DEF TypeOK, Work, Entry
      <4>2. QED
        BY <2>2, <4>1, RunsAssumption DEF Commit, Entry
    <3>4. QED
      BY <3>1, <3>2, <3>3
  <2>3. QED
    BY <2>1, <2>2, WholeCommits DEF ItemAndStampTogether
<1>3. QED
  BY <1>1, <1>2, TypeCorrect, PTL DEF Spec

BookedFor(l) == {i \in items : i.line = l /\ i.src = Ledger}

\* An unconsumed row has no line item, a consumed row has one.
Booked ==
    \A l \in Lines : IF consumedBy[l] = NoRun THEN BookedFor(l) = {}
                     ELSE \E i \in items : BookedFor(l) = {i}

\* The commit of a run's session books the rows it stamps, each once, and no others.
LEMMA CommitBooksOnce ==
    ASSUME OnceInv, Booked, NEW r \in Runs, Commit(r), work[r].flushed = work[r].stamped,
           NEW l \in Lines
    PROVE  LET e == [line |-> l, src |-> Ledger]
               i == [run |-> r, line |-> l, src |-> Ledger, exec |-> execs[r]] IN
           IF e \in work[r].stamped
           THEN /\ consumedBy[l] = NoRun /\ consumedBy'[l] = r
                /\ BookedFor(l) = {} /\ BookedFor(l)' = {i} /\ i \in items'
           ELSE consumedBy'[l] = consumedBy[l] /\ BookedFor(l)' = BookedFor(l)
<1> DEFINE e == [line |-> l, src |-> Ledger]
           ItemOf(d) == [run |-> r, line |-> d.line, src |-> d.src, exec |-> execs[r]]
<1>1. work[r].flushed \subseteq Entry
  BY DEF OnceInv, TypeOK, Work
<1>2. items' = items \cup {ItemOf(d) : d \in work[r].flushed}
  BY DEF Commit
<1>3. \A d \in work[r].flushed : ItemOf(d).line = l /\ ItemOf(d).src = Ledger <=> d = e
  BY <1>1 DEF Entry
<1>4. CASE e \in work[r].stamped
  <2>1. consumedBy[l] = NoRun
    BY <1>4 DEF OnceInv, Parts, Fresh, HeldBy
  <2>2. BookedFor(l) = {}
    BY <2>1 DEF Booked
  <2>3. BookedFor(l)' = {ItemOf(e)}
    BY <1>2, <1>3, <1>4, <2>2 DEF BookedFor
  <2>4. ItemOf(e) \in items'
    BY <1>2, <1>4
  <2>5. QED
    BY <1>4, <2>1, <2>2, <2>3, <2>4 DEF Commit
<1>5. CASE e \notin work[r].stamped
  <2>1. BookedFor(l)' = BookedFor(l)
    BY <1>2, <1>3, <1>5 DEF BookedFor
  <2>2. QED
    BY <1>5, <2>1 DEF Commit
<1>6. QED
  BY <1>4, <1>5

\* Every step keeps one line item for each consumed row.
LEMMA BookedStep ==
    ASSUME OnceInv, Booked, [Next]_vars, [RaisedWhole]_vars
    PROVE  Booked'
<1>1. CASE UNCHANGED ledgerVars
  BY <1>1 DEF ledgerVars, Booked, BookedFor
<1>2. ASSUME NEW r \in Runs, Commit(r), work[r].flushed = work[r].stamped, NEW l \in Lines
      PROVE  IF consumedBy'[l] = NoRun THEN BookedFor(l)' = {}
             ELSE \E i \in items' : BookedFor(l)' = {i}
  <2>1. CASE [line |-> l, src |-> Ledger] \in work[r].stamped
    BY <1>2, <2>1, CommitBooksOnce, RunsAssumption
  <2>2. CASE [line |-> l, src |-> Ledger] \notin work[r].stamped
    <3>1. consumedBy'[l] = consumedBy[l] /\ BookedFor(l)' = BookedFor(l) /\ items \subseteq items'
      BY <1>2, <2>2, CommitBooksOnce DEF Commit
    <3>2. QED
      BY <3>1 DEF Booked
  <2>3. QED
    BY <2>1, <2>2
<1>3. QED
  BY <1>1, <1>2, WholeCommits DEF Booked

\* Each execution in which nothing is raised between flush and stamp keeps the rows
\* booked, with disjoint selections or one worker.
LEMMA BookedAlways ==
    ASSUME DisjointSelections \/ Workers <= 1
    PROVE  Spec /\ [][RaisedWhole]_vars => []Booked
<1>1. Init => Booked
  BY DEF Init, Booked, BookedFor
<1>2. OnceInv /\ Booked /\ [Next]_vars /\ [RaisedWhole]_vars => Booked'
  BY BookedStep
<1>3. QED
  BY <1>1, <1>2, OnceInvAlways, PTL DEF Spec

\* A statement row never has two line items, over all runs and executions: with one
\* worker or disjoint selections, when nothing is raised between flush and stamp.
THEOREM OneItemPerRowIfWhole ==
    ASSUME DisjointSelections \/ Workers <= 1
    PROVE  Spec /\ [][RaisedWhole]_vars => []OneItemPerRow
<1>1. TypeOK /\ Booked => OneItemPerRow
  <2> SUFFICES ASSUME TypeOK, Booked, NEW i \in items, NEW j \in items,
                      i.line = j.line, i.src = Ledger, j.src = Ledger
               PROVE  i = j
    BY DEF OneItemPerRow
  <2>1. i.line \in Lines /\ i \in BookedFor(i.line) /\ j \in BookedFor(i.line)
    BY DEF TypeOK, Item, BookedFor
  <2>2. QED
    BY <2>1 DEF Booked
<1>2. QED
  BY <1>1, TypeCorrect, BookedAlways, PTL

\* The analysis run implements RowLedger under the same conditions: each commit consumes
\* the rows it stamps and books each of them once, and no other step touches the ledger.
THEOREM RunsKeepPromise ==
    ASSUME DisjointSelections \/ Workers <= 1
    PROVE  Spec /\ [][RaisedWhole]_vars => LedgerPromise
<1>1. Init => Promise!Init
  <2> SUFFICES ASSUME Init PROVE Promise!Init
    OBVIOUS
  <2>1. \A l \in Lines : {i \in items : i.line = l /\ i.src = Ledger} = {}
    BY DEF Init
  <2>2. \A l \in Lines : Cardinality({i \in items : i.line = l /\ i.src = Ledger}) = 0
    BY <2>1, FS_EmptySet
  <2>3. Bookings = [l \in Lines |-> 0]
    BY <2>2 DEF Bookings
  <2>4. QED
    BY <2>3 DEF Init, Promise!Init
<1>2. OnceInv /\ Booked /\ [Next]_vars /\ [RaisedWhole]_vars
        => [Promise!Next]_<<consumedBy, Bookings>>
  <2> SUFFICES ASSUME OnceInv, Booked, [Next]_vars, [RaisedWhole]_vars
               PROVE  [Promise!Next]_<<consumedBy, Bookings>>
    OBVIOUS
  <2>1. CASE UNCHANGED ledgerVars
    BY <2>1 DEF ledgerVars, Bookings
  <2>2. ASSUME NEW r \in Runs, Commit(r), work[r].flushed = work[r].stamped
        PROVE  Promise!Next
    <3> DEFINE S == {l \in Lines : [line |-> l, src |-> Ledger] \in work[r].stamped}
    <3>1. \A l \in S : consumedBy[l] = NoRun
      BY <2>2, CommitBooksOnce
    <3>2. consumedBy' = [l \in Lines |-> IF l \in S THEN r ELSE consumedBy[l]]
      BY <2>2 DEF Commit
    <3>3. ASSUME NEW l \in Lines
          PROVE  Cardinality(BookedFor(l)') =
                   IF l \in S THEN Cardinality(BookedFor(l)) + 1 ELSE Cardinality(BookedFor(l))
      <4>1. CASE l \in S
        <5>1. BookedFor(l) = {} /\ \E i : BookedFor(l)' = {i}
          BY <2>2, <4>1, CommitBooksOnce
        <5>2. Cardinality(BookedFor(l)) = 0 /\ Cardinality(BookedFor(l)') = 1
          BY <5>1, FS_EmptySet, FS_Singleton
        <5>3. QED
          BY <4>1, <5>2
      <4>2. CASE l \notin S
        <5>1. BookedFor(l)' = BookedFor(l)
          BY <2>2, <4>2, CommitBooksOnce
        <5>2. QED
          BY <4>2, <5>1
      <4>3. QED
        BY <4>1, <4>2
    <3>4. \A l \in Lines : Bookings[l] = Cardinality(BookedFor(l))
      BY DEF Bookings, BookedFor
    <3>5. Bookings' = [l \in Lines |-> Cardinality(BookedFor(l)')]
      BY DEF Bookings, BookedFor
    <3>6. Bookings' = [l \in Lines |-> IF l \in S THEN Bookings[l] + 1 ELSE Bookings[l]]
      BY <3>3, <3>4, <3>5
    <3>7. Promise!Consume(r, S)
      BY <3>1, <3>2, <3>6 DEF Promise!Consume
    <3>8. S \in SUBSET Lines
      OBVIOUS
    <3>9. QED
      BY <3>7, <3>8 DEF Promise!Next
  <2>3. QED
    BY <2>1, <2>2, WholeCommits
<1>3. QED
  BY <1>1, <1>2, OnceInvAlways, BookedAlways, PTL DEF Spec, LedgerPromise, Promise!Spec

(***************************************************************************)
(* Receipts are asked for committed line items only, and an answer, once    *)
(* it is a yes, is about an item Oracle holds a receipt for.                *)
(***************************************************************************)
Backed ==
    /\ ReceiptsBacked
    /\ \A r \in Runs :
         /\ work[r].toPost \subseteq items
         /\ \A d \in work[r].draft : d.item \in items /\ (d.ok => d.item \in oracle)

\* Every step keeps the receipts and the pending answers within the committed items.
LEMMA BackedStep == TypeOK /\ Backed /\ [Next]_vars => Backed'
<1> SUFFICES ASSUME TypeOK, Backed, [Next]_vars PROVE Backed'
  OBVIOUS
<1> USE DEF TypeOK, Backed, ReceiptsBacked, Work, NoWork, ledgerVars, oracleVars, apiVars, jobVars
<1>1. ASSUME NEW f \in Files, IngestReady(f)
      PROVE  Backed'
  BY <1>1 DEF IngestReady
<1>2. ASSUME NEW r \in Runs, NEW files \in Selections, CheckPendingRows(r, files)
      PROVE  Backed'
  BY <1>2 DEF CheckPendingRows
<1>3. ASSUME NEW r \in Runs, CheckNoneRunning(r)
      PROVE  Backed'
  BY <1>3 DEF CheckNoneRunning
<1>4. ASSUME NEW r \in Runs, InsertRun(r)
      PROVE  Backed'
  BY <1>4 DEF InsertRun
<1>5. ASSUME NEW r \in Runs, DeferJob(r)
      PROVE  Backed'
  BY <1>5 DEF DeferJob
<1>6. ASSUME NEW r \in Runs, ApiCrash(r)
      PROVE  Backed'
  BY <1>6 DEF ApiCrash
<1>7. ASSUME NEW r \in Runs, ResetRun(r)
      PROVE  Backed'
  BY <1>7 DEF ResetRun
<1>8. ASSUME NEW r \in Runs, FetchJob(r)
      PROVE  Backed'
  BY <1>8 DEF FetchJob
<1>9. ASSUME NEW r \in Runs, TakeLock(r)
      PROVE  Backed'
  BY <1>9 DEF TakeLock
<1>10. ASSUME NEW r \in Runs, LockRefused(r)
      PROVE  Backed'
  BY <1>10 DEF LockRefused
<1>11. ASSUME NEW r \in Runs, ReleaseLock(r)
      PROVE  Backed'
  BY <1>11 DEF ReleaseLock
<1>12. ASSUME NEW r \in Runs, NEW f \in Files, LoadFile(r, f)
      PROVE  Backed'
  BY <1>12 DEF LoadFile
<1>13. ASSUME NEW r \in Runs, TakeChunk(r)
      PROVE  Backed'
  BY <1>13 DEF TakeChunk
<1>14. ASSUME NEW r \in Runs, NEW e \in Entry, PersistLineItem(r, e)
      PROVE  Backed'
  BY <1>14 DEF PersistLineItem
<1>15. ASSUME NEW r \in Runs, NEW e \in Entry, MarkRowConsumed(r, e)
      PROVE  Backed'
  BY <1>15 DEF MarkRowConsumed
<1>16. ASSUME NEW r \in Runs, CommitChunk(r)
      PROVE  Backed'
  BY <1>16 DEF CommitChunk, Commit
<1>17. ASSUME NEW r \in Runs, StartPosting(r)
      PROVE  Backed'
  BY <1>17 DEF StartPosting
<1>18. ASSUME NEW r \in Runs, NEW i \in items, CreateReceipt(r, i)
      PROVE  Backed'
  BY <1>18 DEF CreateReceipt
<1>19. ASSUME NEW r \in Runs, RecordReceipt(r)
      PROVE  Backed'
  BY <1>19 DEF RecordReceipt
<1>20. ASSUME NEW r \in Runs, CompleteRun(r)
      PROVE  Backed'
  BY <1>20 DEF CompleteRun
<1>21. ASSUME NEW r \in Runs, DeadlockVictim(r)
      PROVE  Backed'
  BY <1>21 DEF DeadlockVictim, AbortSession
<1>22. ASSUME NEW r \in Runs, RaiseInSession(r)
      PROVE  Backed'
  BY <1>22 DEF RaiseInSession, Commit
<1>23. ASSUME NEW r \in Runs, DatabaseFails(r)
      PROVE  Backed'
  BY <1>23 DEF DatabaseFails, AbortSession
<1>24. ASSUME NEW r \in Runs, WorkerCrash(r)
      PROVE  Backed'
  BY <1>24 DEF WorkerCrash
<1>25. CASE UNCHANGED vars
  BY <1>25 DEF vars
<1>26. QED
  BY <1>1, <1>2, <1>3, <1>4, <1>5, <1>6, <1>7, <1>8, <1>9, <1>10, <1>11, <1>12, <1>13, <1>14,
     <1>15, <1>16, <1>17, <1>18, <1>19, <1>20, <1>21, <1>22, <1>23, <1>24, <1>25
  DEF Next, Request, Execute, Fault

\* Oracle never holds a receipt of a line item a rollback took away, and "success"
\* is only recorded when Oracle holds one: through lost answers, crashes and retries.
THEOREM ReceiptsBackedAlways == Spec => []ReceiptsBacked
<1>1. Init => TypeOK /\ Control /\ Backed
  BY Initially DEF Init, Backed, ReceiptsBacked, NoWork
<1>2. (TypeOK /\ Control /\ Backed) /\ [Next]_vars => (TypeOK /\ Control /\ Backed)'
  BY TypeStep, ControlStep, BackedStep
<1>3. Backed => ReceiptsBacked
  BY DEF Backed
<1>4. QED
  BY <1>1, <1>2, <1>3, PTL DEF Spec

(***************************************************************************)
(* While Step 4.5 runs, an item of the run has an outcome, waits for its    *)
(* request or for its answer; a COMPLETED run is never executed again.      *)
(***************************************************************************)
Outcomes ==
    \A r \in Runs :
        /\ \A d, e \in work[r].draft : d = e
        /\ status[r] = "completed" => /\ api[r] = "done" /\ job[r] # "todo"
                                      /\ pc[r] \in {"off", "returning"}
        /\ pc[r] = "posting" =>
             \A i \in items : i.run = r =>
               \/ i \in created \cup failed \cup work[r].toPost
               \/ \E d \in work[r].draft : d.item = i

\* Every step keeps each item of a posting or completed run accounted for.
LEMMA OutcomesStep ==
    TypeOK /\ Control /\ Outcomes /\ CompletedIsPosted /\ [Next]_vars
      => Outcomes' /\ CompletedIsPosted'
<1> SUFFICES ASSUME TypeOK, Control, Outcomes, CompletedIsPosted, [Next]_vars
             PROVE  Outcomes' /\ CompletedIsPosted'
  OBVIOUS
<1> USE DEF TypeOK, Control, InSession, Outcomes, CompletedIsPosted, Work, NoWork, ledgerVars,
            oracleVars, apiVars, jobVars
<1>1. ASSUME NEW f \in Files, IngestReady(f)
      PROVE  Outcomes' /\ CompletedIsPosted'
  BY <1>1 DEF IngestReady
<1>2. ASSUME NEW r \in Runs, NEW files \in Selections, CheckPendingRows(r, files)
      PROVE  Outcomes' /\ CompletedIsPosted'
  BY <1>2 DEF CheckPendingRows
<1>3. ASSUME NEW r \in Runs, CheckNoneRunning(r)
      PROVE  Outcomes' /\ CompletedIsPosted'
  BY <1>3 DEF CheckNoneRunning
<1>4. ASSUME NEW r \in Runs, InsertRun(r)
      PROVE  Outcomes' /\ CompletedIsPosted'
  BY <1>4 DEF InsertRun
<1>5. ASSUME NEW r \in Runs, DeferJob(r)
      PROVE  Outcomes' /\ CompletedIsPosted'
  BY <1>5 DEF DeferJob
<1>6. ASSUME NEW r \in Runs, ApiCrash(r)
      PROVE  Outcomes' /\ CompletedIsPosted'
  BY <1>6 DEF ApiCrash
<1>7. ASSUME NEW r \in Runs, ResetRun(r)
      PROVE  Outcomes' /\ CompletedIsPosted'
  BY <1>7 DEF ResetRun
<1>8. ASSUME NEW r \in Runs, FetchJob(r)
      PROVE  Outcomes' /\ CompletedIsPosted'
  BY <1>8 DEF FetchJob
<1>9. ASSUME NEW r \in Runs, TakeLock(r)
      PROVE  Outcomes' /\ CompletedIsPosted'
  BY <1>9 DEF TakeLock
<1>10. ASSUME NEW r \in Runs, LockRefused(r)
      PROVE  Outcomes' /\ CompletedIsPosted'
  BY <1>10 DEF LockRefused
<1>11. ASSUME NEW r \in Runs, ReleaseLock(r)
      PROVE  Outcomes' /\ CompletedIsPosted'
  BY <1>11 DEF ReleaseLock
<1>12. ASSUME NEW r \in Runs, NEW f \in Files, LoadFile(r, f)
      PROVE  Outcomes' /\ CompletedIsPosted'
  BY SMTT(20), <1>12 DEF LoadFile
<1>13. ASSUME NEW r \in Runs, TakeChunk(r)
      PROVE  Outcomes' /\ CompletedIsPosted'
  BY <1>13 DEF TakeChunk
<1>14. ASSUME NEW r \in Runs, NEW e \in Entry, PersistLineItem(r, e)
      PROVE  Outcomes' /\ CompletedIsPosted'
  BY <1>14 DEF PersistLineItem
<1>15. ASSUME NEW r \in Runs, NEW e \in Entry, MarkRowConsumed(r, e)
      PROVE  Outcomes' /\ CompletedIsPosted'
  BY <1>15 DEF MarkRowConsumed
<1>16. ASSUME NEW r \in Runs, CommitChunk(r)
      PROVE  Outcomes' /\ CompletedIsPosted'
  BY <1>16 DEF CommitChunk, Commit
<1>17. ASSUME NEW r \in Runs, StartPosting(r)
      PROVE  Outcomes' /\ CompletedIsPosted'
  BY <1>17 DEF StartPosting
<1>18. ASSUME NEW r \in Runs, NEW i \in items, CreateReceipt(r, i)
      PROVE  Outcomes' /\ CompletedIsPosted'
  <2>1. PICK ok \in BOOLEAN :
          work' = [work EXCEPT ![r].toPost = @ \ {i}, ![r].draft = {[item |-> i, ok |-> ok]}]
    BY <1>18 DEF CreateReceipt
  <2>2. /\ pc[r] = "posting" /\ work[r].draft = {}
        /\ UNCHANGED <<items, created, failed, status, api, job, pc>>
    BY <1>18 DEF CreateReceipt
  <2>3. /\ work'[r].toPost = work[r].toPost \ {i}
        /\ work'[r].draft = {[item |-> i, ok |-> ok]}
        /\ \A q \in Runs : q # r => work'[q] = work[q]
    BY <2>1
  <2>4. \A d, e \in work'[r].draft : d = e /\ d.item = i
    BY <2>3
  <2>5. [item |-> i, ok |-> ok] \in work'[r].draft
    BY <2>3
  <2>6. ASSUME NEW k \in items, k.run = r
        PROVE  \/ k \in created \cup failed \cup work'[r].toPost
               \/ \E d \in work'[r].draft : d.item = k
    <3>1. k \in created \cup failed \cup work[r].toPost
      BY <2>2, <2>6
    <3>2. CASE k = i
      BY <2>5, <3>2
    <3>3. CASE k # i
      BY <2>3, <3>1, <3>3
    <3>4. QED
      BY <3>2, <3>3
  <2>7. Outcomes'
    <3>1. ASSUME NEW q \in Runs, q # r
          PROVE  work'[q] = work[q]
      BY <2>3, <3>1
    <3>2. QED
      BY <2>2, <2>4, <2>6, <3>1
  <2>8. QED
    BY <2>2, <2>7
<1>19. ASSUME NEW r \in Runs, RecordReceipt(r)
      PROVE  Outcomes' /\ CompletedIsPosted'
  BY <1>19 DEF RecordReceipt
<1>20. ASSUME NEW r \in Runs, CompleteRun(r)
      PROVE  Outcomes' /\ CompletedIsPosted'
  BY SMTT(20), <1>20 DEF CompleteRun
<1>21. ASSUME NEW r \in Runs, DeadlockVictim(r)
      PROVE  Outcomes' /\ CompletedIsPosted'
  BY <1>21 DEF DeadlockVictim, AbortSession
<1>22. ASSUME NEW r \in Runs, RaiseInSession(r)
      PROVE  Outcomes' /\ CompletedIsPosted'
  BY <1>22 DEF RaiseInSession, Commit
<1>23. ASSUME NEW r \in Runs, DatabaseFails(r)
      PROVE  Outcomes' /\ CompletedIsPosted'
  BY <1>23 DEF DatabaseFails, AbortSession
<1>24. ASSUME NEW r \in Runs, WorkerCrash(r)
      PROVE  Outcomes' /\ CompletedIsPosted'
  BY <1>24 DEF WorkerCrash
<1>25. CASE UNCHANGED vars
  BY <1>25 DEF vars
<1>26. QED
  BY <1>1, <1>2, <1>3, <1>4, <1>5, <1>6, <1>7, <1>8, <1>9, <1>10, <1>11, <1>12, <1>13, <1>14,
     <1>15, <1>16, <1>17, <1>18, <1>19, <1>20, <1>21, <1>22, <1>23, <1>24, <1>25
  DEF Next, Request, Execute, Fault

\* A run that is COMPLETED has the outcome of the receipt of each of its line items,
\* those of earlier executions of its job included.
THEOREM CompletedIsPostedAlways == Spec => []CompletedIsPosted
<1> DEFINE IInv == TypeOK /\ Control /\ Outcomes /\ CompletedIsPosted
<1>1. Init => IInv
  BY Initially DEF Init, Outcomes, CompletedIsPosted, NoWork
<1>2. IInv /\ [Next]_vars => IInv'
  BY TypeStep, ControlStep, OutcomesStep
<1>3. QED
  BY <1>1, <1>2, PTL DEF Spec
==============================================================================
