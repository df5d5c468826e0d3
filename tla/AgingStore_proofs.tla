------------------------- MODULE AgingStore_proofs -------------------------
(***************************************************************************)
(* Facts about AgingStore for any files, processes, readers and requests.   *)
(***************************************************************************)
EXTENDS AgingStore, SequenceTheorems, TLAPS

USE ReportAssumption, UploadedAssumption, ReaderAssumption, BoundsAssumption

(***************************************************************************)
(* Types.  A row of the history, and a task about a file, name bytes that   *)
(* are there.                                                               *)
(***************************************************************************)
BytesExist ==
    /\ \A i \in DOMAIN sources : stored[sources[i].name] # None
    /\ \A t \in Tasks : task[t].op \notin {"none", "remove"} => stored[task[t].name] # None
TInv == TypeOK /\ BytesExist

\* What a task does decides what it can have done.
StepsFit ==
    \A t \in Tasks :
        /\ task[t].op = "none" <=> task[t].step = "idle"
        /\ task[t].op = "upload" => task[t].step = "begun"
        /\ task[t].op = "refresh" => task[t].step \in {"begun", "cached"}
        /\ task[t].op = "remove" => task[t].step \in {"begun", "cached"}
        /\ task[t].op = "select" => task[t].step \in {"flagged", "cached", "persisted"}
        /\ task[t].op = "watch" => task[t].step \in {"begun", "flagged", "cached", "persisted"}

LEMMA IdleTyped == /\ IdleTask \in Task /\ IdleTask.op = "none" /\ IdleTask.step = "idle"
                   /\ IdleTask.source = 0 /\ IdleTask.locks = {} /\ IdleTask.report = None
                   /\ IdleReader \in Reader /\ IdleReader.step = "idle"
<1>1. (CHOOSE n \in Names : TRUE) \in Names
  OBVIOUS
<1>2. QED
  BY <1>1 DEF IdleTask, Task, IdleReader, Reader

LEMMA TypedInitially == Init => TInv
<1> SUFFICES ASSUME Init PROVE TInv
  OBVIOUS
<1>1. sources \in Seq(Source) /\ DOMAIN sources = DOMAIN Uploaded
  <2>1. \A i \in DOMAIN Uploaded : Uploaded[i] \in Names
    BY ElementOfSeq
  <2>2. DOMAIN Uploaded = 1..Len(Uploaded) /\ Len(Uploaded) \in Nat
    OBVIOUS
  <2>3. \A i \in 1..Len(Uploaded) : [name |-> Uploaded[i], archived |-> TRUE] \in Source
    BY <2>1, <2>2 DEF Source
  <2>4. QED
    BY <2>2, <2>3 DEF Init
<1>2. TypeOK
  BY <1>1, IdleTyped DEF Init, TypeOK, Processes
<1>3. BytesExist
  BY <1>1, IdleTyped DEF Init, BytesExist
<1>4. QED
  BY <1>2, <1>3 DEF TInv

\* A step of one task t that keeps the files, the bytes and the history: its new value decides.
LEMMA TaskStepTyped ==
    ASSUME TInv, NEW t \in Tasks, NEW new \in Task,
           task' = [task EXCEPT ![t] = new], UNCHANGED <<sources, stored>>,
           new.source \in 0..Len(sources), new.locks \subseteq DOMAIN sources,
           new.op \notin {"none", "remove"} => stored[new.name] # None
    PROVE  /\ task' \in [Tasks -> Task]
           /\ \A u \in Tasks : task'[u] = IF u = t THEN new ELSE task[u]
           /\ \A u \in Tasks : /\ task'[u].source \in 0..Len(sources')
                               /\ task'[u].locks \subseteq DOMAIN sources'
           /\ BytesExist'
<1>1. /\ task' \in [Tasks -> Task]
      /\ \A u \in Tasks : task'[u] = IF u = t THEN new ELSE task[u]
  BY DEF TInv, TypeOK
<1>2. QED
  BY <1>1 DEF TInv, TypeOK, BytesExist

LEMMA HistoryTyped ==
    ASSUME TypeOK
    PROVE  /\ Len(sources) \in Nat /\ DOMAIN sources = 1..Len(sources)
           /\ \A i \in DOMAIN sources : /\ sources[i] \in Source
                                        /\ sources[i].name \in Names /\ sources[i].archived \in BOOLEAN
<1>1. sources \in Seq(Source)
  BY DEF TypeOK
<1>2. Len(sources) \in Nat /\ DOMAIN sources = 1..Len(sources)
  BY <1>1
<1>3. \A i \in 1..Len(sources) : sources[i] \in Source
  BY <1>1, ElementOfSeq
<1>4. \A r \in Source : r.name \in Names /\ r.archived \in BOOLEAN
  BY DEF Source
<1>5. QED
  BY <1>2, <1>3, <1>4

Begun(op, name, i) == [IdleTask EXCEPT !.op = op, !.step = "begun", !.name = name, !.source = i]
LEMMA BeginTyped ==
    ASSUME TInv, NEW t \in Tasks, NEW op \in {"upload", "refresh"}, NEW name \in Names,
           NEW i \in 0..Len(sources), Begin(t, op, name, i)
    PROVE  /\ Begun(op, name, i) \in Task /\ Begun(op, name, i).op = op
           /\ Begun(op, name, i).name = name /\ Begun(op, name, i).source = i
           /\ Begun(op, name, i).locks = {} /\ Begun(op, name, i).step = "begun"
           /\ task' = [task EXCEPT ![t] = Begun(op, name, i)]
           /\ calm' \in BOOLEAN /\ requested' \in Nat
           /\ UNCHANGED <<folder, processed, snapshot, cache, reader, reads, restarts, faults>>
<1>1. i \in Nat
  BY HistoryTyped DEF TInv
<1>2. IdleTask \in Task /\ IdleTask.locks = {}
  BY IdleTyped
<1> DEFINE new == Begun(op, name, i)
<1>3. /\ new \in Task /\ new.op = op /\ new.name = name /\ new.source = i /\ new.locks = {}
      /\ new.step = "begun"
  BY <1>1, <1>2 DEF Task, Begun
<1>4. calm' \in BOOLEAN /\ requested' \in Nat
  BY DEF Begin, Start, Ask, TInv, TypeOK
<1>5. /\ task' = [task EXCEPT ![t] = new]
      /\ UNCHANGED <<folder, processed, snapshot, cache, reader, reads, restarts, faults>>
  BY DEF Begin, Begun
<1>6. QED
  BY <1>3, <1>4, <1>5

LEMMA RequestsTyped ==
    ASSUME TInv, NEW t \in Tasks,
           \/ \E name \in Names, content \in Contents : Upload(t, name, content)
           \/ Refresh(t) \/ Remove(t)
    PROVE  TInv'
<1>1. ASSUME NEW name \in Names, NEW content \in Contents, Upload(t, name, content) PROVE TInv'
  <2> DEFINE new == Begun("upload", name, 0)
  <2>1. /\ new \in Task /\ new.name = name /\ new.source = 0 /\ new.locks = {}
        /\ task' = [task EXCEPT ![t] = new]
        /\ calm' \in BOOLEAN /\ requested' \in Nat
        /\ UNCHANGED <<folder, processed, snapshot, cache, reader, reads, restarts, faults>>
    <3>1. 0 \in 0..Len(sources)
      BY DEF TInv, TypeOK
    <3>2. QED
      BY <1>1, <3>1, BeginTyped DEF Upload
  <2> HIDE DEF new
  <2>2. /\ sources' = sources /\ stored' \in [Names -> Contents \cup {None}]
        /\ \A n \in Names : stored'[n] = IF n = name THEN content ELSE stored[n]
    BY <1>1 DEF Upload, TInv, TypeOK
  <2>3. /\ task' \in [Tasks -> Task] /\ sources \in Seq(Source)
        /\ \A u \in Tasks : task'[u] = IF u = t THEN new ELSE task[u]
    BY <2>1 DEF TInv, TypeOK
  <2>4. TypeOK'
    BY <2>1, <2>2, <2>3 DEF TInv, TypeOK
  <2>5. \A n \in Names : stored[n] # None \/ n = name => stored'[n] # None
    BY <2>2
  <2>6. \A i \in DOMAIN sources : sources[i].name \in Names
    BY HistoryTyped DEF TInv
  <2>7. \A u \in Tasks : task'[u].name \in Names
    BY <2>3 DEF Task
  <2>8. BytesExist'
    BY <2>1, <2>2, <2>3, <2>5, <2>6, <2>7 DEF TInv, BytesExist
  <2>9. QED
    BY <2>4, <2>8 DEF TInv
<1>2. CASE Refresh(t)
  <2>1. PICK i \in Latest : Begin(t, "refresh", sources[i].name, i) /\ UNCHANGED <<sources, stored>>
    BY <1>2 DEF Refresh
  <2>2. i \in 0..Len(sources) /\ i \in DOMAIN sources /\ sources[i].name \in Names
    BY HistoryTyped DEF Latest, TInv
  <2> DEFINE new == Begun("refresh", sources[i].name, i)
  <2>3. /\ new \in Task /\ new.name = sources[i].name /\ new.source = i /\ new.locks = {}
        /\ task' = [task EXCEPT ![t] = new]
        /\ calm' \in BOOLEAN /\ requested' \in Nat
        /\ UNCHANGED <<folder, processed, snapshot, cache, reader, reads, restarts, faults>>
    BY <2>1, <2>2, BeginTyped
  <2> HIDE DEF new
  <2>4. stored[new.name] # None
    BY <2>2, <2>3 DEF TInv, BytesExist
  <2>5. QED
    BY <2>1, <2>2, <2>3, <2>4, TaskStepTyped DEF TInv, TypeOK
<1>3. CASE Remove(t)
  <2> DEFINE new == [IdleTask EXCEPT !.op = "remove", !.step = "begun"]
             Row(i) == IF i \in Latest THEN [sources[i] EXCEPT !.archived = TRUE] ELSE sources[i]
  <2>1. new \in Task /\ new.op = "remove" /\ new.source = 0 /\ new.locks = {}
    BY IdleTyped DEF Task
  <2>2. /\ task' = [task EXCEPT ![t] = new] /\ sources' = [i \in DOMAIN sources |-> Row(i)]
        /\ calm' \in BOOLEAN /\ requested' \in Nat
        /\ UNCHANGED <<stored, folder, processed, snapshot, cache, reader, reads, restarts, faults>>
    BY <1>3 DEF Remove, Start, Ask, TInv, TypeOK
  <2> HIDE DEF new
  <2>3. \A i \in 1..Len(sources) : Row(i) \in Source /\ Row(i).name = sources[i].name
    BY HistoryTyped DEF TInv, Source
  <2> HIDE DEF Row
  <2>4. /\ sources' \in Seq(Source) /\ Len(sources') = Len(sources)
        /\ DOMAIN sources' = DOMAIN sources
        /\ \A i \in DOMAIN sources : sources'[i].name = sources[i].name
    <3>1. Len(sources) \in Nat /\ DOMAIN sources = 1..Len(sources)
      BY HistoryTyped DEF TInv
    <3>2. sources' = [i \in 1..Len(sources) |-> Row(i)]
      BY <2>2, <3>1
    <3>3. QED
      BY <2>3, <3>1, <3>2
  <2>5. /\ task' \in [Tasks -> Task]
        /\ \A u \in Tasks : task'[u] = IF u = t THEN new ELSE task[u]
    BY <2>1, <2>2 DEF TInv, TypeOK
  <2>6. TypeOK'
    BY <2>1, <2>2, <2>4, <2>5 DEF TInv, TypeOK
  <2>7. BytesExist'
    BY <2>1, <2>2, <2>4, <2>5 DEF TInv, BytesExist
  <2>8. QED
    BY <2>6, <2>7 DEF TInv
<1>4. QED
  BY <1>1, <1>2, <1>3

LEMMA FlagOthersTyped ==
    ASSUME TInv, NEW t \in Tasks, NEW op \in {"select", "watch"}, NEW name \in Names,
           NEW i \in 0..Len(sources), NEW others \in SUBSET DOMAIN sources,
           FlagOthers(t, op, name, i, others), stored[name] # None,
           calm' \in BOOLEAN, requested' \in Nat, UNCHANGED <<folder, processed>>
    PROVE  TInv'
<1> DEFINE new == [op |-> op, step |-> "flagged", name |-> name, source |-> i, locks |-> others,
                   report |-> None, loaded |-> IF i = 0 THEN FALSE ELSE sources[i].archived]
<1>1. new \in Task
  <2>1. i \in Nat /\ others \in SUBSET Nat /\ (i # 0 => sources[i].archived \in BOOLEAN)
    BY HistoryTyped DEF TInv
  <2>2. QED
    BY <2>1 DEF Task
<1>2. task' = [task EXCEPT ![t] = new] /\ UNCHANGED <<sources, stored>>
  BY DEF FlagOthers
<1>3. new.source = i /\ new.locks = others /\ new.name = name
  OBVIOUS
<1> HIDE DEF new
<1>4. QED
  <2>1. /\ task' \in [Tasks -> Task] /\ BytesExist'
        /\ \A u \in Tasks : task'[u].source \in 0..Len(sources') /\ task'[u].locks \subseteq DOMAIN sources'
    BY <1>1, <1>2, <1>3, TaskStepTyped
  <2>2. QED
    BY <2>1 DEF FlagOthers, TInv, TypeOK

LEMMA FlagTyped ==
    ASSUME TInv, NEW t \in Tasks, FlagWatched(t) \/ \E i \in DOMAIN sources : Select(t, i)
    PROVE  TInv'
<1>1. CASE FlagWatched(t)
  <2> DEFINE name == task[t].name
             i == IF WatchedRow(name) = {} THEN 0 ELSE CHOOSE k \in WatchedRow(name) : TRUE
             others == {k \in DOMAIN sources : sources[k].name # name}
  <2>1. i \in 0..Len(sources) /\ others \in SUBSET DOMAIN sources
    <3>1. WatchedRow(name) \subseteq 1..Len(sources)
      BY DEF WatchedRow, TInv, TypeOK
    <3>2. QED
      BY <3>1 DEF TInv, TypeOK
  <2>2. FlagOthers(t, "watch", name, i, others) /\ UNCHANGED <<folder, processed, calm, requested>>
    BY <1>1 DEF FlagWatched
  <2>3. name \in Names /\ stored[name] # None
    BY <1>1 DEF FlagWatched, TInv, TypeOK, BytesExist, Task
  <2> HIDE DEF i, others, name
  <2>4. calm' \in BOOLEAN /\ requested' \in Nat
    BY <2>2 DEF TInv, TypeOK
  <2>5. QED
    BY <2>1, <2>2, <2>3, <2>4, FlagOthersTyped
<1>2. ASSUME NEW i \in DOMAIN sources, Select(t, i) PROVE TInv'
  <2>1. /\ i \in 0..Len(sources) /\ sources[i].name \in Names /\ stored[sources[i].name] # None
        /\ (DOMAIN sources \ {i}) \in SUBSET DOMAIN sources
    BY HistoryTyped DEF TInv, BytesExist
  <2>2. calm' \in BOOLEAN /\ requested' \in Nat
    BY <1>2 DEF Select, Start, Ask, TInv, TypeOK
  <2>3. QED
    BY <1>2, <2>1, <2>2, FlagOthersTyped DEF Select
<1>3. QED
  BY <1>1, <1>2

\* A task that ends, with or without a rollback.
LEMMA FinishTyped ==
    ASSUME TInv, NEW t \in Tasks, Finish(t), UNCHANGED <<sources, stored>>
    PROVE  /\ task' \in [Tasks -> Task]
           /\ \A u \in Tasks : task'[u].source \in 0..Len(sources') /\ task'[u].locks \subseteq DOMAIN sources'
           /\ BytesExist'
<1>1. 0 \in 0..Len(sources)
  BY HistoryTyped DEF TInv
<1>2. QED
  BY <1>1, IdleTyped, TaskStepTyped DEF Finish

LEMMA FailTyped ==
    ASSUME TInv, NEW t \in Tasks, Unparsable(t) \/ DeadlockVictim(t) \/ DatabaseFails(t)
    PROVE  TInv'
<1>1. Finish(t) /\ UNCHANGED <<sources, stored, folder, snapshot, cache, reader>>
  BY DEF Unparsable, DeadlockVictim, DatabaseFails, Fail
<1>2. processed' \in SUBSET Names
  BY DEF Unparsable, DeadlockVictim, DatabaseFails, Fail, TInv, TypeOK
<1>3. calm' \in BOOLEAN /\ requested' \in Nat /\ reads' \in Nat /\ restarts' \in Nat /\ faults' \in Nat
  <2>1. CASE DatabaseFails(t)
    <3>1. calm' = FALSE /\ faults' = faults + 1 /\ UNCHANGED <<requested, reads, restarts>>
      BY <2>1 DEF DatabaseFails
    <3>2. faults \in Nat /\ requested \in Nat /\ reads \in Nat /\ restarts \in Nat
      BY DEF TInv, TypeOK
    <3>3. calm' \in BOOLEAN
      BY <3>1, Zenon
    <3>5. faults' \in Nat
      BY <3>1, <3>2
    <3>4. QED
      BY <3>1, <3>2, <3>3, <3>5
  <2>2. CASE Unparsable(t) \/ DeadlockVictim(t)
    BY <2>2 DEF Unparsable, DeadlockVictim, bounds, TInv, TypeOK
  <2>3. QED
    BY <2>1, <2>2
<1>4. QED
  BY <1>1, <1>2, <1>3, FinishTyped DEF TInv, TypeOK

\* Setting the step, and the report, of a task under way.
LEMMA ProgressTyped ==
    ASSUME TInv, NEW t \in Tasks, ClearCache(t) \/ SetCache(t)
    PROVE  TInv'
<1>1. /\ task[t] \in Task /\ task[t].name \in Names
      /\ task[t].source \in 0..Len(sources) /\ task[t].locks \subseteq DOMAIN sources
      /\ (task[t].op \notin {"none", "remove"} => stored[task[t].name] # None)
  BY DEF TInv, TypeOK, BytesExist, Task
<1>2. CASE ClearCache(t)
  <2> DEFINE new == [task[t] EXCEPT !.step = "cached"]
  <2>1. new \in Task /\ new.op = task[t].op /\ new.name = task[t].name
        /\ new.source = task[t].source /\ new.locks = task[t].locks
    BY <1>1 DEF Task
  <2>2. task' = [task EXCEPT ![t] = new]
    BY <1>2 DEF ClearCache
  <2> HIDE DEF new
  <2>3. UNCHANGED <<sources, stored>>
    BY <1>2 DEF ClearCache
  <2>4. /\ task' \in [Tasks -> Task] /\ BytesExist'
        /\ \A u \in Tasks : task'[u].source \in 0..Len(sources') /\ task'[u].locks \subseteq DOMAIN sources'
    BY <1>1, <2>1, <2>2, <2>3, TaskStepTyped
  <2>5. QED
    BY <1>2, <2>4 DEF ClearCache, bounds, TInv, TypeOK
<1>3. CASE SetCache(t)
  <2> DEFINE new == [task[t] EXCEPT !.step = "cached", !.report = ReportOf(t)]
  <2>1. ReportOf(t) \in Report
    <3>1. task[t].op \notin {"none", "remove"}
      BY <1>3 DEF SetCache, Loading
    <3>2. stored[task[t].name] \in Contents
      BY <1>1, <3>1 DEF TInv, TypeOK
    <3>3. QED
      BY <1>1, <3>2 DEF ReportOf, Report
  <2>2. new \in Task /\ new.op = task[t].op /\ new.name = task[t].name
        /\ new.source = task[t].source /\ new.locks = task[t].locks
    BY <1>1, <2>1 DEF Task
  <2>3. task' = [task EXCEPT ![t] = new]
    BY <1>3 DEF SetCache
  <2> HIDE DEF new
  <2>4. UNCHANGED <<sources, stored>>
    BY <1>3 DEF SetCache
  <2>5. /\ task' \in [Tasks -> Task] /\ BytesExist'
        /\ \A u \in Tasks : task'[u].source \in 0..Len(sources') /\ task'[u].locks \subseteq DOMAIN sources'
    BY <1>1, <2>2, <2>3, <2>4, TaskStepTyped
  <2>6. cache' \in [Processes -> Report \cup {None}]
    BY <1>3, <2>1 DEF SetCache, TInv, TypeOK
  <2>7. QED
    BY <1>3, <2>5, <2>6 DEF SetCache, bounds, TInv, TypeOK
<1>4. QED
  BY <1>2, <1>3

LEMMA PersistTyped ==
    ASSUME TInv, NEW t \in Tasks, Persist(t)
    PROVE  TInv'
<1> DEFINE new == IF task[t].op = "refresh" THEN IdleTask ELSE [task[t] EXCEPT !.step = "persisted"]
<1>1. /\ task[t] \in Task /\ task[t].report \in Report \cup {None}
      /\ task[t].source \in 0..Len(sources) /\ task[t].locks \subseteq DOMAIN sources
      /\ (task[t].op \notin {"none", "remove"} => stored[task[t].name] # None)
  BY DEF TInv, TypeOK, BytesExist, Task
<1>2. /\ new \in Task /\ new.source \in 0..Len(sources) /\ new.locks \subseteq DOMAIN sources
      /\ (new.op \notin {"none", "remove"} => stored[new.name] # None)
  <2>1. CASE task[t].op = "refresh"
    BY <2>1, IdleTyped, HistoryTyped DEF TInv
  <2>2. CASE task[t].op # "refresh"
    BY <1>1, <2>2 DEF Task
  <2>3. QED
    BY <2>1, <2>2
<1>3. task' = [task EXCEPT ![t] = new] /\ UNCHANGED <<sources, stored>>
  BY DEF Persist
<1> HIDE DEF new
<1>4. /\ task' \in [Tasks -> Task] /\ BytesExist'
      /\ \A u \in Tasks : task'[u].source \in 0..Len(sources') /\ task'[u].locks \subseteq DOMAIN sources'
  BY <1>2, <1>3, TaskStepTyped
<1>5. QED
  BY <1>1, <1>4 DEF Persist, bounds, TInv, TypeOK

LEMMA RemovalTyped ==
    ASSUME TInv, NEW t \in Tasks, DeleteSnapshot(t)
    PROVE  TInv'
<1>1. Finish(t) /\ UNCHANGED <<sources, stored>>
  BY DEF DeleteSnapshot
<1>2. QED
  BY <1>1, FinishTyped DEF DeleteSnapshot, bounds, TInv, TypeOK

LEMMA LongerRange ==
    ASSUME NEW a \in Nat, NEW b \in Nat, b >= a
    PROVE  0..a \subseteq 0..b /\ 1..a \subseteq 1..b /\ 0 \in 0..b
OBVIOUS

\* A longer history, in which the rows keep their names, of a task that then ends.
LEMMA GrowthTyped ==
    ASSUME TInv, NEW t \in Tasks, NEW kept \in Seq(Source), NEW row \in Source,
           Len(kept) = Len(sources), \A i \in DOMAIN sources : kept[i].name = sources[i].name,
           stored[row.name] # None,
           sources' = kept \/ sources' = Append(kept, row),
           Finish(t), UNCHANGED <<stored, folder, processed, snapshot, cache, reader, bounds>>
    PROVE  TInv'
<1>1. /\ Len(sources) \in Nat /\ DOMAIN sources = 1..Len(sources)
      /\ sources' \in Seq(Source) /\ Len(sources') >= Len(sources) /\ Len(sources') \in Nat
      /\ DOMAIN sources' = 1..Len(sources')
  BY HistoryTyped DEF TInv
<1>2. \A i \in DOMAIN sources' : stored[sources'[i].name] # None
  <2>1. \A i \in DOMAIN sources : stored[kept[i].name] # None
    BY DEF TInv, BytesExist
  <2>2. CASE sources' = Append(kept, row)
    <3>1. \A i \in 1..(Len(kept) + 1) : sources'[i] = IF i = Len(kept) + 1 THEN row ELSE kept[i]
      BY <2>2
    <3>2. DOMAIN sources' = 1..(Len(kept) + 1)
      BY <1>1, <2>2
    <3>3. ASSUME NEW i \in 1..(Len(kept) + 1) PROVE stored[sources'[i].name] # None
      <4>1. CASE i = Len(kept) + 1
        BY <3>1, <4>1
      <4>2. CASE i # Len(kept) + 1
        <5>1. i \in 1..Len(sources)
          <6>1. Len(kept) = Len(sources) /\ Len(sources) \in Nat
            BY <1>1
          <6>2. QED
            BY <4>2, <6>1
        <5>2. sources'[i] = kept[i]
          BY <3>1, <4>2
        <5>3. QED
          BY <1>1, <2>1, <5>1, <5>2
      <4>3. QED
        BY <4>1, <4>2
    <3>4. QED
      BY <3>2, <3>3
  <2>3. CASE sources' = kept
    BY <1>1, <2>1, <2>3
  <2>4. QED
    BY <2>2, <2>3
<1>3. /\ task' \in [Tasks -> Task]
      /\ \A u \in Tasks : task'[u] = IF u = t THEN IdleTask ELSE task[u]
  BY IdleTyped DEF Finish, TInv, TypeOK
<1>4. \A u \in Tasks : task'[u].source \in 0..Len(sources') /\ task'[u].locks \subseteq DOMAIN sources'
  <2>1. \A u \in Tasks : task[u].source \in 0..Len(sources) /\ task[u].locks \subseteq DOMAIN sources
    BY DEF TInv, TypeOK
  <2>2. 0..Len(sources) \subseteq 0..Len(sources') /\ DOMAIN sources \subseteq DOMAIN sources'
    <3>1. Len(sources) \in Nat /\ Len(sources') \in Nat /\ Len(sources') >= Len(sources)
      BY <1>1
    <3>2. DOMAIN sources = 1..Len(sources) /\ DOMAIN sources' = 1..Len(sources')
      BY <1>1
    <3>3. QED
      BY <3>1, <3>2, LongerRange
  <2>3. 0 \in 0..Len(sources')
    BY <1>1, LongerRange
  <2>4. QED
    BY <1>3, <2>1, <2>2, <2>3, IdleTyped
<1>5. \A u \in Tasks : task'[u].op \notin {"none", "remove"} => stored'[task'[u].name] # None
  BY <1>3, IdleTyped DEF TInv, BytesExist
<1>6. QED
  BY <1>1, <1>2, <1>3, <1>4, <1>5 DEF TInv, TypeOK, BytesExist, bounds

LEMMA HistoryStepTyped ==
    ASSUME TInv, StepsFit, NEW t \in Tasks, InsertSource(t) \/ CommitFlags(t)
    PROVE  TInv'
<1> DEFINE row == [name |-> task[t].name, archived |-> FALSE]
<1>1. row \in Source /\ row.name = task[t].name /\ task[t] \in Task
  BY DEF Source, TInv, TypeOK, Task
<1>2. CASE InsertSource(t)
  <2>1. task[t].op = "upload"
    BY <1>2 DEF InsertSource
  <2>2. stored[row.name] # None
    BY <1>1, <2>1 DEF TInv, BytesExist
  <2>3. /\ sources' = Append(sources, row) /\ sources \in Seq(Source)
    BY <1>2 DEF InsertSource, TInv, TypeOK
  <2>4. Finish(t) /\ UNCHANGED <<stored, folder, processed, snapshot, cache, reader, bounds>>
    BY <1>2 DEF InsertSource
  <2> HIDE DEF row
  <2>5. QED
    BY <1>1, <2>2, <2>3, <2>4, GrowthTyped
<1>3. CASE CommitFlags(t)
  <2> DEFINE Flag(i) == (sources[i].archived \/ i \in task[t].locks) /\ i \notin Own(t)
             Row(i) == [sources[i] EXCEPT !.archived = Flag(i)]
             kept == [i \in DOMAIN sources |-> Row(i)]
  <2>1. stored[row.name] # None
    BY <1>1, <1>3 DEF CommitFlags, StepsFit, TInv, BytesExist
  <2>2. /\ Finish(t) /\ UNCHANGED <<stored, folder, processed, snapshot, cache, reader, bounds>>
        /\ sources' = kept \/ sources' = Append(kept, row)
    BY <1>3 DEF CommitFlags
  <2>3. Len(sources) \in Nat /\ DOMAIN sources = 1..Len(sources)
    BY HistoryTyped DEF TInv
  <2>4. \A i \in 1..Len(sources) : Row(i) \in Source /\ Row(i).name = sources[i].name
    <3>1. \A i \in 1..Len(sources) : Flag(i) \in BOOLEAN
      BY HistoryTyped DEF TInv
    <3> HIDE DEF Flag
    <3>2. QED
      BY <3>1, HistoryTyped DEF TInv, Source
  <2> HIDE DEF Row, row
  <2>5. /\ kept \in Seq(Source) /\ Len(kept) = Len(sources)
        /\ \A i \in DOMAIN sources : kept[i].name = sources[i].name
    BY <2>3, <2>4
  <2> HIDE DEF kept
  <2>6. QED
    BY <1>1, <2>1, <2>2, <2>5, GrowthTyped
<1>4. QED
  BY <1>2, <1>3

LEMMA FitNext ==
    ASSUME TypeOK, StepsFit, [Next]_vars
    PROVE  StepsFit'
<1>1. CASE UNCHANGED task
  BY <1>1 DEF StepsFit
<1>2. ASSUME NEW t \in Tasks, Finish(t) PROVE StepsFit'
  <2>1. /\ \A u \in Tasks : u # t => task'[u] = task[u]
        /\ task'[t].op = "none" /\ task'[t].step = "idle"
    BY <1>2, IdleTyped DEF Finish, TypeOK
  <2>2. QED
    BY <2>1 DEF StepsFit
<1>3. ASSUME NEW t \in Tasks, NEW op \in {"upload", "refresh"}, NEW name, NEW i, Begin(t, op, name, i)
      PROVE  StepsFit'
  <2>1. /\ \A u \in Tasks : u # t => task'[u] = task[u]
        /\ task'[t].op = op /\ task'[t].step = "begun"
    BY <1>3, IdleTyped DEF Begin, TypeOK, Task
  <2>2. QED
    BY <2>1 DEF StepsFit
<1>4. ASSUME NEW t \in Tasks, Remove(t) \/ \E name \in Names : Watch(t, name) PROVE StepsFit'
  <2>1. /\ \A u \in Tasks : u # t => task'[u] = task[u]
        /\ task'[t].op \in {"remove", "watch"} /\ task'[t].step = "begun"
    <3>1. CASE Remove(t)
      <4>1. /\ task \in [Tasks -> Task]
            /\ task' = [task EXCEPT ![t] = [IdleTask EXCEPT !.op = "remove", !.step = "begun"]]
        BY <3>1 DEF Remove, TypeOK
      <4>2. QED
        BY <4>1, IdleTyped DEF Task
    <3>2. ASSUME NEW name \in Names, Watch(t, name)
          PROVE /\ \A u \in Tasks : u # t => task'[u] = task[u]
                /\ task'[t].op = "watch" /\ task'[t].step = "begun"
      <4>1. /\ task \in [Tasks -> Task]
            /\ task' = [task EXCEPT ![t] = [IdleTask EXCEPT !.op = "watch", !.step = "begun", !.name = name]]
        BY <3>2 DEF Watch, TypeOK
      <4>2. QED
        BY <4>1, IdleTyped DEF Task
    <3>3. QED
      BY <1>4, <3>1, <3>2
  <2>2. QED
    BY <2>1 DEF StepsFit
<1>5. ASSUME NEW t \in Tasks, NEW op \in {"select", "watch"}, NEW name, NEW i, NEW others,
             FlagOthers(t, op, name, i, others)
      PROVE  StepsFit'
  <2>1. /\ \A u \in Tasks : u # t => task'[u] = task[u]
        /\ task'[t].op = op /\ task'[t].step = "flagged"
    BY <1>5 DEF FlagOthers, TypeOK
  <2>2. QED
    BY <2>1 DEF StepsFit
<1>6. ASSUME NEW t \in Tasks, ClearCache(t) \/ SetCache(t) PROVE StepsFit'
  <2>1. /\ \A u \in Tasks : u # t => task'[u] = task[u]
        /\ task'[t].op = task[t].op /\ task'[t].step = "cached"
    BY <1>6 DEF ClearCache, SetCache, TypeOK, Task
  <2>2. task[t].op \in {"refresh", "remove", "select", "watch"}
    BY <1>6 DEF ClearCache, SetCache, Loading
  <2>3. QED
    BY <2>1, <2>2 DEF StepsFit
<1>7. ASSUME NEW t \in Tasks, Persist(t) PROVE StepsFit'
  <2>1. CASE task[t].op = "refresh"
    BY <1>2, <1>7, <2>1 DEF Persist, Finish
  <2>2. CASE task[t].op # "refresh"
    <3>1. /\ \A u \in Tasks : u # t => task'[u] = task[u]
          /\ task'[t].op = task[t].op /\ task'[t].step = "persisted"
      BY <1>7, <2>2 DEF Persist, TypeOK, Task
    <3>2. task[t].op \in {"select", "watch"}
      BY <1>7, <2>2 DEF Persist, Parsed
    <3>3. QED
      BY <3>1, <3>2 DEF StepsFit
  <2>3. QED
    BY <2>1, <2>2
<1>8. CASE \E p \in Processes : Restart(p)
  <2>1. UNCHANGED task \/ task' = [t \in Tasks |-> IdleTask]
    BY <1>8 DEF Restart
  <2>2. CASE task' = [t \in Tasks |-> IdleTask]
    BY <2>2, IdleTyped DEF StepsFit
  <2>3. QED
    BY <1>1, <2>1, <2>2
<1>9. ASSUME NEW t \in Tasks, Work(t) \/ DatabaseFails(t) PROVE StepsFit'
  <2>1. CASE FlagWatched(t)
    BY <1>5, <2>1 DEF FlagWatched
  <2>2. CASE InsertSource(t) \/ DeleteSnapshot(t) \/ Unparsable(t) \/ CommitFlags(t) \/ DeadlockVictim(t) \/ DatabaseFails(t)
    BY <1>2, <2>2 DEF InsertSource, DeleteSnapshot, Unparsable, CommitFlags, DeadlockVictim, DatabaseFails, Fail
  <2>3. QED
    BY <1>6, <1>7, <1>9, <2>1, <2>2 DEF Work
<1>10. CASE Request
  <2>1. ASSUME NEW t \in Tasks, NEW i \in DOMAIN sources, Select(t, i) PROVE StepsFit'
    BY <1>5, <2>1 DEF Select
  <2>2. ASSUME NEW t \in Tasks, Refresh(t) PROVE StepsFit'
    BY <1>3, <2>2 DEF Refresh
  <2>3. ASSUME NEW t \in Tasks, NEW name \in Names, NEW content \in Contents, Upload(t, name, content) PROVE StepsFit'
    BY <1>3, <2>3 DEF Upload
  <2>4. ASSUME NEW name \in Names, NEW content \in Contents, DropFile(name, content) PROVE StepsFit'
    BY <1>1, <2>4 DEF DropFile
  <2>5. QED
    BY <1>4, <1>10, <2>1, <2>2, <2>3, <2>4 DEF Request
<1>11. ASSUME NEW r \in Readers, LookUp(r) \/ Read(r) PROVE StepsFit'
  BY <1>1, <1>11 DEF LookUp, Read, LoadSnapshot, FillCache, ReturnCached, EndUse
<1>12. CASE UNCHANGED vars
  BY <1>1, <1>12 DEF vars
<1>13. QED
  BY <1>4, <1>8, <1>9, <1>10, <1>11, <1>12 DEF Next, Scan

LEMMA FolderTyped ==
    ASSUME TInv, \/ \E name \in Names, content \in Contents : DropFile(name, content)
                 \/ \E t \in Tasks, name \in Names : Watch(t, name)
    PROVE  TInv'
<1>1. ASSUME NEW name \in Names, NEW content \in Contents, DropFile(name, content) PROVE TInv'
  <2>1. requested' \in Nat /\ UNCHANGED <<sources, stored, processed, snapshot, cache, task, reader, calm,
                                          reads, restarts, faults>>
    BY <1>1 DEF DropFile, Ask, TInv, TypeOK
  <2>2. folder' \in [Names -> Contents \cup {None}]
    BY <1>1 DEF DropFile, TInv, TypeOK
  <2>3. QED
    BY <2>1, <2>2 DEF TInv, TypeOK, BytesExist
<1>2. ASSUME NEW t \in Tasks, NEW name \in Names, Watch(t, name) PROVE TInv'
  <2> DEFINE new == [IdleTask EXCEPT !.op = "watch", !.step = "begun", !.name = name]
  <2>1. new \in Task /\ new.name = name /\ new.source = 0 /\ new.locks = {}
    BY IdleTyped DEF Task
  <2>2. /\ task' = [task EXCEPT ![t] = new] /\ stored' = [stored EXCEPT ![name] = folder[name]]
        /\ folder[name] \in Contents /\ processed' = processed \cup {name}
        /\ UNCHANGED <<sources, folder, snapshot, cache, reader, requested, reads, restarts, faults>>
    BY <1>2 DEF Watch, TInv, TypeOK
  <2> HIDE DEF new
  <2>3. calm' \in BOOLEAN
    BY <1>2, Zenon DEF Watch, Start
  <2>4. /\ stored' \in [Names -> Contents \cup {None}]
        /\ \A n \in Names : stored[n] # None \/ n = name => stored'[n] # None
    BY <2>2 DEF TInv, TypeOK
  <2>5. /\ task' \in [Tasks -> Task]
        /\ \A u \in Tasks : task'[u] = IF u = t THEN new ELSE task[u]
    BY <2>1, <2>2 DEF TInv, TypeOK
  <2>6. \A u \in Tasks : task'[u].source \in 0..Len(sources) /\ task'[u].locks \subseteq DOMAIN sources
    <3>1. 0 \in 0..Len(sources)
      BY HistoryTyped DEF TInv
    <3>2. QED
      BY <2>1, <2>5, <3>1 DEF TInv, TypeOK
  <2>7. TypeOK'
    BY <2>2, <2>3, <2>4, <2>5, <2>6 DEF TInv, TypeOK
  <2>8. BytesExist'
    <3>1. /\ \A i \in DOMAIN sources : sources[i].name \in Names
          /\ \A u \in Tasks : task'[u].name \in Names
      BY <2>5, HistoryTyped DEF TInv, Task
    <3>2. QED
      BY <2>1, <2>2, <2>4, <2>5, <3>1 DEF TInv, BytesExist
  <2>9. QED
    BY <2>7, <2>8 DEF TInv
<1>3. QED
  BY <1>1, <1>2

\* The readers touch the cache of their own process and nothing else of the report.
LEMMA ReadsTyped ==
    ASSUME TInv, NEW r \in Readers, LookUp(r) \/ Read(r)
    PROVE  TInv'
<1>1. /\ UNCHANGED <<sources, stored, folder, processed, snapshot, task, requested, restarts, faults>>
      /\ reads' \in Nat
  BY DEF LookUp, Read, LoadSnapshot, FillCache, ReturnCached, EndUse, bounds, TInv, TypeOK
<1>2. calm' \in BOOLEAN
  <2>1. calm \in BOOLEAN
    BY DEF TInv, TypeOK
  <2>2. QED
    BY <2>1, Zenon DEF LookUp, Read, LoadSnapshot, FillCache, ReturnCached, EndUse, bounds
<1>3. /\ ProcessOf[r] \in Processes /\ CacheOf(r) \in Report \cup {None}
      /\ reader[r].found \in Report \cup {None} /\ reader[r] \in Reader
      /\ reader \in [Readers -> Reader] /\ snapshot \in Report \cup {None}
  BY DEF TInv, TypeOK, CacheOf, Reader
<1>4. /\ \A step \in {"missed", "filled"} : Goes(r, step) => reader' \in [Readers -> Reader]
      /\ \A report \in Report \cup {None} : Uses(r, report) => reader' \in [Readers -> Reader]
  <2>1. \A step \in {"missed", "filled"} : [reader[r] EXCEPT !.step = step] \in Reader
    BY <1>3 DEF Reader
  <2>2. \A report \in Report \cup {None} :
            [reader[r] EXCEPT !.step = "using", !.found = None, !.report = report] \in Reader
    BY <1>3 DEF Reader
  <2>3. \A step : Goes(r, step) => reader' = [reader EXCEPT ![r] = [reader[r] EXCEPT !.step = step]]
    BY DEF Goes
  <2>4. \A report : Uses(r, report) =>
            reader' = [reader EXCEPT ![r] = [reader[r] EXCEPT !.step = "using", !.found = None, !.report = report]]
    BY DEF Uses
  <2>5. \A new \in Reader : [reader EXCEPT ![r] = new] \in [Readers -> Reader]
    BY <1>3
  <2>6. QED
    <3>1. ASSUME NEW step \in {"missed", "filled"}, Goes(r, step) PROVE reader' \in [Readers -> Reader]
      BY <2>1, <2>3, <2>5, <3>1
    <3>2. ASSUME NEW report \in Report \cup {None}, Uses(r, report) PROVE reader' \in [Readers -> Reader]
      BY ZenonT(40), <2>2, <2>4, <2>5, <3>2
    <3>3. QED
      BY <3>1, <3>2
<1>5. reader' \in [Readers -> Reader]
  <2>1. CASE LookUp(r)
    BY <1>3, <1>4, <2>1 DEF LookUp
  <2>2. CASE LoadSnapshot(r)
    <3>1. \/ reader' = [reader EXCEPT ![r] = IdleReader]
          \/ reader' = [reader EXCEPT ![r].step = "loaded", ![r].found = snapshot]
      BY <2>2 DEF LoadSnapshot
    <3>2. QED
      BY <1>3, <3>1, IdleTyped DEF Reader
  <2>3. CASE FillCache(r)
    BY <1>3, <1>4, <2>3 DEF FillCache
  <2>4. CASE ReturnCached(r) \/ EndUse(r)
    BY <1>3, <1>4, <2>4, IdleTyped DEF ReturnCached, EndUse
  <2>5. QED
    BY <2>1, <2>2, <2>3, <2>4 DEF Read
<1>6. cache' \in [Processes -> Report \cup {None}]
  <2>1. UNCHANGED cache \/ cache' = [cache EXCEPT ![ProcessOf[r]] = reader[r].found]
    BY DEF LookUp, Read, LoadSnapshot, FillCache, ReturnCached, EndUse
  <2>2. QED
    BY <1>3, <2>1 DEF TInv, TypeOK
<1>7. QED
  BY <1>1, <1>2, <1>5, <1>6 DEF TInv, TypeOK, BytesExist

LEMMA RestartTyped ==
    ASSUME TInv, NEW p \in Processes, Restart(p)
    PROVE  TInv'
<1>1. /\ UNCHANGED <<sources, stored, folder, snapshot, requested, reads>>
      /\ restarts' \in Nat /\ faults' \in Nat
  BY DEF Restart, TInv, TypeOK
<1>2. calm' \in BOOLEAN
  <2>1. calm \in BOOLEAN
    BY DEF TInv, TypeOK
  <2>2. QED
    BY <2>1, Zenon DEF Restart
<1>3. /\ cache' \in [Processes -> Report \cup {None}] /\ reader' \in [Readers -> Reader]
      /\ processed' \in SUBSET Names
  BY IdleTyped DEF Restart, TInv, TypeOK
<1>4. UNCHANGED task \/ task' = [t \in Tasks |-> IdleTask]
  BY DEF Restart
<1>5. CASE UNCHANGED task
  BY <1>1, <1>2, <1>3, <1>5 DEF TInv, TypeOK, BytesExist
<1>6. CASE task' = [t \in Tasks |-> IdleTask]
  <2>1. 0 \in 0..Len(sources)
    BY HistoryTyped DEF TInv
  <2>2. QED
    BY <1>1, <1>2, <1>3, <1>6, <2>1, IdleTyped DEF TInv, TypeOK, BytesExist
<1>7. QED
  BY <1>4, <1>5, <1>6

LEMMA TypedNext ==
    ASSUME TInv, StepsFit, [Next]_vars
    PROVE  TInv'
<1>1. CASE UNCHANGED vars
  BY <1>1 DEF vars, TInv, TypeOK, BytesExist
<1>2. CASE Request
  BY <1>2, RequestsTyped, FlagTyped, FolderTyped DEF Request
<1>3. CASE Scan
  BY <1>3, FolderTyped DEF Scan
<1>4. ASSUME NEW t \in Tasks, Work(t) \/ DatabaseFails(t) PROVE TInv'
  BY <1>4, HistoryStepTyped, ProgressTyped, RemovalTyped, FlagTyped, FailTyped, PersistTyped DEF Work
<1>5. QED
  BY <1>1, <1>2, <1>3, <1>4, ReadsTyped, RestartTyped DEF Next

LEMMA TypedAlways == Spec => [](TInv /\ StepsFit)
<1>1. Init => TInv /\ StepsFit
  <2>1. Init => StepsFit
    BY IdleTyped DEF Init, StepsFit
  <2>2. QED
    BY <2>1, TypedInitially
<1>2. TInv /\ StepsFit /\ [Next]_vars => (TInv /\ StepsFit)'
  BY TypedNext, FitNext DEF TInv
<1>3. QED
  BY <1>1, <1>2, PTL DEF Spec

\* The variables, the rows a task chose and those it locks keep their types.
THEOREM AgingStoreTypeCorrect == Spec => []TypeOK
<1>1. TInv /\ StepsFit => TypeOK
  BY DEF TInv
<1>2. QED
  BY <1>1, TypedAlways, PTL

(***************************************************************************)
(* A worker with one reader at a time.                                      *)
(***************************************************************************)
OneReaderEach ==
    \A r, s \in Readers : ProcessOf[r] = ProcessOf[s] /\ ProcessOf[r] # Api => r = s

LEMMA KeptNext ==
    ASSUME OneReaderEach, TypeOK, RunKeepsReport, [Next]_vars
    PROVE  RunKeepsReport'
<1> SUFFICES ASSUME NEW r \in Readers, ProcessOf[r] # Api, reader'[r].step = "using"
             PROVE  cache'[ProcessOf[r]] = reader'[r].report
  BY DEF RunKeepsReport, CacheOf
<1>0. /\ ProcessOf[r] \in Processes /\ ProcessOf[r] # Api
      /\ cache \in [Processes -> Report \cup {None}] /\ reader \in [Readers -> Reader]
  BY DEF TypeOK
<1>1. ASSUME cache'[ProcessOf[r]] = cache[ProcessOf[r]], reader'[r] = reader[r]
      PROVE  cache'[ProcessOf[r]] = reader'[r].report
  BY <1>1 DEF RunKeepsReport, CacheOf
<1>2. CASE Request \/ Scan \/ UNCHANGED vars \/ \E t \in Tasks : Work(t) \/ DatabaseFails(t)
  <2>1. UNCHANGED reader
    BY <1>2 DEF vars, Request, Upload, Refresh, Remove, Select, FlagOthers, Begin, DropFile, Scan, Watch,
                Work, InsertSource, ClearCache, DeleteSnapshot, FlagWatched, Unparsable, SetCache, Persist,
                CommitFlags, DeadlockVictim, DatabaseFails
  <2>2. \/ UNCHANGED cache
        \/ \E v \in Report \cup {None} : cache' = [cache EXCEPT ![Api] = v]
        \/ \E t \in Tasks : cache' = [cache EXCEPT ![Api] = ReportOf(t)]
    BY <1>2 DEF vars, Request, Upload, Refresh, Remove, Select, FlagOthers, Begin, DropFile, Scan, Watch,
                Work, InsertSource, ClearCache, DeleteSnapshot, FlagWatched, Unparsable, SetCache, Persist,
                CommitFlags, DeadlockVictim, DatabaseFails
  <2>3. QED
    BY <1>0, <1>1, <2>1, <2>2
<1>3. ASSUME NEW s \in Readers, LookUp(s) \/ Read(s) PROVE cache'[ProcessOf[r]] = reader'[r].report
  <2>1. CASE s = r
    <3>1. /\ reader'[r].step = "using"
          /\ UNCHANGED cache
          /\ \/ reader' = [reader EXCEPT ![r].step = "using", ![r].found = None, ![r].report = CacheOf(r)]
             \/ reader' = reader
      <4>1. CASE LookUp(r)
        BY <1>0, <4>1 DEF LookUp, Uses, Goes, Reader
      <4>2. CASE LoadSnapshot(r)
        BY <1>0, <4>2, IdleTyped DEF LoadSnapshot, Reader
      <4>3. CASE FillCache(r)
        BY <1>0, <4>3 DEF FillCache, Goes, Reader
      <4>4. CASE ReturnCached(r) \/ EndUse(r)
        BY <1>0, <4>4, IdleTyped DEF ReturnCached, EndUse, Uses
      <4>5. QED
        BY <1>3, <2>1, <4>1, <4>2, <4>3, <4>4 DEF Read
    <3>2. QED
      BY <1>0, <1>1, <3>1 DEF Reader, CacheOf
  <2>2. CASE s # r
    <3>1. ProcessOf[s] # ProcessOf[r]
      BY <2>2 DEF OneReaderEach
    <3>2. reader'[r] = reader[r]
      BY <1>0, <1>3, <2>2 DEF LookUp, Read, LoadSnapshot, FillCache, ReturnCached, EndUse, Uses, Goes
    <3>3. UNCHANGED cache \/ cache' = [cache EXCEPT ![ProcessOf[s]] = reader[s].found]
      BY <1>3 DEF LookUp, Read, LoadSnapshot, FillCache, ReturnCached, EndUse
    <3>4. QED
      BY <1>0, <1>1, <3>1, <3>2, <3>3
  <2>3. QED
    BY <2>1, <2>2
<1>4. ASSUME NEW p \in Processes, Restart(p) PROVE cache'[ProcessOf[r]] = reader'[r].report
  <2>1. CASE ProcessOf[r] = p
    <3>1. reader'[r] = IdleReader
      BY <1>4, <2>1 DEF Restart
    <3>2. QED
      BY <3>1, IdleTyped
  <2>2. CASE ProcessOf[r] # p
    BY <1>0, <1>1, <1>4, <2>2 DEF Restart
  <2>3. QED
    BY <2>1, <2>2
<1>5. QED
  BY <1>2, <1>3, <1>4 DEF Next

\* Where a worker has one reader at a time, the report a run was evaluated with stays the one
\* its process has, whatever the API loads, removes or selects meanwhile (the cache of
\* aging_store.py is never reloaded).
THEOREM RunKeepsReportAlways == ASSUME OneReaderEach PROVE Spec => []RunKeepsReport
<1>1. Init => RunKeepsReport
  BY IdleTyped DEF Init, RunKeepsReport
<1>2. TypeOK /\ RunKeepsReport /\ [Next]_vars => RunKeepsReport'
  BY KeptNext
<1>3. QED
  BY <1>1, <1>2, AgingStoreTypeCorrect, PTL DEF Spec

(***************************************************************************)
(* While the history is calm: one task at a time and none while a lookup of *)
(* the API fills the cache.  What is under way says how far the file, the   *)
(* cache and the snapshot may be apart.                                     *)
(***************************************************************************)
\* The row a task works on is still as it chose it.
Active(i) == i \in DOMAIN sources /\ ~sources[i].archived
Chosen(t) ==
    LET i == task[t].source IN
    /\ task[t].op = "refresh" => Active(i) /\ sources[i].name = task[t].name
    /\ task[t].op \in {"select", "watch"} /\ i # 0 =>
          /\ i \in DOMAIN sources /\ i \notin task[t].locks
          /\ sources[i].name = task[t].name /\ task[t].loaded = sources[i].archived
TaskFits(t) ==
    /\ Chosen(t)
    /\ Parsed(t) => /\ task[t].report \in Report /\ task[t].report.name = task[t].name
                    /\ cache[Api] = task[t].report
    /\ task[t].op = "remove" /\ task[t].step = "cached" => cache[Api] = None
    /\ task[t].step = "persisted" => snapshot \in Report /\ snapshot.name = task[t].name
Settled ==
    \/ snapshot = None
    \/ \E t \in Tasks : task[t].op = "remove" \/ task[t].step = "persisted"
    \/ \E i \in DOMAIN sources : ~sources[i].archived /\ sources[i].name = snapshot.name
CacheFits == cache[Api] \in {None, snapshot} \/ \E t \in Tasks : Parsed(t)
ReaderFits(r) ==
    Filling(r) => (\A t \in Tasks : Idle(t)) /\ (reader[r].step = "loaded" => reader[r].found = snapshot)
OneTask == \A t, u \in Tasks : ~Idle(t) /\ ~Idle(u) => t = u
CalmInv ==
    calm => /\ OneTask
            /\ \A r \in Readers : ReaderFits(r)
            /\ \A t \in Tasks : TaskFits(t)
            /\ Settled /\ CacheFits

\* A task that is idle after the step asks nothing.
LEMMA IdleFits ==
    ASSUME StepsFit', NEW u \in Tasks, Idle(u)'
    PROVE  TaskFits(u)' /\ ~Parsed(u)'
BY DEF StepsFit, Idle, TaskFits, Chosen, Parsed

\* A task that starts finds everything at rest.
LEMMA StartCalm ==
    ASSUME StepsFit, StepsFit', CalmInv, calm, calm', NEW t \in Tasks, Start(t),
           \A u \in Tasks : u # t => task'[u] = task[u],
           UNCHANGED <<reader, snapshot, cache>>
    PROVE  /\ OneTask' /\ \A r \in Readers : ReaderFits(r)'
           /\ \A u \in Tasks : u # t => TaskFits(u)'
           /\ CacheFits'
           /\ \A u \in Tasks : Idle(u) /\ task[u].op = "none"
           /\ snapshot = None \/ \E i \in DOMAIN sources : ~sources[i].archived /\ sources[i].name = snapshot.name
<1>1. (\A u \in Tasks : Idle(u)) /\ \A r \in Readers : ~Filling(r)
  BY DEF Start, Quiet
<1>2. \A u \in Tasks : u # t => Idle(u)'
  BY <1>1 DEF Idle
<1>3. \A u \in Tasks : Idle(u) /\ task[u].op = "none" /\ task[u].step = "idle"
  BY <1>1 DEF StepsFit, Idle
<1>4. OneTask'
  BY <1>2 DEF OneTask
<1>5. \A r \in Readers : ReaderFits(r)'
  BY <1>1 DEF ReaderFits, Filling
<1>6. \A u \in Tasks : u # t => TaskFits(u)'
  BY <1>2, IdleFits
<1>7. CacheFits'
  BY <1>3 DEF CalmInv, CacheFits, Parsed
<1>8. QED
  BY <1>3, <1>4, <1>5, <1>6, <1>7 DEF CalmInv, Settled

\* A task at work is alone.
LEMMA StepCalm ==
    ASSUME StepsFit, StepsFit', CalmInv, calm, NEW t \in Tasks, ~Idle(t),
           \A u \in Tasks : u # t => task'[u] = task[u],
           UNCHANGED reader
    PROVE  /\ OneTask' /\ \A r \in Readers : ReaderFits(r)'
           /\ \A u \in Tasks : u # t => TaskFits(u)' /\ Idle(u) /\ task[u].op = "none"
           /\ TaskFits(t)
<1>1. \A u \in Tasks : u # t => Idle(u) /\ task[u].op = "none"
  BY DEF CalmInv, OneTask, StepsFit, Idle
<1>2. \A u \in Tasks : u # t => Idle(u)'
  BY <1>1 DEF Idle
<1>3. OneTask'
  BY <1>2 DEF OneTask
<1>4. \A r \in Readers : ~Filling(r)
  BY DEF CalmInv, ReaderFits
<1>5. \A r \in Readers : ReaderFits(r)'
  BY <1>4 DEF ReaderFits, Filling
<1>6. QED
  BY <1>1, <1>2, <1>3, <1>5, IdleFits DEF CalmInv

LEMMA RequestCalm ==
    ASSUME TInv, StepsFit, StepsFit', CalmInv, calm, calm', NEW t \in Tasks,
           \/ \E name \in Names, content \in Contents : Upload(t, name, content)
           \/ Refresh(t) \/ Remove(t) \/ \E name \in Names : Watch(t, name)
    PROVE  CalmInv'
<1>0. /\ task \in [Tasks -> Task] /\ IdleTask \in Task
  BY IdleTyped DEF TInv, TypeOK
<1>1. ASSUME NEW op \in {"upload", "refresh"}, NEW name \in Names, NEW i \in 0..Len(sources),
             Begin(t, op, name, i), UNCHANGED sources,
             op = "refresh" => Active(i) /\ sources[i].name = name
      PROVE  CalmInv'
  <2>1. /\ task'[t].op = op /\ task'[t].step = "begun" /\ task'[t].name = name /\ task'[t].source = i
        /\ \A u \in Tasks : u # t => task'[u] = task[u]
        /\ Start(t) /\ UNCHANGED <<reader, snapshot, cache>>
    BY <1>0, <1>1 DEF Begin, Task
  <2>2. TaskFits(t)'
    BY <1>1, <2>1 DEF TaskFits, Chosen, Parsed, Active
  <2>3. QED
    BY <1>1, <2>1, <2>2, StartCalm DEF CalmInv, Settled
<1>2. CASE Remove(t)
  <2>1. /\ task'[t].op = "remove" /\ task'[t].step = "begun"
        /\ \A u \in Tasks : u # t => task'[u] = task[u]
        /\ Start(t) /\ UNCHANGED <<reader, snapshot, cache>>
    <3>1. task' = [task EXCEPT ![t] = [IdleTask EXCEPT !.op = "remove", !.step = "begun"]]
      BY <1>2 DEF Remove
    <3>2. QED
      BY <1>0, <1>2, <3>1 DEF Remove, Task
  <2>2. TaskFits(t)' /\ Settled'
    BY <2>1 DEF TaskFits, Chosen, Parsed, Settled
  <2>3. QED
    BY <2>1, <2>2, StartCalm DEF CalmInv
<1>3. ASSUME NEW name \in Names, Watch(t, name) PROVE CalmInv'
  <2>1. /\ task'[t].op = "watch" /\ task'[t].step = "begun" /\ task'[t].source = 0
        /\ \A u \in Tasks : u # t => task'[u] = task[u]
        /\ Start(t) /\ UNCHANGED <<sources, reader, snapshot, cache>>
    <3>1. task' = [task EXCEPT ![t] = [IdleTask EXCEPT !.op = "watch", !.step = "begun", !.name = name]]
      BY <1>3 DEF Watch
    <3>2. /\ task'[t].op = "watch" /\ task'[t].step = "begun" /\ task'[t].source = 0
          /\ \A u \in Tasks : u # t => task'[u] = task[u]
      BY <1>0, <3>1, IdleTyped DEF Task
    <3>3. QED
      BY <1>3, <3>2 DEF Watch
  <2>2. TaskFits(t)'
    BY <2>1 DEF TaskFits, Chosen, Parsed
  <2>3. QED
    BY <2>1, <2>2, StartCalm DEF CalmInv, Settled
<1>4. ASSUME NEW name \in Names, NEW content \in Contents, Upload(t, name, content) PROVE CalmInv'
  <2>1. 0 \in 0..Len(sources)
    BY HistoryTyped DEF TInv
  <2>2. QED
    BY <1>1, <1>4, <2>1 DEF Upload
<1>5. CASE Refresh(t)
  <2>1. PICK i \in Latest : Begin(t, "refresh", sources[i].name, i) /\ UNCHANGED <<sources, stored>>
    BY <1>5 DEF Refresh
  <2>2. i \in 0..Len(sources) /\ Active(i) /\ sources[i].name \in Names
    BY HistoryTyped DEF Latest, TInv, Active
  <2>3. QED
    BY <1>1, <2>1, <2>2
<1>6. QED
  BY <1>2, <1>3, <1>4, <1>5

\* The row that FlagOthers is given, if any, has the name and is not among the others.
LEMMA FlaggedFits ==
    ASSUME NEW t \in Tasks, NEW op \in {"select", "watch"}, NEW name, NEW i, NEW others,
           FlagOthers(t, op, name, i, others), task \in [Tasks -> Task],
           i = 0 \/ (i \in DOMAIN sources /\ sources[i].name = name /\ i \notin others)
    PROVE  /\ TaskFits(t)' /\ task'[t].op = op /\ task'[t].step = "flagged"
           /\ \A u \in Tasks : u # t => task'[u] = task[u]
           /\ UNCHANGED <<sources, snapshot, cache, reader>>
<1>1. /\ task'[t] = [op |-> op, step |-> "flagged", name |-> name, source |-> i, locks |-> others, report |-> None,
                     loaded |-> IF i = 0 THEN FALSE ELSE sources[i].archived]
      /\ \A u \in Tasks : u # t => task'[u] = task[u]
      /\ UNCHANGED <<sources, snapshot, cache, reader>>
  BY DEF FlagOthers
<1>2. task'[t].op = op /\ task'[t].step = "flagged" /\ task'[t].source = i
  BY <1>1
<1>3. ~Parsed(t)' /\ task'[t].step # "persisted" /\ task'[t].op # "remove"
  BY <1>2 DEF Parsed
<1>4. Chosen(t)'
  <2>1. CASE i = 0
    BY <1>2, <2>1 DEF Chosen
  <2>2. CASE i # 0
    BY <1>1, <2>2 DEF Chosen
  <2>3. QED
    BY <2>1, <2>2
<1>5. QED
  BY <1>1, <1>2, <1>3, <1>4 DEF TaskFits

LEMMA FlagCalm ==
    ASSUME TInv, StepsFit, StepsFit', CalmInv, calm, calm', NEW t \in Tasks,
           FlagWatched(t) \/ \E i \in DOMAIN sources : Select(t, i)
    PROVE  CalmInv'
<1>0. task \in [Tasks -> Task]
  BY DEF TInv, TypeOK
<1>1. ASSUME NEW i \in DOMAIN sources, Select(t, i) PROVE CalmInv'
  <2>1. /\ TaskFits(t)' /\ \A u \in Tasks : u # t => task'[u] = task[u]
        /\ UNCHANGED <<sources, snapshot, cache, reader>> /\ Start(t)
    BY <1>0, <1>1, FlaggedFits DEF Select
  <2>2. QED
    BY <2>1, StartCalm DEF CalmInv, Settled
<1>2. CASE FlagWatched(t)
  <2> DEFINE name == task[t].name
             i == IF WatchedRow(name) = {} THEN 0 ELSE CHOOSE k \in WatchedRow(name) : TRUE
             others == {k \in DOMAIN sources : sources[k].name # name}
  <2>1. FlagOthers(t, "watch", name, i, others)
    BY <1>2 DEF FlagWatched
  <2>2. i = 0 \/ (i \in DOMAIN sources /\ sources[i].name = name /\ i \notin others)
    <3>1. i = 0 \/ i \in WatchedRow(name)
      OBVIOUS
    <3> HIDE DEF i
    <3>2. QED
      BY <3>1 DEF WatchedRow
  <2> HIDE DEF i, others, name
  <2>3. /\ TaskFits(t)' /\ task'[t].op = "watch" /\ task'[t].step = "flagged"
        /\ \A u \in Tasks : u # t => task'[u] = task[u]
        /\ UNCHANGED <<sources, snapshot, cache, reader>>
    BY <1>0, <2>1, <2>2, FlaggedFits
  <2>4. task[t].op = "watch" /\ task[t].step = "begun" /\ ~Idle(t)
    BY <1>2 DEF FlagWatched, Idle
  <2>5. /\ OneTask' /\ \A r \in Readers : ReaderFits(r)'
        /\ \A u \in Tasks : u # t => TaskFits(u)' /\ Idle(u) /\ task[u].op = "none"
    BY <2>3, <2>4, StepCalm
  <2>6. Settled' /\ CacheFits'
    BY <2>3, <2>4, <2>5 DEF CalmInv, Settled, CacheFits, Idle, Parsed
  <2>7. QED
    BY <2>3, <2>5, <2>6 DEF CalmInv
<1>3. QED
  BY <1>1, <1>2

\* A task that ends with nothing persisted leaves history and cache as they are.
LEMMA EndCalm ==
    ASSUME TInv, StepsFit, StepsFit', CalmInv, calm, NEW t \in Tasks, ~Idle(t), Finish(t), UNCHANGED reader,
           Settled', cache'[Api] \in {None, snapshot'}
    PROVE  CalmInv'
<1>1. /\ Idle(t)' /\ \A u \in Tasks : u # t => task'[u] = task[u]
  BY IdleTyped DEF Finish, Idle, TInv, TypeOK
<1>2. QED
  BY <1>1, StepCalm, IdleFits DEF CalmInv, CacheFits

LEMMA LoadCalm ==
    ASSUME TInv, StepsFit, StepsFit', CalmInv, calm, calm', NEW t \in Tasks,
           Unparsable(t) \/ SetCache(t) \/ Persist(t)
    PROVE  CalmInv'
<1>0. /\ ~Idle(t) /\ UNCHANGED <<sources, reader>>
      /\ task \in [Tasks -> Task] /\ task[t] \in Task /\ TaskFits(t)
      /\ task[t].op \notin {"none", "remove"}
  BY DEF Unparsable, SetCache, Persist, Loading, Parsed, Idle, CalmInv, TInv, TypeOK
<1>1. \A u \in Tasks : u # t => Idle(u) /\ task[u].op = "none" /\ task[u].step = "idle"
  BY <1>0 DEF CalmInv, OneTask, StepsFit, Idle
<1>2. CASE Unparsable(t)
  <2>1. Loading(t) /\ Finish(t) /\ UNCHANGED <<sources, snapshot, cache>>
    BY <1>2 DEF Unparsable, Fail
  <2>2. task[t].step # "persisted" /\ ~Parsed(t)
    BY <2>1 DEF Loading, Parsed
  <2>3. Settled' /\ cache'[Api] \in {None, snapshot'}
    BY <1>0, <1>1, <2>1, <2>2 DEF CalmInv, Settled, CacheFits, Parsed
  <2>4. QED
    BY <1>0, <2>1, <2>3, EndCalm
<1>3. CASE SetCache(t)
  <2>1. /\ task'[t].step = "cached" /\ task'[t].report = ReportOf(t)
        /\ task'[t].op = task[t].op /\ task'[t].name = task[t].name /\ task'[t].source = task[t].source
        /\ task'[t].loaded = task[t].loaded /\ task'[t].locks = task[t].locks
        /\ \A u \in Tasks : u # t => task'[u] = task[u]
        /\ cache'[Api] = ReportOf(t) /\ UNCHANGED <<sources, snapshot>>
    BY <1>0, <1>3 DEF SetCache, TInv, TypeOK, Processes, Task
  <2>2. ReportOf(t) \in Report /\ ReportOf(t).name = task[t].name
    <3>1. stored[task[t].name] \in Contents /\ task[t].name \in Names
      BY <1>0 DEF TInv, TypeOK, BytesExist, Task
    <3>2. QED
      BY <3>1 DEF ReportOf, Report
  <2>3. TaskFits(t)'
    BY <1>0, <2>1, <2>2 DEF TaskFits, Chosen, Active, Parsed
  <2>4. Parsed(t)'
    BY <1>3, <2>1 DEF SetCache, Loading, Parsed
  <2>5. Settled'
    <3>1. task[t].step # "persisted"
      BY <1>3 DEF SetCache, Loading
    <3>2. QED
      BY <1>0, <1>1, <2>1, <3>1 DEF CalmInv, Settled
  <2>6. QED
    BY <1>0, <2>1, <2>3, <2>4, <2>5, StepCalm DEF CalmInv, CacheFits
<1>4. CASE Persist(t)
  <2>1. /\ Parsed(t) /\ snapshot' = task[t].report /\ UNCHANGED <<sources, cache>>
        /\ snapshot' \in Report /\ snapshot'.name = task[t].name /\ cache'[Api] = snapshot'
    BY <1>0, <1>4 DEF Persist, TaskFits
  <2>2. CASE task[t].op = "refresh"
    <3>1. Finish(t)
      BY <1>4, <2>2 DEF Persist, Finish
    <3>2. Settled'
      BY <1>0, <2>1, <2>2 DEF Settled, TaskFits, Chosen, Active
    <3>3. QED
      BY <1>0, <2>1, <3>1, <3>2, EndCalm
  <2>3. CASE task[t].op # "refresh"
    <3>1. /\ task'[t].step = "persisted"
          /\ task'[t].op = task[t].op /\ task'[t].name = task[t].name /\ task'[t].source = task[t].source
          /\ task'[t].loaded = task[t].loaded /\ task'[t].locks = task[t].locks
          /\ \A u \in Tasks : u # t => task'[u] = task[u]
      BY <1>0, <1>4, <2>3 DEF Persist, Task
    <3>2. TaskFits(t)' /\ Settled' /\ CacheFits'
      BY <1>0, <2>1, <2>3, <3>1 DEF TaskFits, Chosen, Active, Parsed, Settled, CacheFits
    <3>3. QED
      BY <1>0, <3>1, <3>2, StepCalm DEF CalmInv
  <2>4. QED
    BY <2>2, <2>3
<1>5. QED
  BY <1>2, <1>3, <1>4

LEMMA RemovalCalm ==
    ASSUME TInv, StepsFit, StepsFit', CalmInv, calm, calm', NEW t \in Tasks,
           ClearCache(t) \/ DeleteSnapshot(t)
    PROVE  CalmInv'
<1>0. ~Idle(t) /\ task \in [Tasks -> Task] /\ task[t] \in Task /\ TaskFits(t) /\ task[t].op = "remove"
  BY DEF ClearCache, DeleteSnapshot, Idle, CalmInv, TInv, TypeOK
<1>1. CASE ClearCache(t)
  <2>1. /\ task'[t].op = "remove" /\ task'[t].step = "cached"
        /\ \A u \in Tasks : u # t => task'[u] = task[u]
        /\ cache'[Api] = None /\ UNCHANGED <<sources, snapshot, reader>>
    BY <1>0, <1>1 DEF ClearCache, Task, TInv, TypeOK, Processes
  <2>2. TaskFits(t)' /\ Settled' /\ CacheFits'
    BY <2>1 DEF TaskFits, Chosen, Parsed, Settled, CacheFits
  <2>3. QED
    BY <1>0, <2>1, <2>2, StepCalm DEF CalmInv
<1>2. CASE DeleteSnapshot(t)
  <2>1. Finish(t) /\ UNCHANGED <<cache, reader>> /\ snapshot' = None /\ cache[Api] = None
    BY <1>0, <1>2 DEF DeleteSnapshot, TaskFits
  <2>2. QED
    BY <1>0, <2>1, EndCalm DEF Settled
<1>3. QED
  BY <1>1, <1>2

\* The row the snapshot is from is still active when the history grows or the flags are set.
LEMMA HistoryCalm ==
    ASSUME TInv, StepsFit, StepsFit', CalmInv, calm, calm', NEW t \in Tasks,
           InsertSource(t) \/ CommitFlags(t)
    PROVE  CalmInv'
<1>0. /\ ~Idle(t) /\ TaskFits(t) /\ Finish(t) /\ UNCHANGED <<snapshot, cache, reader>>
      /\ ~Parsed(t) /\ task[t].op # "remove"
  BY DEF InsertSource, CommitFlags, Idle, Parsed, CalmInv, StepsFit
<1>1. \A u \in Tasks : u # t => task[u].op = "none" /\ task[u].step = "idle"
  BY <1>0 DEF CalmInv, OneTask, StepsFit, Idle
<1>2. cache'[Api] \in {None, snapshot'}
  BY <1>0, <1>1 DEF CalmInv, CacheFits, Parsed
<1>3. Len(sources) \in Nat /\ DOMAIN sources = 1..Len(sources) /\ sources \in Seq(Source)
  BY HistoryTyped DEF TInv, TypeOK
<1>4. CASE InsertSource(t)
  <2>1. task[t].step # "persisted"
    BY <1>4 DEF InsertSource
  <2>2. /\ DOMAIN sources \subseteq DOMAIN sources' /\ \A i \in DOMAIN sources : sources'[i] = sources[i]
    <3>1. sources' = Append(sources, [name |-> task[t].name, archived |-> FALSE])
      BY <1>4 DEF InsertSource
    <3>2. QED
      BY <1>3, <3>1
  <2>3. Settled'
    BY <1>0, <1>1, <2>1, <2>2 DEF CalmInv, Settled
  <2>4. QED
    BY <1>0, <1>2, <2>3, EndCalm
<1>5. CASE CommitFlags(t)
  <2> DEFINE Flag(i) == (sources[i].archived \/ i \in task[t].locks) /\ i \notin Own(t)
             Row(i) == [sources[i] EXCEPT !.archived = Flag(i)]
             flagged == [i \in DOMAIN sources |-> Row(i)]
             j == task[t].source
  <2>1. /\ task[t].op \in {"select", "watch"} /\ snapshot \in Report /\ snapshot.name = task[t].name
    <3>1. task[t].op \in {"none", "upload", "refresh", "remove", "select", "watch"}
      BY DEF TInv, TypeOK, Task
    <3>2. QED
      BY <1>0, <1>5, <3>1 DEF CommitFlags, StepsFit, TaskFits
  <2>2. sources' = IF j # 0 THEN flagged ELSE Append(flagged, [name |-> task[t].name, archived |-> FALSE])
    BY <1>5 DEF CommitFlags
  <2>3. CASE j # 0
    <3>1. /\ j \in DOMAIN sources /\ j \notin task[t].locks /\ sources[j].name = task[t].name
          /\ task[t].loaded = sources[j].archived
      BY <1>0, <2>1, <2>3 DEF TaskFits, Chosen
    <3>2. ~Flag(j)
      BY <3>1 DEF Own
    <3> HIDE DEF Flag
    <3>3. /\ j \in DOMAIN sources' /\ sources'[j] = [sources[j] EXCEPT !.archived = Flag(j)]
      BY <2>2, <2>3, <3>1
    <3>4. sources[j] \in Source
      BY <1>3, <3>1, HistoryTyped DEF TInv
    <3>5. sources'[j].name = sources[j].name /\ ~sources'[j].archived
      BY <3>2, <3>3, <3>4 DEF Source
    <3>6. QED
      BY <1>0, <1>2, <2>1, <3>1, <3>3, <3>5, EndCalm DEF Settled
  <2>4. CASE j = 0
    <3> DEFINE row == [name |-> task[t].name, archived |-> FALSE]
    <3>1. flagged \in Seq(Source) /\ row \in Source
      <4>1. \A i \in 1..Len(sources) : Flag(i) \in BOOLEAN
        BY HistoryTyped DEF TInv
      <4> HIDE DEF Flag
      <4>2. \A i \in 1..Len(sources) : Row(i) \in Source
        BY <4>1, HistoryTyped DEF TInv, Source
      <4> HIDE DEF Row
      <4>3. row \in Source
        BY DEF TInv, TypeOK, Task, Source
      <4>4. QED
        BY <1>3, <4>2, <4>3
    <3> HIDE DEF flagged
    <3>2. sources' = Append(flagged, row) /\ row.name = task[t].name /\ ~row.archived
      BY <2>2, <2>4
    <3> HIDE DEF row
    <3>3. /\ Len(flagged) + 1 \in DOMAIN sources' /\ sources'[Len(flagged) + 1] = row
      BY <3>1, <3>2
    <3>4. QED
      BY <1>0, <1>2, <2>1, <3>2, <3>3, EndCalm DEF Settled
  <2>5. QED
    BY <2>3, <2>4
<1>6. QED
  BY <1>4, <1>5

LEMMA ReadsCalm ==
    ASSUME TInv, StepsFit', CalmInv, calm, calm', NEW r \in Readers, LookUp(r) \/ Read(r)
    PROVE  CalmInv'
<1>0. /\ UNCHANGED <<sources, snapshot, task>>
      /\ cache \in [Processes -> Report \cup {None}] /\ ProcessOf[r] \in Processes
      /\ reader \in [Readers -> Reader] /\ Api \in Processes
  BY DEF LookUp, Read, LoadSnapshot, FillCache, ReturnCached, EndUse, TInv, TypeOK, Processes
<1>1. OneTask' /\ Settled'
  BY <1>0 DEF CalmInv, OneTask, Settled, Idle
<1>2. ASSUME NEW s \in Readers, s # r PROVE ReaderFits(s)'
  <2>1. reader'[s] = reader[s]
    BY <1>0, <1>2 DEF LookUp, Read, LoadSnapshot, FillCache, ReturnCached, EndUse, Uses, Goes
  <2>2. QED
    BY <1>0, <2>1 DEF CalmInv, ReaderFits, Filling, Idle
<1>3. CASE UNCHANGED cache
  <2>1. CacheFits' /\ \A t \in Tasks : TaskFits(t)'
    BY <1>0, <1>3 DEF CalmInv, CacheFits, TaskFits, Chosen, Active, Parsed
  <2>2. ReaderFits(r)'
    <3>1. CASE LookUp(r)
      <4>1. CASE CacheOf(r) # None
        <5>1. reader'[r].step = "using"
          BY <1>0, <3>1, <4>1 DEF LookUp, Uses, Reader
        <5>2. QED
          BY <5>1 DEF ReaderFits, Filling
      <4>2. CASE CacheOf(r) = None
        <5>1. reader'[r].step = "missed"
          BY <1>0, <3>1, <4>2 DEF LookUp, Goes, Reader
        <5>2. ProcessOf[r] = Api => Quiet
          BY <3>1, <4>2 DEF LookUp
        <5>3. QED
          BY <1>0, <5>1, <5>2 DEF ReaderFits, Filling, Quiet, Idle
      <4>3. QED
        BY <4>1, <4>2
    <3>2. CASE LoadSnapshot(r)
      <4>1. reader'[r] = IdleReader \/ (reader'[r].step = "loaded" /\ reader'[r].found = snapshot)
        BY <1>0, <3>2 DEF LoadSnapshot, Reader
      <4>2. reader[r].step = "missed"
        BY <3>2 DEF LoadSnapshot
      <4>3. QED
        BY <1>0, <4>1, <4>2, IdleTyped DEF CalmInv, ReaderFits, Filling, Idle
    <3>3. CASE FillCache(r) \/ ReturnCached(r) \/ EndUse(r)
      <4>1. reader'[r].step \in {"filled", "using", "idle"}
        BY <1>0, <3>3, IdleTyped DEF FillCache, ReturnCached, EndUse, Uses, Goes, Reader
      <4>2. QED
        BY <4>1 DEF ReaderFits, Filling
    <3>4. QED
      BY <3>1, <3>2, <3>3 DEF Read
  <2>3. QED
    BY <1>1, <1>2, <2>1, <2>2 DEF CalmInv
<1>4. CASE FillCache(r)
  <2>1. reader[r].step = "loaded" /\ reader'[r].step = "filled"
    BY <1>0, <1>4 DEF FillCache, Goes, Reader
  <2>2. ReaderFits(r)'
    BY <2>1 DEF ReaderFits, Filling
  <2>3. CASE ProcessOf[r] = Api
    <3>1. (\A t \in Tasks : Idle(t)) /\ reader[r].found = snapshot
      BY <2>1, <2>3 DEF CalmInv, ReaderFits, Filling
    <3>2. cache'[Api] = snapshot'
      BY <1>0, <1>4, <2>3, <3>1 DEF FillCache
    <3>3. \A t \in Tasks : Idle(t)'
      BY <1>0, <3>1 DEF Idle
    <3>4. QED
      BY <1>1, <1>2, <2>2, <3>2, <3>3, IdleFits DEF CalmInv, CacheFits
  <2>4. CASE ProcessOf[r] # Api
    <3>1. cache'[Api] = cache[Api]
      BY <1>0, <1>4, <2>4 DEF FillCache
    <3>2. CacheFits' /\ \A t \in Tasks : TaskFits(t)'
      BY <1>0, <3>1 DEF CalmInv, CacheFits, TaskFits, Chosen, Active, Parsed
    <3>3. QED
      BY <1>1, <1>2, <2>2, <3>2 DEF CalmInv
  <2>5. QED
    BY <2>3, <2>4
<1>5. QED
  BY <1>3, <1>4 DEF LookUp, Read, LoadSnapshot, ReturnCached, EndUse

\* A worker may start again at any time, the API when it is at rest.
LEMMA RestartCalm ==
    ASSUME TInv, StepsFit, StepsFit', CalmInv, calm, calm', NEW p \in Processes, Restart(p)
    PROVE  CalmInv'
<1>0. /\ UNCHANGED <<sources, snapshot>> /\ cache \in [Processes -> Report \cup {None}] /\ Api \in Processes
      /\ cache' = [cache EXCEPT ![p] = None]
      /\ \A r \in Readers : reader'[r] = IF ProcessOf[r] = p THEN IdleReader ELSE reader[r]
  BY DEF Restart, TInv, TypeOK, Processes
<1>1. CASE p = Api
  <2>1. \A t \in Tasks : Idle(t)'
    BY <1>1, IdleTyped DEF Restart, Idle
  <2>2. OneTask' /\ (\A t \in Tasks : TaskFits(t)') /\ \A r \in Readers : ReaderFits(r)'
    BY <1>0, <1>1, <2>1, IdleTyped, IdleFits DEF OneTask, ReaderFits, Filling
  <2>3. CacheFits'
    BY <1>0, <1>1 DEF CacheFits
  <2>4. \A t \in Tasks : Idle(t)
    BY <1>1, Zenon DEF Restart
  <2>5. Settled'
    <3>1. \A t \in Tasks : task[t].step = "idle" /\ task[t].op = "none"
      BY <2>4 DEF Idle, StepsFit
    <3>2. QED
      BY <1>0, <3>1 DEF CalmInv, Settled
  <2>6. QED
    BY <2>2, <2>3, <2>5 DEF CalmInv
<1>2. CASE p # Api
  <2>1. UNCHANGED task /\ cache'[Api] = cache[Api]
    BY <1>0, <1>2 DEF Restart
  <2>2. \A r \in Readers : ReaderFits(r)'
    BY <1>0, <1>2, <2>1 DEF CalmInv, ReaderFits, Filling, Idle
  <2>3. OneTask' /\ Settled' /\ CacheFits' /\ \A t \in Tasks : TaskFits(t)'
    BY <1>0, <2>1 DEF CalmInv, OneTask, Settled, CacheFits, TaskFits, Chosen, Active, Parsed, Idle
  <2>4. QED
    BY <2>2, <2>3 DEF CalmInv
<1>3. QED
  BY <1>1, <1>2

LEMMA CalmNext ==
    ASSUME TInv, StepsFit, StepsFit', CalmInv, [Next]_vars
    PROVE  CalmInv'
<1> SUFFICES ASSUME calm' PROVE CalmInv'
  BY DEF CalmInv
<1>0. calm \in BOOLEAN
  BY DEF TInv, TypeOK
<1>1. ASSUME NEW t \in Tasks, Work(t) PROVE CalmInv'
  <2>1. calm
    BY <1>0, <1>1, Zenon DEF Work, InsertSource, ClearCache, DeleteSnapshot, FlagWatched, Unparsable, SetCache,
          Persist, CommitFlags, DeadlockVictim, bounds
  <2>2. ~DeadlockVictim(t)
    <3>1. \A u \in Tasks \ {t} : ~(task[u].step = "persisted" /\ task[t].step = "persisted")
      BY <2>1 DEF CalmInv, OneTask, Idle
    <3>2. QED
      BY <3>1 DEF DeadlockVictim, Deadlocked
  <2>3. QED
    BY <1>1, <2>1, <2>2, LoadCalm, RemovalCalm, HistoryCalm, FlagCalm DEF Work
<1>2. ASSUME NEW t \in Tasks PROVE ~DatabaseFails(t)
  BY Zenon DEF DatabaseFails
<1>3. ASSUME NEW r \in Readers, LookUp(r) \/ Read(r) PROVE CalmInv'
  <2>1. calm
    BY <1>0, <1>3, Zenon DEF LookUp, Read, LoadSnapshot, FillCache, ReturnCached, EndUse, bounds
  <2>2. QED
    BY <1>3, <2>1, ReadsCalm
<1>4. ASSUME NEW p \in Processes, Restart(p) PROVE CalmInv'
  <2>1. calm
    BY <1>0, <1>4, Zenon DEF Restart
  <2>2. QED
    BY <1>4, <2>1, RestartCalm
<1>5. ASSUME NEW t \in Tasks,
             \/ \E name \in Names, content \in Contents : Upload(t, name, content)
             \/ Refresh(t) \/ Remove(t) \/ (\E name \in Names : Watch(t, name))
             \/ \E i \in DOMAIN sources : Select(t, i)
      PROVE  CalmInv'
  <2>1. Start(t)
    BY <1>5 DEF Upload, Refresh, Remove, Watch, Select, Begin
  <2>2. calm
    BY <1>0, <2>1, Zenon DEF Start
  <2>3. QED
    BY <1>5, <2>2, RequestCalm, FlagCalm
<1>6. CASE UNCHANGED vars \/ \E name \in Names, content \in Contents : DropFile(name, content)
  <2>1. UNCHANGED <<sources, snapshot, cache, task, reader, calm>>
    BY <1>6 DEF vars, DropFile
  <2>2. QED
    BY <2>1 DEF CalmInv, OneTask, Settled, CacheFits, TaskFits, Chosen, Active, Parsed, Idle, ReaderFits, Filling
<1>7. QED
  BY <1>1, <1>2, <1>3, <1>4, <1>5, <1>6 DEF Next, Request, Scan

LEMMA CalmAlways == Spec => []CalmInv
<1>1. Init => CalmInv
  <2> SUFFICES ASSUME Init PROVE CalmInv
    OBVIOUS
  <2>1. \A t \in Tasks : task[t].op = "none" /\ task[t].step = "idle"
    BY IdleTyped DEF Init
  <2>2. \A t \in Tasks : Idle(t) /\ ~Parsed(t) /\ TaskFits(t)
    BY <2>1 DEF Idle, Parsed, TaskFits, Chosen
  <2>3. \A r \in Readers : ReaderFits(r)
    BY IdleTyped DEF Init, ReaderFits, Filling
  <2>4. snapshot = None /\ cache[Api] = None
    BY DEF Init, Processes
  <2>5. QED
    BY <2>2, <2>3, <2>4 DEF CalmInv, OneTask, Settled, CacheFits
<1>2. TInv /\ StepsFit /\ StepsFit' /\ CalmInv /\ [Next]_vars => CalmInv'
  BY CalmNext
<1>3. QED
  BY <1>1, <1>2, TypedAlways, PTL DEF Spec

\* At rest, after changes that did not overlap and did not fail, what every process would load
\* is the file that the history shows as active (handlers of config_routes.py and the watcher
\* flag only what was parsed).
THEOREM SnapshotIsActiveAlways == Spec => []SnapshotIsActive
<1>1. StepsFit /\ CalmInv => SnapshotIsActive
  <2> SUFFICES ASSUME StepsFit, CalmInv, calm, AtRest, snapshot # None
               PROVE  \E i \in DOMAIN sources : sources[i].name = snapshot.name /\ ~sources[i].archived
    BY DEF SnapshotIsActive
  <2>1. \A t \in Tasks : task[t].op # "remove" /\ task[t].step # "persisted"
    BY DEF StepsFit, AtRest, Idle
  <2>2. QED
    BY <2>1 DEF CalmInv, Settled
<1>2. QED
  BY <1>1, TypedAlways, CalmAlways, PTL

\* And the API has that snapshot in its cache, or nothing.
THEOREM ApiHasSnapshotAlways == Spec => []ApiHasSnapshot
<1>1. CalmInv => ApiHasSnapshot
  BY DEF CalmInv, ApiHasSnapshot, CacheFits, AtRest, Idle, Parsed
<1>2. QED
  BY <1>1, CalmAlways, PTL
=============================================================================
