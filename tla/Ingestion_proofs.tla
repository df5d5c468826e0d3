-------------------------- MODULE Ingestion_proofs --------------------------
(***************************************************************************)
(* Facts about Ingestion for any statements, accounts, requests and jobs.   *)
(***************************************************************************)
EXTENDS Ingestion, SequenceTheorems, WellFoundedInduction, TLAPS

USE NamesAssumption, ContentAssumption, BoundsAssumption

(***************************************************************************)
(* Sequences.                                                               *)
(***************************************************************************)
LEMMA SeqUpdated ==
    ASSUME NEW S, NEW s \in Seq(S), NEW i \in DOMAIN s, NEW e \in S, NEW t, t = [s EXCEPT ![i] = e]
    PROVE  /\ t \in Seq(S) /\ DOMAIN t = DOMAIN s /\ t[i] = e
           /\ \A k \in DOMAIN s : k # i => t[k] = s[k]
<1>1. DOMAIN s = 1..Len(s)
  OBVIOUS
<1>2. QED
  BY <1>1, ExceptSeq

LEMMA SeqAppended ==
    ASSUME NEW S, NEW s \in Seq(S), NEW e \in S, NEW t, t = Append(s, e)
    PROVE  /\ t \in Seq(S) /\ Len(t) \in Nat /\ Len(t) \notin DOMAIN s
           /\ DOMAIN t = DOMAIN s \cup {Len(t)} /\ t[Len(t)] = e
           /\ \A k \in DOMAIN s : t[k] = s[k]
<1>1. DOMAIN s = 1..Len(s) /\ Len(s) \in Nat
  OBVIOUS
<1>2. t \in Seq(S) /\ Len(t) = Len(s) + 1
  OBVIOUS
<1>3. DOMAIN t = 1..Len(t)
  BY <1>2
<1>4. \A k \in 1..(Len(s) + 1) : t[k] = IF k = Len(s) + 1 THEN e ELSE s[k]
  OBVIOUS
<1>5. Len(s) + 1 \in 1..(Len(s) + 1) /\ Len(s) + 1 \notin 1..Len(s)
  BY <1>1
<1>6. 1..(Len(s) + 1) = 1..Len(s) \cup {Len(s) + 1}
  BY <1>1
<1>7. QED
  BY <1>1, <1>2, <1>3, <1>4, <1>5, <1>6

(***************************************************************************)
(* Types, and what a request or a job knows about the files.                *)
(***************************************************************************)
UnderWay == {"detected", "resolved", "parsed", "missing", "linked"}
JobFits(q, fs) ==
    /\ q.file \in DOMAIN fs
    /\ q.step \in UnderWay =>
          /\ q.content \in Contents /\ q.seen \in File
          /\ q.seen.account # None => fs[q.file].account # None
    /\ q.step = "missing" => NamesAccount(q.content)
    /\ q.step = "linked" /\ q.writes # "none" => q.account \in Keys /\ q.unit \in Units
RequestFits(q, fs, st) ==
    /\ q.step \in {"restore", "again", "defer"} => q.file \in DOMAIN fs
    /\ q.step = "saved" => st[q.name] # None
Fits ==
    /\ \A i \in DOMAIN files : stored[files[i].name] # None
    /\ \A u \in Requests : RequestFits(request[u], files, stored)
    /\ \A j \in DOMAIN jobs : JobFits(jobs[j], files)
TInv == TypeOK /\ Fits

LEMMA FilesTyped ==
    ASSUME TypeOK, NEW i \in DOMAIN files
    PROVE  /\ files[i] \in File /\ files[i].name \in Names /\ i \in Nat
           /\ files[i].unit \in Units \cup {None} /\ files[i].account \in Keys \cup {None}
           /\ files[i].hash \in Contents \cup {None}
<1>1. files[i] \in File /\ i \in Nat
  BY ElementOfSeq DEF TypeOK
<1>2. QED
  BY <1>1 DEF File

LEMMA JobsTyped ==
    ASSUME TypeOK, NEW j \in DOMAIN jobs
    PROVE  /\ jobs[j] \in Job /\ jobs[j].file \in Nat /\ jobs[j].tries \in Nat /\ j \in Nat
           /\ jobs[j].unit \in Units \cup {None} /\ jobs[j].account \in Keys \cup {None}
<1>1. jobs[j] \in Job /\ j \in Nat
  BY ElementOfSeq DEF TypeOK
<1>2. QED
  BY <1>1 DEF Job

LEMMA NewJobTyped ==
    ASSUME NEW f \in Nat
    PROVE  NewJob(f) \in Job /\ NewJob(f).file = f /\ NewJob(f).step = "todo"
BY DEF NewJob, Job

LEMMA IdleTyped == Idle \in Request /\ Idle.step = "idle"
<1>1. (CHOOSE n \in Names : TRUE) \in Names /\ (CHOOSE c \in Contents : TRUE) \in Contents
  OBVIOUS
<1>2. QED
  BY <1>1 DEF Idle, Request

(***************************************************************************)
(* How the list of files changes: a file keeps its name and its bytes; only *)
(* the commit of a job gives it an account or makes it ready.               *)
(***************************************************************************)
Grown ==
    /\ files' \in Seq(File) /\ DOMAIN files \subseteq DOMAIN files'
    /\ \A i \in DOMAIN files : /\ files'[i].name = files[i].name /\ files'[i].hash = files[i].hash
                               /\ files[i].account # None => files'[i].account # None
FilesKept ==
    /\ Grown /\ DOMAIN files' = DOMAIN files
    /\ \A i \in DOMAIN files : /\ files'[i].account = files[i].account
                               /\ files'[i].status = "ready" => files[i].status = "ready"
FileAdded ==
    /\ Grown /\ Len(files') \notin DOMAIN files /\ DOMAIN files' = DOMAIN files \cup {Len(files')}
    /\ \A i \in DOMAIN files : files'[i] = files[i]
    /\ LET new == files'[Len(files')]
       IN  /\ stored'[new.name] # None
           /\ new.account = None /\ new.status # "ready"
           /\ new.hash = None \/ HashOwner(new.hash) = {}

LEMMA FilesSame == ASSUME TypeOK, UNCHANGED files PROVE FilesKept
BY DEF TypeOK, FilesKept, Grown

LEMMA FileUpdated ==
    ASSUME TypeOK, NEW i \in DOMAIN files, NEW new \in File, files' = [files EXCEPT ![i] = new],
           new.name = files[i].name, new.hash = files[i].hash,
           files[i].account # None => new.account # None
    PROVE  /\ Grown /\ DOMAIN files' = DOMAIN files /\ files'[i] = new
           /\ \A k \in DOMAIN files : k # i => files'[k] = files[k]
<1>1. files \in Seq(File)
  BY DEF TypeOK
<1>2. QED
  BY <1>1, SeqUpdated DEF Grown

\* A status that is not "ready", or a flag.
LEMMA FileMarked ==
    ASSUME TypeOK, NEW i \in DOMAIN files, NEW new \in File, files' = [files EXCEPT ![i] = new],
           new.name = files[i].name, new.hash = files[i].hash, new.account = files[i].account,
           new.status = "ready" => files[i].status = "ready"
    PROVE  FilesKept
BY FileUpdated DEF FilesKept

LEMMA FileAppended ==
    ASSUME TypeOK, NEW new \in File, files' = Append(files, new),
           stored'[new.name] # None, new.account = None, new.status # "ready",
           new.hash = None \/ HashOwner(new.hash) = {}
    PROVE  FileAdded /\ files'[Len(files')] = new
<1>1. files \in Seq(File)
  BY DEF TypeOK
<1>2. QED
  BY <1>1, SeqAppended DEF FileAdded, Grown

\* What was true of requests, jobs and bytes stays true of longer lists.
LEMMA FitsGrow ==
    ASSUME TypeOK, Fits, Grown, \A n \in Names : stored[n] # None => stored'[n] # None
    PROVE  /\ \A i \in DOMAIN files : stored'[files'[i].name] # None
           /\ \A u \in Requests : RequestFits(request[u], files', stored')
           /\ \A j \in DOMAIN jobs : JobFits(jobs[j], files')
<1>1. \A i \in DOMAIN files : stored'[files'[i].name] # None
  <2>1. \A i \in DOMAIN files : files[i].name \in Names /\ stored[files[i].name] # None
    BY FilesTyped DEF Fits
  <2>2. QED
    BY <2>1 DEF Grown
<1>2. ASSUME NEW u \in Requests PROVE RequestFits(request[u], files', stored')
  <2>1. request[u].name \in Names
    BY DEF TypeOK, Request
  <2>2. RequestFits(request[u], files, stored)
    BY DEF Fits
  <2>3. QED
    BY <2>1, <2>2 DEF Grown, RequestFits
<1>3. ASSUME NEW j \in DOMAIN jobs PROVE JobFits(jobs[j], files')
  <2>1. JobFits(jobs[j], files)
    BY DEF Fits
  <2> DEFINE q == jobs[j]
  <2>2. q.file \in DOMAIN files /\ q.file \in DOMAIN files'
    BY <2>1 DEF Grown, JobFits
  <2>3. files[q.file].account # None => files'[q.file].account # None
    BY <2>2 DEF Grown
  <2> HIDE DEF q
  <2>4. JobFits(q, files) => JobFits(q, files')
    BY <2>2, <2>3 DEF JobFits
  <2>5. QED
    BY <2>1, <2>4 DEF q
<1>4. QED
  BY <1>1, <1>2, <1>3

\* A step that leaves the jobs alone but for appending one, or changes one.
LEMMA JobChanged ==
    ASSUME TypeOK, NEW j \in DOMAIN jobs, NEW new \in Job, jobs' = [jobs EXCEPT ![j] = new],
           JobFits(new, files'), \A k \in DOMAIN jobs : JobFits(jobs[k], files')
    PROVE  jobs' \in Seq(Job) /\ \A k \in DOMAIN jobs' : JobFits(jobs'[k], files')
<1>1. jobs \in Seq(Job)
  BY DEF TypeOK
<1>2. QED
  BY <1>1, SeqUpdated

LEMMA JobAppended ==
    ASSUME TypeOK, NEW new \in Job, jobs' = Append(jobs, new),
           JobFits(new, files'), \A k \in DOMAIN jobs : JobFits(jobs[k], files')
    PROVE  jobs' \in Seq(Job) /\ \A k \in DOMAIN jobs' : JobFits(jobs'[k], files')
<1>1. jobs \in Seq(Job)
  BY DEF TypeOK
<1>2. QED
  BY <1>1, SeqAppended

\* The parts of the next state that have to be shown.
Steps ==
    /\ Grown /\ \A i \in DOMAIN files' : stored'[files'[i].name] # None
    /\ stored' \in [Names -> Contents \cup {None}]
    /\ ledger' \in SUBSET Entry
    /\ registry' \in [Keys -> Account \cup {None}]
    /\ request' \in [Requests -> Request]
    /\ \A u \in Requests : RequestFits(request'[u], files', stored')
    /\ jobs' \in Seq(Job)
    /\ \A j \in DOMAIN jobs' : JobFits(jobs'[j], files')
    /\ asked' \in Nat /\ changed' \in Nat
    /\ faults' \in Seq({"exception", "worker", "api"})
LEMMA StepsTyped == Steps /\ saved' \in [Names -> SUBSET Contents] => TInv'
BY DEF Steps, Grown, TInv, TypeOK, Fits

LEMMA TypedInitially == Init => TInv
<1> SUFFICES ASSUME Init PROVE TInv
  OBVIOUS
<1>1. files = <<>> /\ jobs = <<>> /\ faults = <<>> /\ ledger = {}
  BY DEF Init
<1>2. TypeOK
  BY <1>1, IdleTyped DEF Init, TypeOK
<1>3. Fits
  BY <1>1, IdleTyped DEF Init, Fits, RequestFits
<1>4. QED
  BY <1>2, <1>3 DEF TInv

\* A request that goes on with files and bytes that are there.
LEMMA RequestChanged ==
    ASSUME TypeOK, NEW u \in Requests, NEW new \in Request, request' = [request EXCEPT ![u] = new],
           RequestFits(new, files', stored'), \A v \in Requests : RequestFits(request[v], files', stored')
    PROVE  /\ request' \in [Requests -> Request]
           /\ \A v \in Requests : RequestFits(request'[v], files', stored')
BY DEF TypeOK

LEMMA Finished ==
    ASSUME TypeOK, NEW u \in Requests, Finish(u), \A v \in Requests : RequestFits(request[v], files', stored')
    PROVE  /\ request' \in [Requests -> Request]
           /\ \A v \in Requests : RequestFits(request'[v], files', stored')
<1>1. RequestFits(Idle, files', stored')
  BY IdleTyped DEF RequestFits
<1>2. QED
  BY <1>1, IdleTyped, RequestChanged DEF Finish

LEMMA CheckStep ==
    ASSUME TInv, NEW u \in Requests, NEW name \in Names, NEW content \in Contents,
           CheckDuplicate(u, name, content)
    PROVE  Steps /\ FilesKept /\ UNCHANGED <<ledger, registry>>
<1> DEFINE asks(step, i) == [step |-> step, name |-> name, content |-> content, file |-> i]
<1>1. TypeOK /\ Fits /\ UNCHANGED <<files, stored, ledger, registry, jobs, changed, faults>>
  BY DEF TInv, CheckDuplicate
<1>2. FilesKept /\ Grown
  BY <1>1, FilesSame DEF FilesKept
<1>3. /\ \A i \in DOMAIN files : stored'[files'[i].name] # None
      /\ \A v \in Requests : RequestFits(request[v], files', stored')
      /\ \A j \in DOMAIN jobs : JobFits(jobs[j], files')
  BY <1>1, <1>2, FitsGrow
<1>4. \/ UNCHANGED request
      \/ request' = [request EXCEPT ![u] = asks("fresh", 0)]
      \/ \E i \in HashOwner(content), step \in {"restore", "again"} :
            request' = [request EXCEPT ![u] = asks(step, i)]
  BY DEF CheckDuplicate
<1>5. /\ request' \in [Requests -> Request]
      /\ \A v \in Requests : RequestFits(request'[v], files', stored')
  <2>1. CASE UNCHANGED request
    BY <1>1, <1>3, <2>1 DEF TypeOK
  <2>2. CASE request' = [request EXCEPT ![u] = asks("fresh", 0)]
    <3>1. asks("fresh", 0) \in Request /\ RequestFits(asks("fresh", 0), files', stored')
      BY DEF Request, RequestFits
    <3>2. QED
      BY <1>1, <1>3, <2>2, <3>1, RequestChanged
  <2>3. ASSUME NEW i \in HashOwner(content), NEW step \in {"restore", "again"},
               request' = [request EXCEPT ![u] = asks(step, i)]
        PROVE  <1>5!1 /\ <1>5!2
    <3>1. i \in DOMAIN files /\ i \in Nat
      BY <1>1, FilesTyped DEF HashOwner
    <3>2. asks(step, i) \in Request /\ RequestFits(asks(step, i), files', stored')
      BY <1>1, <3>1 DEF Request, RequestFits
    <3>3. QED
      BY <1>1, <1>3, <2>3, <3>2, RequestChanged
  <2>4. QED
    BY <1>4, <2>1, <2>2, <2>3
<1>6. asked' \in Nat
  BY <1>1 DEF CheckDuplicate, TypeOK
<1>7. QED
  BY <1>1, <1>2, <1>3, <1>5, <1>6 DEF Steps, TypeOK

\* The same request, a step on.
LEMMA Proceeded ==
    ASSUME TypeOK, NEW u \in Requests, NEW step \in {"saved", "defer"}, Proceed(u, step),
           step = "defer" => request[u].file \in DOMAIN files',
           step = "saved" => stored'[request[u].name] # None,
           \A v \in Requests : RequestFits(request[v], files', stored')
    PROVE  /\ request' \in [Requests -> Request]
           /\ \A v \in Requests : RequestFits(request'[v], files', stored')
<1> DEFINE new == [request[u] EXCEPT !.step = step]
<1>1. new \in Request /\ new.step = step /\ new.file = request[u].file /\ new.name = request[u].name
  <2>1. request[u] \in Request
    BY DEF TypeOK
  <2>2. QED
    BY <2>1 DEF Request
<1>2. request' = [request EXCEPT ![u] = new]
  BY DEF Proceed
<1> HIDE DEF new
<1>3. RequestFits(new, files', stored')
  BY <1>1 DEF RequestFits
<1>4. QED
  BY <1>1, <1>2, <1>3, RequestChanged

LEMMA MarkStep ==
    ASSUME TInv, NEW u \in Requests, RestoreFile(u) \/ RetryFile(u)
    PROVE  Steps /\ FilesKept /\ UNCHANGED <<ledger, registry>>
<1>1. TypeOK /\ Fits /\ UNCHANGED <<stored, ledger, registry, jobs, asked, changed, faults>>
  BY DEF TInv, RestoreFile, RetryFile
<1> DEFINE i == request[u].file
           restored == [files[i] EXCEPT !.archived = FALSE]
           retried == [files[i] EXCEPT !.status = "processing"]
<1>2. i \in DOMAIN files
  BY <1>1 DEF RestoreFile, RetryFile, Fits, RequestFits
<1>3. /\ restored \in File /\ restored.name = files[i].name /\ restored.hash = files[i].hash
      /\ restored.account = files[i].account /\ restored.status = files[i].status
      /\ retried \in File /\ retried.name = files[i].name /\ retried.hash = files[i].hash
      /\ retried.account = files[i].account /\ retried.status = "processing"
  BY ZenonT(40), <1>1, <1>2, FilesTyped DEF File
<1>4. files' = [files EXCEPT ![i] = restored] \/ files' = [files EXCEPT ![i] = retried]
  BY DEF RestoreFile, RetryFile
<1> HIDE DEF restored, retried
<1>5. FilesKept /\ Grown
  <2>1. CASE files' = [files EXCEPT ![i] = restored]
    BY <1>1, <1>2, <1>3, <2>1, FileMarked DEF FilesKept
  <2>2. CASE files' = [files EXCEPT ![i] = retried]
    BY <1>1, <1>2, <1>3, <2>2, FileMarked DEF FilesKept
  <2>3. QED
    BY <1>4, <2>1, <2>2
<1>6. /\ \A k \in DOMAIN files : stored'[files'[k].name] # None
      /\ \A v \in Requests : RequestFits(request[v], files', stored')
      /\ \A j \in DOMAIN jobs : JobFits(jobs[j], files')
  BY <1>1, <1>5, FitsGrow
<1>7. /\ request' \in [Requests -> Request]
      /\ \A v \in Requests : RequestFits(request'[v], files', stored')
  <2>1. Proceed(u, "defer") /\ request[u].file \in DOMAIN files'
    BY <1>2, <1>5 DEF RestoreFile, RetryFile, Grown
  <2>2. QED
    BY <1>1, <1>6, <2>1, Proceeded
<1>8. QED
  BY <1>1, <1>5, <1>6, <1>7 DEF Steps, TypeOK, FilesKept

LEMMA SaveStep ==
    ASSUME TInv, NEW u \in Requests, SaveBytes(u)
    PROVE  Steps /\ FilesKept /\ UNCHANGED <<ledger, registry>>
<1>1. TypeOK /\ Fits /\ UNCHANGED <<files, ledger, registry, jobs, asked, changed, faults>>
  BY DEF TInv, SaveBytes
<1>2. request[u].name \in Names /\ request[u].content \in Contents
  BY <1>1 DEF TypeOK, Request
<1>3. /\ stored' \in [Names -> Contents \cup {None}]
      /\ \A n \in Names : stored[n] # None => stored'[n] # None
      /\ stored'[request[u].name] # None
  BY <1>1, <1>2 DEF SaveBytes, Save, TypeOK
<1>4. FilesKept /\ Grown
  BY <1>1, FilesSame DEF FilesKept
<1>5. /\ \A k \in DOMAIN files : stored'[files'[k].name] # None
      /\ \A v \in Requests : RequestFits(request[v], files', stored')
      /\ \A j \in DOMAIN jobs : JobFits(jobs[j], files')
  BY <1>1, <1>3, <1>4, FitsGrow
<1>6. /\ request' \in [Requests -> Request]
      /\ \A v \in Requests : RequestFits(request'[v], files', stored')
  BY <1>1, <1>3, <1>5, Proceeded DEF SaveBytes
<1>7. QED
  BY <1>1, <1>3, <1>4, <1>5, <1>6 DEF Steps, TypeOK

LEMMA ReingestStep ==
    ASSUME TInv, NEW u \in Requests, NEW i \in DOMAIN files, ReingestFile(u, i)
    PROVE  Steps /\ FilesKept /\ UNCHANGED <<ledger, registry>>
<1>1. TypeOK /\ Fits /\ UNCHANGED <<stored, ledger, registry, jobs, changed, faults>>
  BY DEF TInv, ReingestFile
<1> DEFINE marked == [files[i] EXCEPT !.status = "processing"]
           new == [request[u] EXCEPT !.step = "defer", !.file = i]
<1>2. /\ marked \in File /\ marked.name = files[i].name /\ marked.hash = files[i].hash
      /\ marked.account = files[i].account /\ marked.status = "processing"
  BY <1>1, FilesTyped DEF File
<1>3. new \in Request /\ new.step = "defer" /\ new.file = i
  <2>1. request[u] \in Request /\ i \in Nat
    BY <1>1, FilesTyped DEF TypeOK
  <2>2. QED
    BY <2>1 DEF Request
<1>4. files' = [files EXCEPT ![i] = marked] /\ request' = [request EXCEPT ![u] = new] /\ asked' = asked + 1
  BY DEF ReingestFile
<1> HIDE DEF marked, new
<1>5. FilesKept /\ Grown
  BY <1>1, <1>2, <1>4, FileMarked DEF FilesKept
<1>6. /\ \A k \in DOMAIN files : stored'[files'[k].name] # None
      /\ \A v \in Requests : RequestFits(request[v], files', stored')
      /\ \A j \in DOMAIN jobs : JobFits(jobs[j], files')
  BY <1>1, <1>5, FitsGrow
<1>7. RequestFits(new, files', stored')
  BY <1>3, <1>5 DEF RequestFits, Grown
<1>8. /\ request' \in [Requests -> Request]
      /\ \A v \in Requests : RequestFits(request'[v], files', stored')
  BY <1>1, <1>3, <1>4, <1>6, <1>7, RequestChanged
<1>9. QED
  <2>1. asked' \in Nat
    BY <1>1, <1>4 DEF TypeOK
  <2>2. QED
    BY <1>1, <1>5, <1>6, <1>8, <2>1 DEF Steps, TypeOK, FilesKept

LEMMA DeferStep ==
    ASSUME TInv, NEW u \in Requests, DeferJob(u) \/ ApiCrash(u)
    PROVE  Steps /\ FilesKept /\ UNCHANGED <<ledger, registry>>
<1>1. TypeOK /\ Fits /\ Finish(u) /\ UNCHANGED <<files, stored, ledger, registry, asked, changed>>
  BY DEF TInv, DeferJob, ApiCrash
<1>2. FilesKept /\ Grown
  BY <1>1, FilesSame DEF FilesKept
<1>3. /\ \A k \in DOMAIN files : stored'[files'[k].name] # None
      /\ \A v \in Requests : RequestFits(request[v], files', stored')
      /\ \A j \in DOMAIN jobs : JobFits(jobs[j], files')
  BY <1>1, <1>2, FitsGrow
<1>4. /\ request' \in [Requests -> Request]
      /\ \A v \in Requests : RequestFits(request'[v], files', stored')
  BY <1>1, <1>3, Finished
<1>5. /\ jobs' \in Seq(Job) /\ \A j \in DOMAIN jobs' : JobFits(jobs'[j], files')
      /\ faults' \in Seq({"exception", "worker", "api"})
  <2>1. CASE DeferJob(u)
    <3>1. request[u].file \in DOMAIN files /\ jobs' = Append(jobs, NewJob(request[u].file)) /\ UNCHANGED faults
      BY <1>1, <2>1 DEF DeferJob, Fits, RequestFits
    <3>2. request[u].file \in Nat
      BY <1>1 DEF TypeOK, Request
    <3>3. NewJob(request[u].file) \in Job /\ JobFits(NewJob(request[u].file), files')
      BY <1>1, <3>1, <3>2, NewJobTyped DEF JobFits, UnderWay
    <3>4. QED
      BY <1>1, <1>3, <3>1, <3>3, JobAppended DEF TypeOK
  <2>2. CASE ApiCrash(u)
    <3>1. UNCHANGED jobs /\ faults' = Append(faults, "api")
      BY <2>2 DEF ApiCrash
    <3>2. faults' \in Seq({"exception", "worker", "api"})
      BY <1>1, <3>1 DEF TypeOK
    <3>3. QED
      BY <1>1, <1>3, <3>1, <3>2 DEF TypeOK
  <2>3. QED
    BY <2>1, <2>2
<1>6. QED
  BY <1>1, <1>2, <1>3, <1>4, <1>5 DEF Steps, TypeOK

(***************************************************************************)
(* What detection finds.                                                    *)
(***************************************************************************)
LEMMA AccountsTyped ==
    ASSUME TypeOK, NEW k \in Keys, registry[k] # None
    PROVE  registry[k] \in Account /\ registry[k].unit \in Units
<1>1. registry[k] \in Account
  BY DEF TypeOK
<1>2. QED
  BY <1>1 DEF Account

LEMMA DetectedTyped == ASSUME TypeOK, NEW content PROVE Detected(content) \subseteq Numbers \cup {None}
<1>1. \A s \in Seen : \A k \in Matches(content, s) : k[1] \in Numbers
  BY DEF Matches, Onboarded, Held, Keys
<1> DEFINE Found(s) == IF Cardinality({registry[k].layout : k \in Matches(content, s)}) = 1
                       THEN {k[1] : k \in Matches(content, s)} ELSE {}
<1>2. Detected(content) = {None} \cup UNION {Found(s) : s \in Seen}
  BY DEF Detected
<1>3. \A s \in Seen : Found(s) \subseteq Numbers \cup {None}
  BY <1>1
<1> HIDE DEF Found
<1>4. QED
  BY <1>2, <1>3

LEMMA ResolvedTyped == ASSUME TypeOK, NEW number PROVE Resolved(number) \subseteq Units \cup {None}
<1>1. \A k \in Onboarded : registry[k].unit \in Units
  BY AccountsTyped DEF Onboarded, Held
<1>2. QED
  BY <1>1 DEF Resolved

LEMMA InsertStep ==
    ASSUME TInv, NEW u \in Requests, InsertFile(u)
    PROVE  Steps /\ (FilesKept \/ FileAdded) /\ UNCHANGED <<ledger, registry>>
<1>1. TypeOK /\ Fits /\ UNCHANGED <<stored, ledger, registry, jobs, asked, changed, faults>>
  BY DEF TInv, InsertFile
<1>2. request[u] \in Request /\ request[u].name \in Names /\ request[u].content \in Contents
  BY <1>1 DEF TypeOK, Request
<1>3. CASE Finish(u) /\ UNCHANGED files
  <2>1. FilesKept /\ Grown
    BY <1>1, <1>3, FilesSame DEF FilesKept
  <2>2. /\ \A k \in DOMAIN files : stored'[files'[k].name] # None
        /\ \A v \in Requests : RequestFits(request[v], files', stored')
        /\ \A j \in DOMAIN jobs : JobFits(jobs[j], files')
    BY <1>1, <2>1, FitsGrow
  <2>3. /\ request' \in [Requests -> Request]
        /\ \A v \in Requests : RequestFits(request'[v], files', stored')
    BY <1>1, <1>3, <2>2, Finished
  <2>4. QED
    BY <1>1, <1>3, <2>1, <2>2, <2>3 DEF Steps, TypeOK
<1>4. CASE ~(Finish(u) /\ UNCHANGED files)
  <2>1. /\ request[u].step = "saved" /\ HashOwner(request[u].content) = {}
        /\ \E found \in Detected(stored[request[u].name]) :
           \E unit \in Resolved(found) :
              files' = Append(files,
                  [name |-> request[u].name, hash |-> request[u].content,
                   archived |-> FALSE, unit |-> unit, account |-> None,
                   status |-> IF found = None THEN "unrecognized" ELSE "processing"])
        /\ request' = [request EXCEPT ![u].step = "defer", ![u].file = Len(files')]
    BY <1>4 DEF InsertFile
  <2>2. PICK unit \in Units \cup {None}, status \in {"unrecognized", "processing"} :
              files' = Append(files,
                  [name |-> request[u].name, hash |-> request[u].content,
                   archived |-> FALSE, unit |-> unit, account |-> None, status |-> status])
    <3>1. PICK found \in Detected(stored[request[u].name]) :
           \E unit \in Resolved(found) :
              files' = Append(files,
                  [name |-> request[u].name, hash |-> request[u].content,
                   archived |-> FALSE, unit |-> unit, account |-> None,
                   status |-> IF found = None THEN "unrecognized" ELSE "processing"])
      BY <2>1
    <3>2. Resolved(found) \subseteq Units \cup {None}
      BY <1>1, ResolvedTyped
    <3>3. QED
      BY <3>1, <3>2
  <2> DEFINE new == [name |-> request[u].name, hash |-> request[u].content,
                     archived |-> FALSE, unit |-> unit, account |-> None, status |-> status]
             asked1 == [request[u] EXCEPT !.step = "defer", !.file = Len(files')]
  <2>3. /\ new \in File /\ new.name = request[u].name /\ new.hash = request[u].content
        /\ new.account = None /\ new.status # "ready" /\ files' = Append(files, new)
    BY <1>2, <2>2 DEF File
  <2> HIDE DEF new
  <2>4. stored'[new.name] # None
    BY <1>1, <2>1, <2>3 DEF Fits, RequestFits
  <2>5. FileAdded /\ files'[Len(files')] = new
    BY <1>1, <2>1, <2>3, <2>4, FileAppended
  <2>6. Grown /\ Len(files') \in DOMAIN files' /\ Len(files') \in Nat
    <3>1. Grown /\ Len(files') \in DOMAIN files'
      BY <2>5 DEF FileAdded
    <3>2. files' \in Seq(File)
      BY <3>1 DEF Grown
    <3>3. QED
      BY <3>1, <3>2
  <2>7. /\ \A k \in DOMAIN files : stored'[files'[k].name] # None
        /\ \A v \in Requests : RequestFits(request[v], files', stored')
        /\ \A j \in DOMAIN jobs : JobFits(jobs[j], files')
    BY <1>1, <2>6, FitsGrow
  <2>8. /\ asked1 \in Request /\ asked1.step = "defer" /\ asked1.file = Len(files')
        /\ request' = [request EXCEPT ![u] = asked1]
    <3>1. asked1 \in Request /\ asked1.step = "defer" /\ asked1.file = Len(files')
      BY <1>2, <2>6 DEF Request
    <3>2. QED
      BY ZenonT(40), <2>1, <3>1
  <2> HIDE DEF asked1
  <2>9. RequestFits(asked1, files', stored')
    BY <2>6, <2>8 DEF RequestFits
  <2>10. /\ request' \in [Requests -> Request]
         /\ \A v \in Requests : RequestFits(request'[v], files', stored')
    BY <1>1, <2>7, <2>8, <2>9, RequestChanged
  <2>11. \A k \in DOMAIN files' : stored'[files'[k].name] # None
    BY <2>5, <2>7 DEF FileAdded
  <2>12. QED
    BY <1>1, <2>5, <2>6, <2>7, <2>10, <2>11 DEF Steps, TypeOK
<1>5. QED
  BY <1>3, <1>4

LEMMA DeleteStep ==
    ASSUME TInv, NEW name \in Names, DeleteFile(name)
    PROVE  Steps /\ FilesKept /\ UNCHANGED <<ledger, registry>>
<1>1. TypeOK /\ Fits /\ UNCHANGED <<stored, ledger, registry, request, jobs, asked, faults>>
  BY DEF TInv, DeleteFile
<1> DEFINE Row(i) == IF files[i].name = name THEN [files[i] EXCEPT !.archived = TRUE] ELSE files[i]
<1>2. \A i \in DOMAIN files : /\ Row(i) \in File /\ Row(i).name = files[i].name /\ Row(i).hash = files[i].hash
                              /\ Row(i).account = files[i].account /\ Row(i).status = files[i].status
  BY <1>1, FilesTyped DEF File
<1>3. files' = [i \in DOMAIN files |-> Row(i)] /\ changed' = changed + 1
  BY DEF DeleteFile
<1>4. DOMAIN files = 1..Len(files) /\ Len(files) \in Nat
  BY <1>1 DEF TypeOK
<1> HIDE DEF Row
<1>5. files' \in Seq(File) /\ DOMAIN files' = DOMAIN files /\ \A i \in DOMAIN files : files'[i] = Row(i)
  BY <1>2, <1>3, <1>4
<1>6. FilesKept /\ Grown
  BY <1>2, <1>5 DEF FilesKept, Grown
<1>7. /\ \A k \in DOMAIN files : stored'[files'[k].name] # None
      /\ \A v \in Requests : RequestFits(request[v], files', stored')
      /\ \A j \in DOMAIN jobs : JobFits(jobs[j], files')
  BY <1>1, <1>6, FitsGrow
<1>8. changed' \in Nat
  BY <1>1, <1>3 DEF TypeOK
<1>9. QED
  BY <1>1, <1>5, <1>6, <1>7, <1>8 DEF Steps, TypeOK

LEMMA BuilderUploadStep ==
    ASSUME TInv, NEW name \in Names, NEW content \in Contents, BuilderUpload(name, content)
    PROVE  Steps /\ (FilesKept \/ FileAdded) /\ UNCHANGED <<ledger, registry>>
<1>1. /\ TypeOK /\ Fits /\ UNCHANGED <<ledger, registry, request, jobs, asked, faults>>
      /\ stored' = [stored EXCEPT ![name] = content] /\ changed' = changed + 1
  BY DEF TInv, BuilderUpload, Save
<1> DEFINE new == [name |-> name, hash |-> None, archived |-> TRUE,
                   status |-> "config_only", unit |-> None, account |-> None]
<1>2. /\ new \in File /\ new.name = name /\ new.hash = None
      /\ new.account = None /\ new.status # "ready"
  BY DEF File
<1>3. UNCHANGED files \/ files' = Append(files, new)
  BY DEF BuilderUpload
<1> HIDE DEF new
<1>4. /\ stored' \in [Names -> Contents \cup {None}] /\ stored'[name] # None
      /\ \A n \in Names : stored[n] # None => stored'[n] # None
  BY <1>1 DEF TypeOK
<1>5. /\ FilesKept \/ FileAdded
      /\ Grown
      /\ \A k \in DOMAIN files' \ DOMAIN files : stored'[files'[k].name] # None
  <2>1. CASE UNCHANGED files
    BY <1>1, <2>1, FilesSame DEF FilesKept
  <2>2. CASE files' = Append(files, new)
    BY <1>1, <1>2, <1>4, <2>2, FileAppended DEF FileAdded
  <2>3. QED
    BY <1>3, <2>1, <2>2
<1>6. /\ \A k \in DOMAIN files : stored'[files'[k].name] # None
      /\ \A v \in Requests : RequestFits(request[v], files', stored')
      /\ \A j \in DOMAIN jobs : JobFits(jobs[j], files')
  BY <1>1, <1>4, <1>5, FitsGrow
<1>7. changed' \in Nat
  BY <1>1 DEF TypeOK
<1>8. QED
  BY <1>1, <1>4, <1>5, <1>6, <1>7 DEF Steps, TypeOK

\* Changes of the registry in the Config Builder.
LEMMA ConfigureStep ==
    ASSUME TInv, Configure
    PROVE  Steps /\ FilesKept /\ UNCHANGED ledger
<1>1. /\ TypeOK /\ Fits /\ UNCHANGED <<files, stored, ledger, request, jobs, asked, faults>>
      /\ changed' = changed + 1
  BY DEF TInv, Configure, SaveRecipe, DeleteAccount
<1>2. registry' \in [Keys -> Account \cup {None}]
  <2>1. ASSUME NEW number \in Numbers, NEW unit \in Units, NEW layout \in Layouts,
               SaveRecipe(number, unit, layout)
        PROVE  <1>2
    <3>1. [unit |-> unit, layout |-> layout] \in Account
      BY DEF Account
    <3>2. registry' = [registry EXCEPT ![<<number, SavedBank[number]>>] = [unit |-> unit, layout |-> layout]]
      BY <2>1 DEF SaveRecipe
    <3>3. QED
      BY <1>1, <3>1, <3>2 DEF TypeOK
  <2>2. ASSUME NEW key \in Keys, DeleteAccount(key) PROVE <1>2
    BY <1>1, <2>2 DEF DeleteAccount, TypeOK
  <2>3. QED
    BY <2>1, <2>2 DEF Configure
<1>3. FilesKept /\ Grown
  BY <1>1, FilesSame DEF FilesKept
<1>4. /\ \A k \in DOMAIN files : stored'[files'[k].name] # None
      /\ \A v \in Requests : RequestFits(request[v], files', stored')
      /\ \A j \in DOMAIN jobs : JobFits(jobs[j], files')
  BY <1>1, <1>3, FitsGrow
<1>5. changed' \in Nat
  BY <1>1 DEF TypeOK
<1>6. QED
  BY <1>1, <1>2, <1>3, <1>4, <1>5 DEF Steps, TypeOK

(***************************************************************************)
(* The job.                                                                 *)
(***************************************************************************)
LEMMA StampedTyped ==
    ASSUME TInv, NEW j \in DOMAIN jobs, NEW status \in {"unrecognized", "ready"}, NEW account \in Keys \cup {None}
    PROVE  LET new == Stamped(j, status, account) IN
           /\ jobs[j].file \in DOMAIN files
           /\ new \in File /\ new.name = Its(j).name /\ new.hash = Its(j).hash
           /\ new.status = IF jobs[j].seen.status = status THEN Its(j).status ELSE status
           /\ new.account = IF account \in {None, jobs[j].seen.account} THEN Its(j).account ELSE account
<1>1. jobs[j].file \in DOMAIN files
  BY DEF TInv, Fits, JobFits
<1>2. Its(j) \in File /\ Its(j).account \in Keys \cup {None}
  BY <1>1, FilesTyped DEF TInv, Its
<1>3. Its(j).status \in {"processing", "ready", "error", "unrecognized", "config_only"}
  BY <1>2 DEF File
<1>4. QED
  BY <1>1, <1>2, <1>3 DEF Stamped, File

LEMMA EndedTyped ==
    ASSUME TInv, Grown, NEW j \in DOMAIN jobs, NEW step \in {"done", "dead"}, Ended(j, step),
           \A k \in DOMAIN jobs : JobFits(jobs[k], files')
    PROVE  jobs' \in Seq(Job) /\ \A k \in DOMAIN jobs' : JobFits(jobs'[k], files')
<1> DEFINE new == [NewJob(jobs[j].file) EXCEPT !.tries = jobs[j].tries, !.step = step]
<1>1. jobs[j].tries \in Nat /\ jobs[j].file \in Nat /\ NewJob(jobs[j].file) \in Job
  BY JobsTyped, NewJobTyped DEF TInv
<1>2. NewJob(jobs[j].file).file = jobs[j].file
  BY DEF NewJob
<1>3. new \in Job /\ new.file = jobs[j].file /\ new.step = step
  BY <1>1, <1>2 DEF Job
<1>4. jobs' = [jobs EXCEPT ![j] = new]
  BY DEF Ended
<1> HIDE DEF new
<1>5. JobFits(new, files')
  BY <1>3 DEF JobFits, UnderWay
<1>6. QED
  BY <1>3, <1>4, <1>5, JobChanged DEF TInv

\* A job that goes on: only its own record changes.
LEMMA JobStep ==
    ASSUME TInv, NEW j \in DOMAIN jobs, NEW new \in Job, jobs' = [jobs EXCEPT ![j] = new], JobFits(new, files),
           UNCHANGED <<files, stored, ledger, registry, request, asked, changed, faults>>
    PROVE  Steps /\ FilesKept /\ UNCHANGED <<ledger, registry>>
<1>1. TypeOK /\ Fits
  BY DEF TInv
<1>2. FilesKept /\ Grown
  BY <1>1, FilesSame DEF FilesKept
<1>3. jobs' \in Seq(Job) /\ \A k \in DOMAIN jobs' : JobFits(jobs'[k], files')
  BY <1>1, JobChanged DEF Fits
<1>4. QED
  BY <1>1, <1>2, <1>3 DEF Steps, TypeOK, Fits

LEMMA DetectStep ==
    ASSUME TInv, NEW j \in DOMAIN jobs, JobDetect(j)
    PROVE  Steps /\ FilesKept /\ UNCHANGED <<ledger, registry>>
<1>1. PICK found \in Detected(stored[Its(j).name]) :
         jobs' = [jobs EXCEPT ![j].step = "detected", ![j].found = found, ![j].seen = Its(j),
                              ![j].content = stored[Its(j).name]]
  BY DEF JobDetect
<1> DEFINE new == [jobs[j] EXCEPT !.step = "detected", !.found = found, !.seen = Its(j),
                                  !.content = stored[Its(j).name]]
<1>2. jobs[j] \in Job /\ found \in Numbers \cup {None} /\ jobs[j].file \in DOMAIN files
  BY JobsTyped, DetectedTyped DEF TInv, Fits, JobFits
<1>3. Its(j) \in File /\ Its(j).name \in Names /\ stored[Its(j).name] \in Contents
  <2>1. Its(j) \in File /\ Its(j).name \in Names /\ stored[Its(j).name] # None
    BY <1>2, FilesTyped DEF Its, TInv, Fits
  <2>2. QED
    BY <2>1 DEF TInv, TypeOK
<1>4. /\ new \in Job /\ new.file = jobs[j].file /\ new.step = "detected" /\ new.seen = Its(j)
      /\ new.content = stored[Its(j).name]
  BY <1>2, <1>3 DEF Job
<1>5. jobs' = [jobs EXCEPT ![j] = new]
  BY <1>1
<1> HIDE DEF new
<1>6. JobFits(new, files)
  BY <1>2, <1>3, <1>4 DEF JobFits, UnderWay, Its
<1>7. QED
  BY <1>4, <1>5, <1>6, JobStep DEF JobDetect

LEMMA ResolveStep ==
    ASSUME TInv, NEW j \in DOMAIN jobs, JobResolve(j)
    PROVE  Steps /\ FilesKept /\ UNCHANGED <<ledger, registry>>
<1>1. PICK unit \in Resolved(jobs[j].found) :
         jobs' = [jobs EXCEPT ![j].step = "resolved",
                              ![j].unit = IF unit = None THEN jobs[j].seen.unit ELSE unit]
  BY DEF JobResolve
<1> DEFINE found == IF unit = None THEN jobs[j].seen.unit ELSE unit
           new == [jobs[j] EXCEPT !.step = "resolved", !.unit = found]
<1>2. /\ jobs[j] \in Job /\ JobFits(jobs[j], files) /\ jobs[j].step = "detected"
  BY JobsTyped DEF TInv, Fits, JobResolve
<1>3. jobs[j].seen \in File
  BY <1>2 DEF JobFits, UnderWay
<1>4. found \in Units \cup {None}
  BY <1>3, ResolvedTyped DEF TInv, File
<1> HIDE DEF found
<1>5. /\ new \in Job /\ new.file = jobs[j].file /\ new.step = "resolved" /\ new.seen = jobs[j].seen
      /\ new.content = jobs[j].content
  BY <1>2, <1>4 DEF Job
<1>6. jobs' = [jobs EXCEPT ![j] = new]
  BY <1>1 DEF found
<1> HIDE DEF new
<1>7. JobFits(new, files)
  BY <1>2, <1>5 DEF JobFits, UnderWay
<1>8. QED
  BY <1>5, <1>6, <1>7, JobStep DEF JobResolve

LEMMA ParseStep ==
    ASSUME TInv, NEW j \in DOMAIN jobs, JobParse(j)
    PROVE  Steps /\ FilesKept /\ UNCHANGED <<ledger, registry>>
<1>1. PICK content \in {jobs[j].content, stored[Its(j).name]} :
         jobs' = [jobs EXCEPT ![j].step = "parsed", ![j].content = content]
  BY DEF JobParse
<1> DEFINE new == [jobs[j] EXCEPT !.step = "parsed", !.content = content]
<1>2. /\ jobs[j] \in Job /\ JobFits(jobs[j], files) /\ jobs[j].step = "resolved"
      /\ jobs[j].file \in DOMAIN files
  BY JobsTyped DEF TInv, Fits, JobFits, JobParse
<1>3. jobs[j].content \in Contents
  BY <1>2 DEF JobFits, UnderWay
<1>4. content \in Contents
  <2>1. Its(j).name \in Names /\ stored[Its(j).name] # None
    BY <1>2, FilesTyped DEF Its, TInv, Fits
  <2>2. QED
    BY <1>3, <2>1 DEF TInv, TypeOK
<1>5. /\ new \in Job /\ new.file = jobs[j].file /\ new.step = "parsed" /\ new.seen = jobs[j].seen
      /\ new.content = content
  BY <1>2, <1>4 DEF Job
<1>6. jobs' = [jobs EXCEPT ![j] = new]
  BY <1>1
<1> HIDE DEF new
<1>7. JobFits(new, files)
  BY <1>2, <1>4, <1>5 DEF JobFits, UnderWay
<1>8. QED
  BY <1>5, <1>6, <1>7, JobStep DEF JobParse

LEMMA KeyTyped == ASSUME NEW content \in Contents, NamesAccount(content) PROVE KeyOf(content) \in Keys
<1>1. LinesOf[content] \in Seq(Line) /\ LinesOf[content] # <<>>
  BY DEF NamesAccount
<1>2. LinesOf[content][1] \in Line
  BY <1>1
<1>3. LinesOf[content][1].number \in Numbers
  BY <1>2 DEF Line, NamesAccount
<1>4. QED
  BY <1>3 DEF KeyOf, Keys

LEMMA LookupStep ==
    ASSUME TInv, NEW j \in DOMAIN jobs,
           JobLookup(j) \/ (JobCreate(j) /\ Link(j, KeyOf(jobs[j].content), "create") /\ UNCHANGED files)
    PROVE  Steps /\ FilesKept /\ UNCHANGED <<ledger, registry>>
<1> DEFINE q == jobs[j]
           missing == [q EXCEPT !.step = "missing"]
           linked(key, writes) == [q EXCEPT !.step = "linked", !.account = key, !.writes = writes]
<1>1. /\ q \in Job /\ JobFits(q, files) /\ q.step \in {"parsed", "missing"} /\ q.unit \in Units \cup {None}
      /\ q.file \in DOMAIN files
      /\ UNCHANGED <<files, stored, ledger, registry, request, asked, changed, faults>>
  BY JobsTyped DEF TInv, Fits, JobFits, JobLookup, JobCreate
<1>2. /\ q.content \in Contents /\ q.seen \in File
      /\ q.seen.account # None => files[q.file].account # None
      /\ q.step = "missing" => NamesAccount(q.content)
  BY <1>1 DEF JobFits, UnderWay
<1>3. \/ NamesAccount(q.content) /\ jobs' = [jobs EXCEPT ![j] = missing]
      \/ jobs' = [jobs EXCEPT ![j] = linked(None, "none")]
      \/ NamesAccount(q.content) /\ jobs' = [jobs EXCEPT ![j] = linked(KeyOf(q.content), "none")]
      \/ /\ NamesAccount(q.content) /\ q.unit # None
         /\ \E writes \in {"heal", "create"} : jobs' = [jobs EXCEPT ![j] = linked(KeyOf(q.content), writes)]
  <2>1. CASE JobLookup(j)
    BY <1>1, <2>1 DEF JobLookup, Link
  <2>2. CASE JobCreate(j) /\ Link(j, KeyOf(q.content), "create")
    BY <1>1, <1>2, <2>2 DEF JobCreate, Link
  <2>3. QED
    BY <2>1, <2>2
<1>4. /\ missing \in Job /\ missing.step = "missing" /\ missing.file = q.file /\ missing.content = q.content
      /\ missing.seen = q.seen
  BY <1>1 DEF Job
<1>5. \A key \in Keys \cup {None}, writes \in {"none", "heal", "create"} :
        /\ linked(key, writes) \in Job /\ linked(key, writes).step = "linked" /\ linked(key, writes).file = q.file
        /\ linked(key, writes).content = q.content /\ linked(key, writes).seen = q.seen
        /\ linked(key, writes).account = key /\ linked(key, writes).writes = writes
        /\ linked(key, writes).unit = q.unit
  BY <1>1 DEF Job
<1> HIDE DEF missing, linked
<1>6. NamesAccount(q.content) => JobFits(missing, files)
  BY <1>1, <1>2, <1>4 DEF JobFits, UnderWay
<1>7. \A key \in Keys \cup {None}, writes \in {"none", "heal", "create"} :
        (writes # "none" => key \in Keys /\ q.unit # None) => JobFits(linked(key, writes), files)
  BY <1>1, <1>2, <1>5 DEF JobFits, UnderWay
<1>8. NamesAccount(q.content) => KeyOf(q.content) \in Keys
  BY <1>2, KeyTyped
<1> HIDE DEF q
<1>9. \E new \in Job : jobs' = [jobs EXCEPT ![j] = new] /\ JobFits(new, files)
  BY <1>3, <1>4, <1>5, <1>6, <1>7, <1>8
<1>10. QED
  BY <1>1, <1>9, JobStep

LEMMA RaisesTyped ==
    ASSUME TInv, NEW j \in DOMAIN jobs, JobRaises(j), UNCHANGED stored
    PROVE  /\ FilesKept /\ \A i \in DOMAIN files' : stored'[files'[i].name] # None
           /\ \A v \in Requests : RequestFits(request[v], files', stored')
           /\ jobs' \in Seq(Job) /\ \A k \in DOMAIN jobs' : JobFits(jobs'[k], files')
<1> DEFINE i == jobs[j].file
           marked == [files[i] EXCEPT !.status = "error"]
           tries == jobs[j].tries + 1
           new == [NewJob(jobs[j].file) EXCEPT !.tries = tries,
                       !.step = IF tries < MaxExecutions THEN "todo" ELSE "failed"]
<1>0. TypeOK /\ Fits
  BY DEF TInv
<1>1. i \in DOMAIN files /\ i \in Nat /\ tries \in Nat
  BY <1>0, JobsTyped DEF Fits, JobFits
<1>2. /\ marked \in File /\ marked.name = files[i].name /\ marked.hash = files[i].hash
      /\ marked.account = files[i].account /\ marked.status = "error"
  BY ZenonT(40), <1>0, <1>1, FilesTyped DEF File
<1>3. files' = [files EXCEPT ![i] = marked] /\ jobs' = [jobs EXCEPT ![j] = new]
  BY DEF JobRaises
<1> HIDE DEF marked, tries
<1>4. FilesKept /\ Grown
  BY <1>0, <1>1, <1>2, <1>3, FileMarked DEF FilesKept
<1>5. /\ \A k \in DOMAIN files : stored'[files'[k].name] # None
      /\ \A v \in Requests : RequestFits(request[v], files', stored')
      /\ \A k \in DOMAIN jobs : JobFits(jobs[k], files')
  BY <1>0, <1>4, FitsGrow
<1>6. /\ NewJob(i) \in Job /\ NewJob(i).file = i
  BY <1>1, NewJobTyped
<1>7. new \in Job /\ new.file = i /\ new.step \in {"todo", "failed"}
  BY <1>1, <1>6 DEF Job
<1> HIDE DEF new
<1>8. JobFits(new, files')
  BY <1>1, <1>4, <1>7 DEF JobFits, UnderWay, Grown
<1>9. jobs' \in Seq(Job) /\ \A k \in DOMAIN jobs' : JobFits(jobs'[k], files')
  BY <1>0, <1>3, <1>5, <1>7, <1>8, JobChanged
<1>10. QED
  BY <1>4, <1>5, <1>9 DEF FilesKept

LEMMA FaultsTyped ==
    ASSUME TypeOK, UNCHANGED faults \/ \E kind \in {"exception", "worker", "api"} : faults' = Append(faults, kind)
    PROVE  faults' \in Seq({"exception", "worker", "api"})
<1>1. faults \in Seq({"exception", "worker", "api"})
  BY DEF TypeOK
<1>2. ASSUME NEW kind \in {"exception", "worker", "api"}, faults' = Append(faults, kind)
      PROVE  faults' \in Seq({"exception", "worker", "api"})
  BY <1>1, <1>2
<1>3. QED
  BY <1>1, <1>2

LEMMA RaiseStep ==
    ASSUME TInv, NEW j \in DOMAIN jobs,
           JobAccountGone(j) \/ JobFails(j) \/ (JobCreate(j) /\ JobRaises(j))
    PROVE  Steps /\ FilesKept /\ UNCHANGED <<ledger, registry>>
<1>1. JobRaises(j) /\ UNCHANGED <<stored, ledger, registry, request, asked, changed>>
  BY DEF JobAccountGone, JobFails, JobCreate
<1>2. faults' \in Seq({"exception", "worker", "api"})
  <2>1. UNCHANGED faults \/ faults' = Append(faults, "exception")
    BY DEF JobAccountGone, JobFails, JobCreate
  <2>2. QED
    BY <2>1, FaultsTyped DEF TInv
<1>3. QED
  BY <1>1, <1>2, RaisesTyped DEF Steps, FilesKept, TInv, TypeOK

LEMMA EndStep ==
    ASSUME TInv, NEW j \in DOMAIN jobs, JobUnrecognized(j) \/ JobNotMapped(j) \/ WorkerCrash(j)
    PROVE  Steps /\ FilesKept /\ UNCHANGED <<ledger, registry>>
<1> DEFINE i == jobs[j].file
           marked == [files[i] EXCEPT !.status = "error"]
           stamped == Stamped(j, "unrecognized", None)
<1>0. /\ TypeOK /\ Fits /\ UNCHANGED <<stored, ledger, registry, request, asked, changed>>
      /\ i \in DOMAIN files
  BY DEF TInv, Fits, JobFits, JobUnrecognized, JobNotMapped, WorkerCrash
<1>1. /\ marked \in File /\ marked.name = files[i].name /\ marked.hash = files[i].hash
      /\ marked.account = files[i].account /\ marked.status = "error"
  BY ZenonT(40), <1>0, FilesTyped DEF File
<1>2. /\ stamped \in File /\ stamped.name = files[i].name /\ stamped.hash = files[i].hash
      /\ stamped.account = files[i].account /\ stamped.status \in {files[i].status, "unrecognized"}
  BY StampedTyped DEF Its
<1>3. \/ UNCHANGED files \/ files' = [files EXCEPT ![i] = marked] \/ files' = [files EXCEPT ![i] = stamped]
  BY DEF JobUnrecognized, JobNotMapped, WorkerCrash
<1> HIDE DEF marked, stamped
<1>4. FilesKept /\ Grown
  <2>1. CASE UNCHANGED files
    BY <1>0, <2>1, FilesSame DEF FilesKept
  <2>2. CASE files' = [files EXCEPT ![i] = marked]
    BY <1>0, <1>1, <2>2, FileMarked DEF FilesKept
  <2>3. CASE files' = [files EXCEPT ![i] = stamped]
    BY <1>0, <1>2, <2>3, FileMarked DEF FilesKept
  <2>4. QED
    BY <1>3, <2>1, <2>2, <2>3
<1>5. /\ \A k \in DOMAIN files : stored'[files'[k].name] # None
      /\ \A v \in Requests : RequestFits(request[v], files', stored')
      /\ \A k \in DOMAIN jobs : JobFits(jobs[k], files')
  BY <1>0, <1>4, FitsGrow
<1>6. jobs' \in Seq(Job) /\ \A k \in DOMAIN jobs' : JobFits(jobs'[k], files')
  <2>1. Ended(j, "done") \/ Ended(j, "dead")
    BY DEF JobUnrecognized, JobNotMapped, WorkerCrash
  <2>2. QED
    BY <1>4, <1>5, <2>1, EndedTyped
<1>7. faults' \in Seq({"exception", "worker", "api"})
  <2>1. UNCHANGED faults \/ faults' = Append(faults, "worker")
    BY DEF JobUnrecognized, JobNotMapped, WorkerCrash
  <2>2. QED
    BY <1>0, <2>1, FaultsTyped
<1>8. QED
  BY <1>0, <1>4, <1>5, <1>6, <1>7 DEF Steps, FilesKept, TypeOK

(***************************************************************************)
(* The commit: rows, account and status together.                           *)
(***************************************************************************)
LEMMA InsertedTyped ==
    ASSUME TInv, NEW j \in DOMAIN jobs, jobs[j].step = "linked"
    PROVE  /\ jobs[j].content \in Contents /\ jobs[j].seen \in File
           /\ LinesOf[jobs[j].content] \in Seq(Line)
           /\ \A l \in DOMAIN LinesOf[jobs[j].content] : l \in Nat /\ LinesOf[jobs[j].content][l].row \in Rows
           /\ Inserted(j) \in SUBSET Entry
<1> DEFINE q == jobs[j]
           lines == LinesOf[q.content]
<1>1. JobFits(q, files) /\ q.file \in Nat /\ j \in Nat /\ q.account \in Keys \cup {None}
  BY JobsTyped DEF TInv, Fits
<1>2. q.content \in Contents /\ q.seen \in File
  BY <1>1 DEF JobFits, UnderWay
<1>3. lines \in Seq(Line)
  BY <1>2
<1> HIDE DEF lines, q
<1>4. \A l \in DOMAIN lines : l \in Nat /\ lines[l] \in Line
  BY <1>3, ElementOfSeq
<1>5. \A l \in DOMAIN lines : l \in Nat /\ lines[l].row \in Rows
  BY <1>4 DEF Line
<1>6. \A l \in DOMAIN lines :
        [file |-> q.file, account |-> q.account, row |-> lines[l].row, job |-> j, line |-> l] \in Entry
  BY <1>1, <1>5 DEF Entry
<1>7. Inserted(j) \in SUBSET Entry
  BY <1>6 DEF Inserted, q, lines
<1>8. QED
  BY <1>2, <1>3, <1>5, <1>7 DEF q, lines

LEMMA CommitStep ==
    ASSUME TInv, NEW j \in DOMAIN jobs, JobCommit(j)
    PROVE  /\ Steps /\ DOMAIN files' = DOMAIN files
           /\ files'[jobs[j].file] = Stamped(j, "ready", jobs[j].account)
           /\ \A k \in DOMAIN files : k # jobs[j].file => files'[k] = files[k]
<1> DEFINE q == jobs[j]
           new == Stamped(j, "ready", q.account)
<1>1. /\ TypeOK /\ Fits /\ JobFits(q, files) /\ q.step = "linked" /\ q.account \in Keys \cup {None}
      /\ UNCHANGED <<stored, request, asked, changed, faults>>
  BY JobsTyped DEF TInv, Fits, JobCommit
<1>2. /\ q.file \in DOMAIN files /\ new \in File /\ new.name = files[q.file].name
      /\ new.hash = files[q.file].hash
      /\ new.account = IF q.account \in {None, q.seen.account} THEN files[q.file].account ELSE q.account
  BY <1>1, StampedTyped DEF Its
<1>3. files' = [files EXCEPT ![q.file] = new]
  BY DEF JobCommit
<1>4. files[q.file].account # None => new.account # None
  BY <1>2
<1> HIDE DEF new
<1>5. /\ Grown /\ DOMAIN files' = DOMAIN files /\ files'[q.file] = new
      /\ \A k \in DOMAIN files : k # q.file => files'[k] = files[k]
  BY <1>1, <1>2, <1>3, <1>4, FileUpdated
<1>6. /\ \A k \in DOMAIN files : stored'[files'[k].name] # None
      /\ \A v \in Requests : RequestFits(request[v], files', stored')
      /\ \A k \in DOMAIN jobs : JobFits(jobs[k], files')
  BY <1>1, <1>5, FitsGrow
<1>7. jobs' \in Seq(Job) /\ \A k \in DOMAIN jobs' : JobFits(jobs'[k], files')
  BY <1>5, <1>6, EndedTyped DEF JobCommit
<1>8. ledger' \in SUBSET Entry
  BY <1>1, InsertedTyped DEF JobCommit, TypeOK
<1>9. registry' \in [Keys -> Account \cup {None}]
  <2>1. q.writes \in {"none", "heal", "create"} /\ (q.writes # "none" => q.account \in Keys /\ q.unit \in Units)
    BY <1>1, JobsTyped DEF JobFits, Job
  <2>2. registry' = Registered(j) /\ ~AccountGone(j)
    BY DEF JobCommit
  <2>3. CASE q.writes = "none"
    BY <1>1, <2>2, <2>3 DEF Registered, TypeOK
  <2>4. CASE q.writes = "heal"
    <3>1. registry[q.account] \in Account
      BY <1>1, <2>1, <2>2, <2>4 DEF AccountGone, TypeOK
    <3>2. [registry[q.account] EXCEPT !.unit = q.unit] \in Account
      BY <2>1, <2>4, <3>1 DEF Account
    <3>3. registry' = [registry EXCEPT ![q.account] = [registry[q.account] EXCEPT !.unit = q.unit]]
      BY <2>2, <2>4 DEF Registered
    <3>4. QED
      BY <1>1, <3>2, <3>3 DEF TypeOK
  <2>5. CASE q.writes = "create"
    <3>1. [unit |-> q.unit, layout |-> None] \in Account
      BY <2>1, <2>5 DEF Account
    <3>2. registry' = [registry EXCEPT ![q.account] = [unit |-> q.unit, layout |-> None]]
      BY <2>2, <2>5 DEF Registered
    <3>3. QED
      BY <1>1, <3>1, <3>2 DEF TypeOK
  <2>6. QED
    BY <2>1, <2>3, <2>4, <2>5
<1>10. QED
  BY <1>1, <1>5, <1>6, <1>7, <1>8, <1>9 DEF Steps, TypeOK, new

(***************************************************************************)
(* Every step.                                                              *)
(***************************************************************************)
Commits == \E j \in DOMAIN jobs : JobCommit(j)
LEMMA NextSteps ==
    ASSUME TInv, Next
    PROVE  /\ Steps
           /\ Commits \/ ((FilesKept \/ FileAdded) /\ UNCHANGED ledger /\ (UNCHANGED registry \/ Configure))
<1>1. ASSUME NEW u \in Requests, Serve(u)
      PROVE  Steps /\ (FilesKept \/ FileAdded) /\ UNCHANGED <<ledger, registry>>
  BY <1>1, MarkStep, SaveStep, InsertStep, DeferStep DEF Serve
<1>2. ASSUME NEW j \in DOMAIN jobs, Execute(j)
      PROVE  Steps /\ (JobCommit(j) \/ (FilesKept /\ UNCHANGED <<ledger, registry>>))
  <2>1. CASE JobCreate(j)
    <3>1. \/ Link(j, KeyOf(jobs[j].content), "create") /\ UNCHANGED files
          \/ JobRaises(j)
      BY <2>1 DEF JobCreate
    <3>2. QED
      BY <2>1, <3>1, LookupStep, RaiseStep
  <2>2. QED
    BY <1>2, <2>1, DetectStep, EndStep, ResolveStep, ParseStep, LookupStep, CommitStep, RaiseStep DEF Execute
<1>3. CASE Ask
  BY <1>3, CheckStep, ReingestStep, DeleteStep, BuilderUploadStep DEF Ask
<1>4. CASE Fault
  BY <1>4, DeferStep, RaiseStep, EndStep DEF Fault
<1>5. CASE Configure
  BY <1>5, ConfigureStep
<1>6. QED
  BY <1>1, <1>2, <1>3, <1>4, <1>5 DEF Next, Commits

\* The bytes change by being saved, and what was saved is remembered.
Saves == \E name \in Names, content \in Contents : Save(name, content)
LEMMA NextSaves ==
    ASSUME TInv, Next
    PROVE  UNCHANGED <<stored, saved>> \/ Saves
<1>1. ASSUME NEW u \in Requests, Serve(u) PROVE UNCHANGED <<stored, saved>> \/ Saves
  <2>1. CASE SaveBytes(u)
    <3>1. request[u].name \in Names /\ request[u].content \in Contents
      BY DEF TInv, TypeOK, Request
    <3>2. QED
      BY <2>1, <3>1 DEF SaveBytes, Saves
  <2>2. QED
    BY <1>1, <2>1 DEF Serve, RestoreFile, RetryFile, InsertFile, DeferJob
<1>2. ASSUME NEW j \in DOMAIN jobs, Execute(j) PROVE UNCHANGED <<stored, saved>>
  BY <1>2 DEF Execute, JobDetect, JobUnrecognized, JobResolve, JobParse, JobLookup, JobNotMapped,
              JobCreate, JobCommit, JobAccountGone
<1>3. CASE Ask
  BY <1>3 DEF Ask, CheckDuplicate, ReingestFile, DeleteFile, BuilderUpload, Saves
<1>4. CASE Configure \/ Fault
  BY <1>4 DEF Configure, SaveRecipe, DeleteAccount, Fault, ApiCrash, JobFails, WorkerCrash
<1>5. QED
  BY <1>1, <1>2, <1>3, <1>4 DEF Next

LEMMA SavedGrows ==
    ASSUME TInv, Next
    PROVE  /\ saved' \in [Names -> SUBSET Contents]
           /\ \A n \in Names : /\ saved[n] \subseteq saved'[n]
                               /\ stored'[n] = stored[n] \/ stored'[n] \in saved'[n]
<1>1. stored \in [Names -> Contents \cup {None}] /\ saved \in [Names -> SUBSET Contents]
  BY DEF TInv, TypeOK
<1>2. CASE UNCHANGED <<stored, saved>>
  BY <1>1, <1>2
<1>3. CASE Saves
  BY <1>1, <1>3 DEF Saves, Save
<1>4. QED
  BY <1>2, <1>3, NextSaves

LEMMA TypedAlways == Spec => []TInv
<1>1. TInv /\ [Next]_vars => TInv'
  <2>1. ASSUME TInv, Next PROVE TInv'
    BY <2>1, NextSteps, SavedGrows, StepsTyped
  <2>2. ASSUME TInv, UNCHANGED vars PROVE TInv'
    BY <2>2 DEF vars, TInv, TypeOK, Fits
  <2>3. QED
    BY <2>1, <2>2
<1>2. QED
  BY <1>1, TypedInitially, PTL DEF Spec

\* Files, requests, jobs and the ledger keep their types, whatever is uploaded and configured.
THEOREM IngestionTypeCorrect == Spec => []TypeOK
<1>1. TInv => TypeOK
  BY DEF TInv
<1>2. QED
  BY <1>1, TypedAlways, PTL

\* The UNIQUE constraint on the hashes: for any number of concurrent uploads, restores and
\* re-ingestions, no two files of the list have the same bytes.
THEOREM BytesListedOnceAlways == Spec => []BytesListedOnce
<1>1. Init => BytesListedOnce
  BY DEF Init, BytesListedOnce
<1>2. TInv /\ BytesListedOnce /\ [Next]_vars => BytesListedOnce'
  <2> SUFFICES ASSUME TInv, BytesListedOnce, [Next]_vars PROVE BytesListedOnce'
    OBVIOUS
  <2>1. CASE UNCHANGED vars
    BY <2>1 DEF vars, BytesListedOnce
  <2>2. ASSUME Grown, DOMAIN files' = DOMAIN files PROVE BytesListedOnce'
    BY <2>2 DEF Grown, BytesListedOnce
  <2>3. CASE FileAdded
    <3> DEFINE last == Len(files')
    <3>1. /\ DOMAIN files' = DOMAIN files \cup {last} /\ last \notin DOMAIN files
          /\ \A i \in DOMAIN files : files'[i] = files[i]
          /\ files'[last].hash = None \/ HashOwner(files'[last].hash) = {}
      BY <2>3 DEF FileAdded
    <3> HIDE DEF last
    <3>2. \A i \in DOMAIN files : files'[last].hash # None => files[i].hash # files'[last].hash
      BY <3>1 DEF HashOwner
    <3>3. QED
      BY <3>1, <3>2 DEF BytesListedOnce
  <2>4. CASE Next
    BY <2>2, <2>3, <2>4, NextSteps, CommitStep DEF Commits, FilesKept, Steps
  <2>5. QED
    BY <2>1, <2>4
<1>3. QED
  BY <1>1, <1>2, TypedAlways, PTL DEF Spec

\* The unique constraint of the ledger: for any interleaving of jobs, retries and crashes, a
\* row of a known account is in it once (build_row_hash and ON CONFLICT DO NOTHING).
THEOREM LedgerUniqueAlways == Spec => []LedgerUnique
<1>1. Init => LedgerUnique
  BY DEF Init, LedgerUnique
<1>2. TInv /\ LedgerUnique /\ [Next]_vars => LedgerUnique'
  <2> SUFFICES ASSUME TInv, LedgerUnique, [Next]_vars PROVE LedgerUnique'
    OBVIOUS
  <2>1. CASE UNCHANGED ledger
    BY <2>1 DEF LedgerUnique
  <2>2. ASSUME NEW j \in DOMAIN jobs, JobCommit(j) PROVE LedgerUnique'
    <3> DEFINE lines == LinesOf[jobs[j].content]
               account == jobs[j].account
               Conflicts(l) == /\ account # None
                               /\ \/ \E e \in ledger : e.account = account /\ e.row = lines[l].row
                                  \/ \E k \in 1..(l - 1) : lines[k].row = lines[l].row
               Rec(l) == [file |-> jobs[j].file, account |-> account, row |-> lines[l].row,
                          job |-> j, line |-> l]
    <3>1. /\ ledger' = ledger \cup Inserted(j) /\ \A l \in DOMAIN lines : l \in Nat /\ l \geq 1
      <4>1. lines \in Seq(Line)
        BY <2>2, InsertedTyped DEF JobCommit
      <4>2. QED
        BY <2>2, <4>1 DEF JobCommit
    <3>2. \A e \in Inserted(j) : \E l \in DOMAIN lines : ~Conflicts(l) /\ e = Rec(l)
      BY DEF Inserted
    <3> SUFFICES ASSUME NEW d \in ledger', NEW e \in ledger', d.account # None, d.account = e.account, d.row = e.row
                 PROVE  d = e
      BY DEF LedgerUnique
    <3>3. ASSUME NEW x \in ledger, NEW y \in Inserted(j), x.account # None, x.account = y.account, x.row = y.row
          PROVE  FALSE
      <4>1. PICK l \in DOMAIN lines : ~Conflicts(l) /\ y = Rec(l)
        BY <3>2
      <4>2. y.account = account /\ y.row = lines[l].row
        BY <4>1
      <4>3. QED
        BY <3>3, <4>1, <4>2
    <3>4. ASSUME d \in Inserted(j), e \in Inserted(j) PROVE d = e
      <4>1. PICK k \in DOMAIN lines : ~Conflicts(k) /\ d = Rec(k)
        BY <3>2, <3>4
      <4>2. PICK l \in DOMAIN lines : ~Conflicts(l) /\ e = Rec(l)
        BY <3>2, <3>4
      <4>3. lines[k].row = lines[l].row /\ account # None
        BY <4>1, <4>2
      <4>4. ~(k < l) /\ ~(l < k)
        <5>1. k < l => k \in 1..(l - 1)
          BY <3>1
        <5>2. l < k => l \in 1..(k - 1)
          BY <3>1
        <5>3. QED
          BY <4>1, <4>2, <4>3, <5>1, <5>2
      <4>5. k = l
        BY <3>1, <4>4
      <4>6. QED
        BY <4>1, <4>2, <4>5
    <3>5. CASE d \in ledger /\ e \in ledger
      BY <3>5 DEF LedgerUnique
    <3>6. QED
      BY <3>1, <3>3, <3>4, <3>5
  <2>3. QED
    BY <2>1, <2>2, NextSteps DEF Commits, vars
<1>3. QED
  BY <1>1, <1>2, TypedAlways, PTL DEF Spec

(***************************************************************************)
(* References to accounts, complete files, whole statements.                *)
(***************************************************************************)
LEMMA RegisteredKeeps ==
    ASSUME TInv, NEW j \in DOMAIN jobs, JobCommit(j)
    PROVE  /\ \A k \in Keys : registry[k] # None => registry'[k] # None
           /\ jobs[j].account # None => registry'[jobs[j].account] # None
<1> DEFINE q == jobs[j]
<1>1. /\ q.account \in Keys \cup {None} /\ q.writes \in {"none", "heal", "create"}
      /\ q.writes # "none" => q.account \in Keys /\ q.unit \in Units
      /\ registry \in [Keys -> Account \cup {None}]
  BY JobsTyped DEF TInv, TypeOK, Fits, JobFits, JobCommit, Job
<1>2. registry' = Registered(j) /\ ~AccountGone(j)
  BY DEF JobCommit
<1>3. CASE q.writes = "none"
  BY <1>1, <1>2, <1>3 DEF Registered, AccountGone
<1>4. CASE q.writes = "heal"
  <2>1. q.account # None /\ registry[q.account] \in Account
    BY <1>1, <1>2, <1>4 DEF AccountGone
  <2>2. [registry[q.account] EXCEPT !.unit = q.unit] \in Account
    BY <1>1, <1>4, <2>1 DEF Account
  <2>3. registry' = [registry EXCEPT ![q.account] = [registry[q.account] EXCEPT !.unit = q.unit]]
    BY <1>2, <1>4 DEF Registered
  <2>4. QED
    BY <1>1, <1>4, <2>2, <2>3
<1>5. CASE q.writes = "create"
  <2>1. [unit |-> q.unit, layout |-> None] \in Account
    BY <1>1, <1>5 DEF Account
  <2>2. registry' = [registry EXCEPT ![q.account] = [unit |-> q.unit, layout |-> None]]
    BY <1>2, <1>5 DEF Registered
  <2>3. QED
    BY <1>1, <1>5, <2>1, <2>2
<1>6. QED
  BY <1>1, <1>3, <1>4, <1>5

\* The account that a commit leaves on its file: one it had, or the one of its rows.
LEMMA CommittedAccount ==
    ASSUME TInv, NEW j \in DOMAIN jobs, JobCommit(j)
    PROVE  LET f == jobs[j].file IN
           /\ f \in DOMAIN files
           /\ files'[f].account # jobs[j].account => files'[f].account = files[f].account
           /\ files'[f].account = None => jobs[j].account = None
<1> DEFINE q == jobs[j]
<1>1. /\ q.file \in DOMAIN files /\ q.account \in Keys \cup {None}
      /\ q.seen.account # None => files[q.file].account # None
  BY JobsTyped DEF TInv, Fits, JobFits, UnderWay, JobCommit
<1>2. files'[q.file].account = IF q.account \in {None, q.seen.account} THEN files[q.file].account ELSE q.account
  BY <1>1, CommitStep, StampedTyped DEF Its
<1>3. QED
  BY <1>1, <1>2

\* Whatever is saved, removed, healed and created, files and rows refer to accounts that
\* exist (the foreign keys of source_files and statement_transaction_rows).
THEOREM AccountsExistAlways == Spec => []AccountsExist
<1>1. Init => AccountsExist
  BY DEF Init, AccountsExist
<1>2. TInv /\ AccountsExist /\ [Next]_vars => AccountsExist'
  <2> SUFFICES ASSUME TInv, AccountsExist, [Next]_vars PROVE AccountsExist'
    OBVIOUS
  <2>0. /\ \A i \in DOMAIN files : files[i].account \in Keys \cup {None}
        /\ \A e \in ledger : e.account \in Keys \cup {None}
    BY FilesTyped DEF TInv, TypeOK, Entry
  <2>1. CASE UNCHANGED vars
    BY <2>1 DEF vars, AccountsExist
  <2>2. ASSUME FilesKept \/ FileAdded, UNCHANGED ledger PROVE
          /\ \A i \in DOMAIN files' : files'[i].account # None =>
                \E k \in DOMAIN files : files'[i].account = files[k].account
          /\ ledger' = ledger
    BY <2>2 DEF FilesKept, FileAdded
  <2>3. ASSUME FilesKept \/ FileAdded, UNCHANGED <<ledger, registry>> PROVE AccountsExist'
    BY <2>2, <2>3 DEF AccountsExist
  <2>4. ASSUME FilesKept \/ FileAdded, UNCHANGED ledger, Configure PROVE AccountsExist'
    <3>1. UNCHANGED <<files, ledger>> /\ registry \in [Keys -> Account \cup {None}]
      BY <2>4 DEF Configure, SaveRecipe, DeleteAccount, TInv, TypeOK
    <3>2. ASSUME NEW number \in Numbers, NEW unit \in Units, NEW layout \in Layouts,
                 SaveRecipe(number, unit, layout)
          PROVE  AccountsExist'
      <4>1. [unit |-> unit, layout |-> layout] \in Account
        BY DEF Account
      <4>2. registry' = [registry EXCEPT ![<<number, SavedBank[number]>>] = [unit |-> unit, layout |-> layout]]
        BY <3>2 DEF SaveRecipe
      <4>3. \A k \in Keys : registry[k] # None => registry'[k] # None
        BY <3>1, <4>1, <4>2
      <4>4. QED
        BY <2>0, <3>1, <4>3 DEF AccountsExist
    <3>3. ASSUME NEW key \in Keys, DeleteAccount(key) PROVE AccountsExist'
      <4>1. /\ \A k \in Keys : k # key => registry'[k] = registry[k]
            /\ \A i \in DOMAIN files : files[i].account # key
            /\ \A e \in ledger : e.account # key
        BY <3>1, <3>3 DEF DeleteAccount
      <4>2. QED
        BY <2>0, <3>1, <4>1 DEF AccountsExist
    <3>4. QED
      BY <2>4, <3>2, <3>3 DEF Configure
  <2>5. ASSUME NEW j \in DOMAIN jobs, JobCommit(j) PROVE AccountsExist'
    <3>1. \A i \in DOMAIN files' : files'[i].account # None => registry'[files'[i].account] # None
      BY <2>0, <2>5, CommitStep, CommittedAccount, RegisteredKeeps DEF AccountsExist
    <3>2. \A e \in Inserted(j) : e.account = jobs[j].account
      BY DEF Inserted
    <3>3. \A e \in ledger' : e.account # None => registry'[e.account] # None
      BY <2>0, <2>5, <3>2, RegisteredKeeps DEF JobCommit, AccountsExist
    <3>4. QED
      BY <3>1, <3>3 DEF AccountsExist
  <2>6. QED
    BY <2>1, <2>3, <2>4, <2>5, NextSteps DEF Commits
<1>3. QED
  BY <1>1, <1>2, TypedAlways, PTL DEF Spec

LEMMA Least ==
    ASSUME NEW S \in SUBSET Nat, S # {}
    PROVE  \E m \in S : \A k \in S : m <= k
<1> DEFINE R == OpToRel(<, Nat)
<1>1. IsWellFoundedOn(R, Nat)
  BY NatLessThanWellFounded
<1>2. R = {ss \in Nat \X Nat : ss[1] < ss[2]}
  BY DEF OpToRel
<1> HIDE DEF R
<1>3. PICK m \in S : \A k \in S : <<k, m>> \notin R
  BY <1>1, WFMin
<1>4. \A k \in S : ~(k < m)
  BY <1>2, <1>3
<1>5. QED
  BY <1>4

\* After the commit every row of the statement is in the ledger: the first line with the row
\* was inserted unless the row was there before.
LEMMA CommitComplete ==
    ASSUME TInv, NEW j \in DOMAIN jobs, JobCommit(j)
    PROVE  \A l \in DOMAIN LinesOf[jobs[j].content] :
             \E e \in ledger' : e.account = jobs[j].account /\ e.row = LinesOf[jobs[j].content][l].row
<1> DEFINE lines == LinesOf[jobs[j].content]
           account == jobs[j].account
           Conflicts(l) == /\ account # None
                           /\ \/ \E e \in ledger : e.account = account /\ e.row = lines[l].row
                              \/ \E k \in 1..(l - 1) : lines[k].row = lines[l].row
           Rec(l) == [file |-> jobs[j].file, account |-> account, row |-> lines[l].row,
                      job |-> j, line |-> l]
<1>1. ledger' = ledger \cup Inserted(j) /\ lines \in Seq(Line)
  BY InsertedTyped DEF JobCommit
<1>2. DOMAIN lines = 1..Len(lines) /\ Len(lines) \in Nat
  BY <1>1
<1>3. \A l \in DOMAIN lines : ~Conflicts(l) => Rec(l) \in Inserted(j)
  BY DEF Inserted
<1>4. \A l \in DOMAIN lines : Rec(l).account = account /\ Rec(l).row = lines[l].row
  OBVIOUS
<1> HIDE DEF Rec
<1> SUFFICES ASSUME NEW l \in DOMAIN lines
             PROVE  \E e \in ledger' : e.account = account /\ e.row = lines[l].row
  OBVIOUS
<1> DEFINE S == {k \in DOMAIN lines : lines[k].row = lines[l].row}
<1>51. S \in SUBSET Nat
  BY <1>2
<1>52. l \in S
  OBVIOUS
<1>53. \E m \in S : \A k \in S : m <= k
  <2> HIDE DEF S
  <2> QED
    BY <1>51, <1>52, Least
<1>5. PICK m \in S : \A k \in S : m <= k
  BY <1>53
<1>6. m \in DOMAIN lines /\ lines[m].row = lines[l].row
  OBVIOUS
<1>7. \A k \in 1..(m - 1) : lines[k].row # lines[m].row
  <2>1. \A k \in 1..(m - 1) : k \in DOMAIN lines /\ ~(m <= k)
    BY <1>2, <1>6
  <2>2. QED
    BY <1>5, <1>6, <2>1
<1>8. CASE Conflicts(m)
  BY <1>1, <1>6, <1>7, <1>8
<1>9. CASE ~Conflicts(m)
  BY <1>1, <1>3, <1>4, <1>6, <1>9
<1>10. QED
  BY <1>8, <1>9

\* What a job works on was saved under the name of its file.
WasSaved ==
    /\ \A n \in Names : stored[n] # None => stored[n] \in saved[n]
    /\ \A j \in DOMAIN jobs : jobs[j].step \in UnderWay => jobs[j].content \in saved[Its(j).name]

\* A job that is under way after a step works on what it had or on what is stored.
Continues(old, new) ==
    /\ new.file = old.file
    /\ new.step \in UnderWay => \/ new.content = stored[files[old.file].name]
                                \/ old.step \in UnderWay /\ new.content = old.content

LEMMA JobContinues ==
    ASSUME TInv, NEW j \in DOMAIN jobs, Execute(j) \/ JobFails(j) \/ WorkerCrash(j)
    PROVE  \E new : jobs' = [jobs EXCEPT ![j] = new] /\ Continues(jobs[j], new)
<1> DEFINE q == jobs[j]
<1>1. q \in Job
  BY JobsTyped DEF TInv
<1>2. CASE JobDetect(j)
  <2>1. PICK found : jobs' = [jobs EXCEPT ![j] = [q EXCEPT !.step = "detected", !.found = found,
                                 !.seen = Its(j), !.content = stored[Its(j).name]]]
    BY <1>2 DEF JobDetect
  <2> DEFINE new == [q EXCEPT !.step = "detected", !.found = found, !.seen = Its(j),
                              !.content = stored[Its(j).name]]
  <2>2. new.file = q.file /\ new.content = stored[files[q.file].name]
    BY <1>1 DEF Job, Its
  <2>3. QED
    BY <2>1, <2>2 DEF Continues
<1>3. CASE JobResolve(j)
  <2>1. PICK unit : jobs' = [jobs EXCEPT ![j] = [q EXCEPT !.step = "resolved", !.unit = unit]]
    BY <1>3 DEF JobResolve
  <2> DEFINE new == [q EXCEPT !.step = "resolved", !.unit = unit]
  <2>2. new.file = q.file /\ new.content = q.content /\ q.step \in UnderWay
    BY <1>1, <1>3 DEF Job, JobResolve, UnderWay
  <2>3. QED
    BY <2>1, <2>2 DEF Continues
<1>4. CASE JobParse(j)
  <2>1. PICK content \in {q.content, stored[Its(j).name]} :
           jobs' = [jobs EXCEPT ![j] = [q EXCEPT !.step = "parsed", !.content = content]]
    BY <1>4 DEF JobParse
  <2> DEFINE new == [q EXCEPT !.step = "parsed", !.content = content]
  <2>2. new.file = q.file /\ new.content = content /\ q.step \in UnderWay
    BY <1>1, <1>4 DEF Job, JobParse, UnderWay
  <2>3. QED
    BY <2>1, <2>2 DEF Continues, Its
<1>5. CASE (JobLookup(j) \/ JobCreate(j)) /\ ~JobRaises(j)
  <2>1. /\ q.step \in UnderWay
        /\ \/ jobs' = [jobs EXCEPT ![j] = [q EXCEPT !.step = "missing"]]
           \/ \E key, writes : jobs' = [jobs EXCEPT ![j] =
                 [q EXCEPT !.step = "linked", !.account = key, !.writes = writes]]
    <3>1. q.step \in UnderWay
      BY <1>5 DEF JobLookup, JobCreate, UnderWay
    <3>2. \/ jobs' = [jobs EXCEPT ![j].step = "missing"]
          \/ \E key : Link(j, key, "none") \/ Link(j, key, "heal") \/ Link(j, key, "create")
      BY <1>5 DEF JobLookup, JobCreate
    <3>3. ASSUME NEW key, NEW writes, Link(j, key, writes)
          PROVE  jobs' = [jobs EXCEPT ![j] =
                    [q EXCEPT !.step = "linked", !.account = key, !.writes = writes]]
      BY <3>3 DEF Link
    <3>4. QED
      BY <3>1, <3>2, <3>3
  <2>2. \E new : /\ jobs' = [jobs EXCEPT ![j] = new]
                 /\ new.file = q.file /\ new.content = q.content
    <3>1. CASE jobs' = [jobs EXCEPT ![j] = [q EXCEPT !.step = "missing"]]
      <4> DEFINE new == [q EXCEPT !.step = "missing"]
      <4>1. new.file = q.file /\ new.content = q.content
        BY <1>1 DEF Job
      <4>2. QED
        BY <3>1, <4>1
    <3>2. ASSUME NEW key, NEW writes,
                 jobs' = [jobs EXCEPT ![j] =
                    [q EXCEPT !.step = "linked", !.account = key, !.writes = writes]]
          PROVE  \E new : /\ jobs' = [jobs EXCEPT ![j] = new]
                          /\ new.file = q.file /\ new.content = q.content
      <4> DEFINE new == [q EXCEPT !.step = "linked", !.account = key, !.writes = writes]
      <4>1. new.file = q.file /\ new.content = q.content
        BY <1>1 DEF Job
      <4>2. QED
        BY <3>2, <4>1
    <3>3. QED
      BY <2>1, <3>1, <3>2
  <2>3. QED
    BY <2>1, <2>2 DEF Continues
<1>6. CASE \/ JobUnrecognized(j) \/ JobNotMapped(j) \/ JobCommit(j) \/ WorkerCrash(j)
           \/ JobRaises(j)
  <2>1. \E new : /\ jobs' = [jobs EXCEPT ![j] = new]
                 /\ new.file = q.file /\ new.step \in {"done", "dead", "todo", "failed"}
    <3>1. ASSUME NEW step \in {"done", "dead", "todo", "failed"}, NEW tries,
                 jobs' = [jobs EXCEPT ![j] = [NewJob(q.file) EXCEPT !.tries = tries, !.step = step]]
          PROVE  <2>1
      <4>1. LET new == [NewJob(q.file) EXCEPT !.tries = tries, !.step = step]
            IN  new.file = q.file /\ new.step = step
        BY DEF NewJob
      <4>2. QED
        BY <3>1, <4>1
    <3>2. QED
      BY <1>6, <3>1 DEF JobUnrecognized, JobNotMapped, JobCommit, WorkerCrash, JobRaises, Ended
  <2>2. QED
    BY <2>1 DEF Continues, UnderWay
<1>7. JobAccountGone(j) \/ JobFails(j) => JobRaises(j)
  BY DEF JobAccountGone, JobFails
<1>8. QED
  BY <1>2, <1>3, <1>4, <1>5, <1>6, <1>7 DEF Execute

LEMMA NextContinues ==
    ASSUME TInv, Next, NEW j \in DOMAIN jobs', jobs'[j].step \in UnderWay
    PROVE  j \in DOMAIN jobs /\ Continues(jobs[j], jobs'[j])
<1>1. jobs \in Seq(Job) /\ \A i \in DOMAIN jobs : jobs[i].file = jobs[i].file
  BY DEF TInv, TypeOK
<1>2. CASE UNCHANGED jobs
  BY <1>2 DEF Continues
<1>3. ASSUME NEW u \in Requests, DeferJob(u) PROVE j \in DOMAIN jobs /\ jobs'[j] = jobs[j]
  <2>1. request[u].file \in Nat /\ jobs' = Append(jobs, NewJob(request[u].file))
    BY <1>3 DEF TInv, TypeOK, Request, DeferJob
  <2>2. NewJob(request[u].file) \in Job /\ NewJob(request[u].file).step = "todo"
    BY <2>1, NewJobTyped
  <2>3. QED
    BY <1>1, <2>1, <2>2, SeqAppended DEF UnderWay
<1>4. ASSUME NEW i \in DOMAIN jobs, Execute(i) \/ JobFails(i) \/ WorkerCrash(i)
      PROVE  j \in DOMAIN jobs /\ (jobs'[j] = jobs[j] \/ Continues(jobs[j], jobs'[j]))
  BY <1>1, <1>4, JobContinues
<1>5. UNCHANGED jobs \/ (\E u \in Requests : DeferJob(u))
      \/ \E i \in DOMAIN jobs : Execute(i) \/ JobFails(i) \/ WorkerCrash(i)
  BY DEF Next, Serve, Ask, Configure, Fault, CheckDuplicate, RestoreFile, RetryFile, SaveBytes, InsertFile,
         ReingestFile, ApiCrash, DeleteFile, BuilderUpload, SaveRecipe, DeleteAccount
<1>6. jobs'[j] = jobs[j] => Continues(jobs[j], jobs'[j])
  BY DEF Continues
<1>7. QED
  BY <1>2, <1>3, <1>4, <1>5, <1>6

LEMMA WasSavedAlways == Spec => []WasSaved
<1>1. Init => WasSaved
  BY DEF Init, WasSaved
<1>2. TInv /\ WasSaved /\ [Next]_vars => WasSaved'
  <2>1. ASSUME WasSaved, UNCHANGED vars PROVE WasSaved'
    BY <2>1 DEF vars, WasSaved, Its
  <2>2. ASSUME TInv, WasSaved, Next PROVE WasSaved'
    <3>1. \A n \in Names : stored'[n] # None => stored'[n] \in saved'[n]
      BY <2>2, SavedGrows DEF WasSaved
    <3>2. ASSUME NEW j \in DOMAIN jobs', jobs'[j].step \in UnderWay
          PROVE  jobs'[j].content \in saved'[files'[jobs'[j].file].name]
      <4>1. j \in DOMAIN jobs /\ Continues(jobs[j], jobs'[j])
        BY <2>2, <3>2, NextContinues
      <4> DEFINE f == jobs[j].file
                 n == files[f].name
      <4>2. f \in DOMAIN files /\ n \in Names /\ stored[n] # None
        BY <2>2, <4>1, FilesTyped DEF TInv, Fits, JobFits
      <4>3. files'[f].name = n /\ jobs'[j].file = f
        BY <2>2, <4>1, <4>2, NextSteps DEF Steps, Grown, Continues
      <4>4. jobs'[j].content \in saved[n]
        BY <2>2, <3>2, <4>1, <4>2 DEF Continues, WasSaved, Its
      <4>5. saved[n] \subseteq saved'[n]
        BY <2>2, <4>2, SavedGrows
      <4>6. QED
        BY <4>3, <4>4, <4>5
    <3>3. QED
      BY <3>1, <3>2 DEF WasSaved, Its
  <2>3. QED
    BY <2>1, <2>2
<1>3. QED
  BY <1>1, <1>2, TypedAlways, PTL DEF Spec

\* What was complete stays complete when files, bytes and rows only grow.
LEMMA CompleteStays ==
    ASSUME TInv, ReadyIsComplete, Next, ledger \subseteq ledger', NEW i \in DOMAIN files,
           files'[i].account = files[i].account, files[i].status = "ready" \/ files[i].account # None
    PROVE  \E content \in saved'[files'[i].name] : \A l \in DOMAIN LinesOf[content] :
              \E e \in ledger' : e.account = files'[i].account /\ e.row = LinesOf[content][l].row
<1>1. PICK content \in saved[files[i].name] : InLedger(content, files[i].account)
  BY DEF ReadyIsComplete
<1>2. files[i].name \in Names /\ files'[i].name = files[i].name
  BY FilesTyped, NextSteps DEF TInv, Steps, Grown
<1>3. content \in saved'[files'[i].name]
  BY <1>1, <1>2, SavedGrows
<1>4. \A l \in DOMAIN LinesOf[content] :
         \E e \in ledger' : e.account = files'[i].account /\ e.row = LinesOf[content][l].row
  BY <1>1 DEF InLedger
<1>5. QED
  BY <1>3, <1>4

\* A file that is ready, or has an account, has all rows of a statement in the ledger that
\* was saved under its name: through failures between the parts of a job, retries, restores
\* and removals.  Its account is the one of these rows.
THEOREM ReadyIsCompleteAlways == Spec => []ReadyIsComplete
<1>1. Init => ReadyIsComplete
  BY DEF Init, ReadyIsComplete
<1>2. TInv /\ WasSaved /\ ReadyIsComplete /\ [Next]_vars => ReadyIsComplete'
  <2>1. ASSUME ReadyIsComplete, UNCHANGED vars PROVE ReadyIsComplete'
    <3>1. files' = files /\ ledger' = ledger /\ saved' = saved
      BY <2>1 DEF vars
    <3>2. \A content, account : InLedger(content, account) <=> InLedger(content, account)'
      BY <3>1 DEF InLedger
    <3>3. QED
      BY <2>1, <3>1, <3>2 DEF ReadyIsComplete
  <2>2. ASSUME TInv, WasSaved, ReadyIsComplete, Next PROVE ReadyIsComplete'
    <3> SUFFICES ASSUME NEW i \in DOMAIN files', files'[i].status = "ready" \/ files'[i].account # None
                 PROVE  \E content \in saved'[files'[i].name] : \A l \in DOMAIN LinesOf[content] :
                          \E e \in ledger' : e.account = files'[i].account /\ e.row = LinesOf[content][l].row
      BY DEF ReadyIsComplete, InLedger
    <3>1. CASE (FilesKept \/ FileAdded) /\ UNCHANGED ledger
      <4>1. /\ i \in DOMAIN files /\ files'[i].account = files[i].account
            /\ files[i].status = "ready" \/ files[i].account # None
        BY <3>1 DEF FilesKept, FileAdded
      <4>2. QED
        BY <2>2, <3>1, <4>1, CompleteStays
    <3>2. ASSUME NEW j \in DOMAIN jobs, JobCommit(j)
          PROVE  \E content \in saved'[files'[i].name] : \A l \in DOMAIN LinesOf[content] :
                   \E e \in ledger' : e.account = files'[i].account /\ e.row = LinesOf[content][l].row
      <4> DEFINE q == jobs[j]
      <4>1. ledger \subseteq ledger'
        BY <3>2 DEF JobCommit
      <4>2. CASE i = q.file /\ files'[i].account = q.account
        <5>1. i \in DOMAIN files /\ files[i].name \in Names /\ files'[i].name = files[i].name
          BY <2>2, <3>2, <4>2, CommittedAccount, FilesTyped, CommitStep DEF TInv, Steps, Grown
        <5>2. q.content \in saved[files[i].name]
          BY <2>2, <3>2, <4>2 DEF WasSaved, Its, JobCommit, UnderWay
        <5>3. q.content \in saved'[files'[i].name]
          BY <2>2, <5>1, <5>2, SavedGrows
        <5>4. \A l \in DOMAIN LinesOf[q.content] :
                 \E e \in ledger' : e.account = q.account /\ e.row = LinesOf[q.content][l].row
          BY <2>2, <3>2, CommitComplete
        <5>5. QED
          BY <4>2, <5>3, <5>4
      <4>3. CASE ~(i = q.file /\ files'[i].account = q.account)
        <5>1. /\ i \in DOMAIN files /\ files'[i].account = files[i].account
              /\ files[i].status = "ready" \/ files[i].account # None
          <6>1. CASE i # q.file
            BY <2>2, <3>2, <6>1, CommitStep
          <6>2. CASE i = q.file
            BY <2>2, <3>2, <4>3, <6>2, CommittedAccount
          <6>3. QED
            BY <6>1, <6>2
        <5>2. QED
          BY <2>2, <4>1, <5>1, CompleteStays
      <4>4. QED
        BY <4>2, <4>3
    <3>3. QED
      BY <2>2, <3>1, <3>2, NextSteps DEF Commits
  <2>3. QED
    BY <2>1, <2>2
<1>3. QED
  BY <1>1, <1>2, TypedAlways, WasSavedAlways, PTL DEF Spec

\* The ledger of every execution grows by whole statements and loses nothing: ingestion
\* implements StatementLedger ("Durable, hash-deduplicated ledger").
THEOREM IngestionKeepsPromise == Spec => LedgerPromise
<1>1. Init => Ledger!Init
  BY DEF Init, Ledger!Init, Kept
<1>2. TInv /\ [Next]_vars => [Ledger!Next]_Kept
  <2> SUFFICES ASSUME TInv, [Next]_vars, Kept' # Kept PROVE Ledger!Next
    OBVIOUS
  <2>1. PICK j \in DOMAIN jobs : JobCommit(j)
    BY NextSteps DEF Commits, vars, Kept
  <2> DEFINE q == jobs[j]
  <2>2. q.account \in Keys \cup {None} /\ q.content \in Contents
    BY <2>1, JobsTyped, InsertedTyped DEF JobCommit, TInv
  <2>3. ledger' = ledger \cup Inserted(j)
    BY <2>1 DEF JobCommit
  <2>4. \A e \in Inserted(j) : e.account = q.account /\ e.row \in RowsOf(q.content)
    BY DEF Inserted, RowsOf
  <2>5. ASSUME NEW row \in RowsOf(q.content)
        PROVE  \E e \in ledger' : e.account = q.account /\ e.row = row
    <3>1. PICK l \in DOMAIN LinesOf[q.content] : row = LinesOf[q.content][l].row
      BY DEF RowsOf
    <3>2. \E e \in ledger' : e.account = q.account /\ e.row = LinesOf[q.content][l].row
      BY <2>1, CommitComplete
    <3>3. QED
      BY <3>1, <3>2
  <2>6. Kept' = Kept \cup ({q.account} \X RowsOf(q.content))
    BY <2>3, <2>4, <2>5 DEF Kept
  <2>7. QED
    BY <2>2, <2>6 DEF Ledger!Next, Ledger!AddStatement
<1>3. QED
  BY <1>1, <1>2, TypedAlways, PTL DEF Spec, LedgerPromise, Ledger!Spec
=============================================================================
