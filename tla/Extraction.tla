----------------------------- MODULE Extraction -----------------------------
(***************************************************************************)
(* Extraction: what each credit row of a run pays, and who.                 *)
(*                                                                         *)
(* Sources: app/extraction/chunk_processor.py, layer_2a_regex.py,           *)
(* layer_2b_ai.py, merger.py.                                               *)
(*                                                                         *)
(* Chunks of rows run in a pool of threads.  In a chunk, invoice numbers    *)
(* written in a row and known to the aging report settle it (layer 2A); the *)
(* others are asked to the model, in batches by business unit that run in a *)
(* pool of their own (layer 2B).  The pools are abstracted to any order in  *)
(* which their jobs may end.                                                *)
(***************************************************************************)
EXTENDS RuleEngine

CONSTANTS
    Credits,        \* the credit rows of the run
    Reports,        \* aging reports that may be loaded
    Answers,        \* what the model may say of a row
    ChunkSize,      \* CHUNK_SIZE
    BatchSize,      \* AI_BATCH_SIZE
    MaxFaults       \* bound on chunks that raise

AiAnswer == [customer : Texts \cup {None}, inList : BOOLEAN, invoices : Seq(Numbers),
             confidence : -1..100]

ASSUME ExtractionAssumption ==
    /\ Credits \in Seq(CreditRow) /\ Reports \subseteq Seq(OpenInvoice) /\ Answers \subseteq AiAnswer
    /\ ChunkSize \in Nat \ {0} /\ BatchSize \in Nat \ {0} /\ MaxFaults \in Nat
    /\ None \notin Answers

VARIABLES
    aging,      \* the report of the run
    chunk,      \* how far each chunk is
    job,        \* the batches: their step and the rows they have classified so far
    got,        \* what layer 2B of each chunk has collected
    faults
extraction == <<aging, chunk, job, got, faults>>

RowsIn == DOMAIN Credits
ChunkCount == (Len(Credits) + ChunkSize - 1) \div ChunkSize
Chunks == 1..ChunkCount
RowsOf(c) == {r \in RowsIn : (r - 1) \div ChunkSize = c - 1}

Payment == [at : RowsIn, invoices : Seq(Numbers), customer : Customers \cup {None},
            pct : 0..100, confidence : 0..100 \cup {None}]
NoPayment == [at : RowsIn, asked : BOOLEAN]
Bucket == [identified : Seq(Payment), unknown : Seq(NoPayment)]
Empty == [identified |-> <<>>, unknown |-> <<>>]
Both(a, b) == [identified |-> a.identified \o b.identified, unknown |-> a.unknown \o b.unknown]

-----------------------------------------------------------------------------
(***************************************************************************)
(* Layer 2A.                                                                *)
(***************************************************************************)
\* The numbers found in the texts of the row that the report knows.
Confirmed(r) == Confirm(aging, Credits[r].written, Credits[r].ou)

Text(r) == Credits[r].text
CustomerOf2A(r) ==
    IF Text(r) = None THEN None
    ELSE IF Credits[r].ou = None THEN FuzzyCustomer(aging, Text(r), FuzzyMinPct)
    ELSE FuzzyCustomerInOu(aging, Text(r), Credits[r].ou, FuzzyMinPct)

\* The score is kept when it is too low for a match.
PctOf2A(r) ==
    LET names == IF Credits[r].ou = None THEN UNION {CustomersIn(aging, ou) : ou \in OusOf(aging)}
                 ELSE CustomersIn(aging, Credits[r].ou)
    IN IF Text(r) = None \/ names = {} THEN 0 ELSE Max({Score[Text(r)][c] : c \in names})

Found2A(c) == {r \in RowsOf(c) : Confirmed(r) # <<>>}
Layer2ARowToIdentified(r) ==
    [at |-> r, invoices |-> Confirmed(r), customer |-> CustomerOf2A(r), pct |-> PctOf2A(r),
     confidence |-> None]
Identified2A(c) == InOrder([r \in Found2A(c) |-> Layer2ARowToIdentified(r)], Found2A(c))

(***************************************************************************)
(* Layer 2B.                                                                *)
(***************************************************************************)
NotFound(c) == {r \in RowsOf(c) : Confirmed(r) = <<>>}
Skipped(c) == {r \in NotFound(c) : Text(r) = None}
UnknownPayment(r, asked) == [at |-> r, asked |-> asked]

BatchesOf(rows) ==
    LET Rank(r) == Cardinality({q \in rows : q < r})
    IN {{r \in rows : Rank(r) \div BatchSize = b} : b \in {Rank(r) \div BatchSize : r \in rows}}

Batches(c) ==
    UNION {BatchesOf({r \in NotFound(c) : Text(r) # None /\ Credits[r].ou = ou}) :
              ou \in OUs \cup {None}}
Jobs(c) == {j \in DOMAIN job : j \subseteq RowsOf(c)}

\* Mutant: what the model says is believed.
AsAnswered(r, answer) == answer.invoices

\* _validate_ai_output: only what the report knows is believed.
ConfirmedByReport(r, answer) == Confirm(aging, answer.invoices, Credits[r].ou)
CustomerByReport(r, answer) ==
    IF answer.customer = None THEN None
    ELSE IF answer.inList /\ Credits[r].ou # None
         THEN FuzzyCustomerInOu(aging, answer.customer, Credits[r].ou, 40)
         ELSE FuzzyCustomer(aging, answer.customer, 60)

\* Mutant: it is kept.
NeverRaise(answer) == FALSE

\* A confidence that is not a number raises.
Raises(answer) == answer # None /\ answer.confidence = -1

\* _classify_row.  None: the row is missing from the answer.
Identifies(r, answer) ==
    answer # None /\ (ConfirmedByReport(r, answer) # <<>> \/ CustomerByReport(r, answer) # None)
IdentifiedPayment(r, answer) ==
    LET customer == CustomerByReport(r, answer)
    IN [at |-> r, invoices |-> ConfirmedByReport(r, answer),
        customer |-> IF customer # None THEN customer ELSE CustomerOf2A(r),
        pct |-> PctOf2A(r), confidence |-> answer.confidence]

ClassifyRows(rows, items) ==
    LET known == {r \in rows : Identifies(r, items[r])}
    IN [identified |-> InOrder([r \in known |-> IdentifiedPayment(r, items[r])], known),
        unknown |-> InOrder([r \in rows \ known |-> UnknownPayment(r, TRUE)], rows \ known)]

RowsHeld(bucket) ==
    {bucket.identified[k].at : k \in DOMAIN bucket.identified}
        \cup {bucket.unknown[k].at : k \in DOMAIN bucket.unknown}

-----------------------------------------------------------------------------
InitExtraction ==
    /\ aging \in Reports
    /\ chunk = [c \in Chunks |-> "queued"]
    /\ job = [j \in UNION {Batches(c) : c \in Chunks} |-> [step |-> "waiting", bucket |-> Empty]]
    /\ got = [c \in Chunks |-> Empty]
    /\ faults = 0

\* Layer 2A and the rows without a text; the batches are submitted.
StartChunk(c) ==
    /\ chunk[c] = "queued"
    /\ chunk' = [chunk EXCEPT ![c] = "asking"]
    /\ got' = [got EXCEPT ![c].unknown =
                   InOrder([r \in Skipped(c) |-> UnknownPayment(r, FALSE)], Skipped(c))]
    /\ UNCHANGED <<aging, job, faults>>

\* The batch is answered: an item for some of its rows, matched by row_index.
AnswerBatch(c, j, items) ==
    /\ chunk[c] = "asking" /\ job[j].step = "waiting"
    /\ IF \E r \in j : Raises(items[r])
       THEN job' = [job EXCEPT ![j].step = "raised"] /\ UNCHANGED got
       ELSE /\ job' = [job EXCEPT ![j].step = "done"]
            /\ got' = [got EXCEPT ![c] = Both(@, ClassifyRows(j, items))]
    /\ UNCHANGED <<aging, chunk, faults>>

\* The call failed, or its text is not a list: the rows are asked one by one.
FailBatch(c, j) ==
    /\ chunk[c] = "asking" /\ job[j].step = "waiting"
    /\ job' = [job EXCEPT ![j].step = "singly"]
    /\ UNCHANGED <<aging, chunk, got, faults>>

\* The next row by itself; a failed call has no answer.
AnswerRow(c, j, answer) ==
    /\ chunk[c] = "asking" /\ job[j].step = "singly"
    /\ LET left == j \ RowsHeld(job[j].bucket)
           r == Min(left)
           bucket == Both(job[j].bucket, ClassifyRows({r}, [q \in {r} |-> answer]))
       IN IF Raises(answer)
          THEN job' = [job EXCEPT ![j] = [step |-> "raised", bucket |-> Empty]] /\ UNCHANGED got
          ELSE IF left = {r}
          THEN /\ job' = [job EXCEPT ![j] = [step |-> "done", bucket |-> Empty]]
               /\ got' = [got EXCEPT ![c] = Both(@, bucket)]
          ELSE job' = [job EXCEPT ![j].bucket = bucket] /\ UNCHANGED got
    /\ UNCHANGED <<aging, chunk, faults>>

Ended(c) == \A j \in Jobs(c) : job[j].step \in {"done", "raised"}

\* merge_extraction_results.
MergeChunk(c) ==
    /\ chunk[c] = "asking" /\ Ended(c)
    /\ chunk' = [chunk EXCEPT ![c] = "merged"]
    /\ got' = [got EXCEPT ![c].identified = Identified2A(c) \o @]
    /\ UNCHANGED <<aging, job, faults>>

\* A chunk that raises is replaced by an empty result.
FailChunk(c) ==
    /\ faults < MaxFaults /\ faults' = faults + 1
    /\ chunk[c] = "asking" /\ Ended(c)
    /\ chunk' = [chunk EXCEPT ![c] = "failed"]
    /\ got' = [got EXCEPT ![c] = Empty]
    /\ UNCHANGED <<aging, job>>

Ask(c) ==
    \E j \in Jobs(c) :
        \/ \E items \in [j -> Answers \cup {None}] : AnswerBatch(c, j, items)
        \/ FailBatch(c, j)
        \/ \E answer \in Answers \cup {None} : AnswerRow(c, j, answer)

Extract(c) == StartChunk(c) \/ Ask(c) \/ MergeChunk(c)
Extracted == \A c \in Chunks : chunk[c] \in {"merged", "failed"}

\* Rows of a chunk or a batch that raised are in no result.
Lost(c) == IF chunk[c] = "failed" THEN RowsOf(c)
           ELSE UNION {j \in Jobs(c) : job[j].step = "raised"}
=============================================================================
