---------------------------- MODULE RowPipeline -----------------------------
(***************************************************************************)
(* From the credit rows of a run to its line items and receipts: the        *)
(* extraction of every chunk, then the rule engine row by row.              *)
(*                                                                         *)
(* Sources: steps 3 and 4 of _run_analysis in app/rule_engine/orchestrator. *)
(* py with app/extraction/, app/rule_engine/ and the payloads of            *)
(* app/oracle/fusion_client.py.  Consumption of rows, receipts in Oracle    *)
(* and crashes are in AnalysisRuns.                                         *)
(***************************************************************************)
EXTENDS Extraction

CONSTANTS
    Remittances     \* sets of remittances that may be in the database

ASSUME RemittanceAssumption == Remittances \subseteq SUBSET Remittance

VARIABLES
    remittances,    \* remittance_extractions with their lines
    status,         \* how far the run is
    lines,          \* line_items of the run, in the order of their ids
    saved,          \* how many of them are committed
    current,        \* the chunk being evaluated
    fx              \* FxService._cache of the run
pipeline == <<remittances, status, lines, saved, current, fx>>
vars == <<extraction, pipeline>>

Init ==
    /\ InitExtraction
    /\ remittances \in Remittances
    /\ status = "extracting" /\ lines = <<>> /\ saved = 0 /\ current = 1 /\ fx = <<>>

-----------------------------------------------------------------------------
StartEvaluation ==
    /\ status = "extracting" /\ Extracted
    /\ status' = IF Chunks = {} THEN "evaluated" ELSE "evaluating"
    /\ UNCHANGED <<extraction, remittances, lines, saved, current, fx>>

Position == Len(lines) - saved + 1
Evaluating == status = "evaluating" /\ current \in Chunks
Stamp(leg) == [needed |-> leg.needed, rate |-> leg.rate, source |-> leg.source, origin |-> leg.origin]

LineItem(i, payment, result) ==
    [at |-> payment.at, row |-> i.row, customer |-> payment.customer, rule |-> result.rule,
     matched |-> result.matched, target |-> result.target, received |-> result.received,
     currency |-> i.currency, credited |-> Stamp(i.credited), ledger |-> Stamp(i.ledger)]

\* Both passes of one payment.  up: which calls to Oracle GL are answered.  When
\* evaluate_row raises, the run ends, and what it has flushed is committed: the
\* items of the chunk, and the row's own with no rule.
EvaluatePayment(up) ==
    /\ Evaluating /\ Position <= Len(got[current].identified)
    /\ LET payment == got[current].identified[Position]
           i == RuleInput(Credits[payment.at], payment, aging, remittances, fx, up)
       IN \E drift \in Drifts(Resolved(i, aging)) :
            LET result == EvaluateRow(i, aging, drift) IN
            /\ lines' = Append(lines, LineItem(i, payment, result))
            /\ fx' = i.cache
            /\ IF result.rule = "raises" THEN status' = "error" /\ saved' = Len(lines')
               ELSE UNCHANGED <<status, saved>>
    /\ UNCHANGED <<extraction, remittances, current>>

NoLeg == [needed |-> FALSE, rate |-> None, source |-> "none", origin |-> "none"]
\* A row that extraction knows nothing of is not looked up anywhere.
EvaluateUnknown ==
    /\ Evaluating
    /\ LET k == Position - Len(got[current].identified) IN
        /\ k \in DOMAIN got[current].unknown
        /\ LET r == got[current].unknown[k].at IN
            lines' = Append(lines,
                [at |-> r, row |-> Credits[r], customer |-> None, rule |-> "R8", matched |-> <<>>,
                 target |-> 0, received |-> Credits[r].amount, currency |-> Credits[r].currency,
                 credited |-> NoLeg, ledger |-> NoLeg])
    /\ UNCHANGED <<extraction, remittances, status, saved, current, fx>>

CommitChunk ==
    /\ Evaluating
    /\ Position > Len(got[current].identified) + Len(got[current].unknown)
    /\ saved' = Len(lines) /\ current' = current + 1
    /\ status' = IF current = ChunkCount THEN "evaluated" ELSE status
    /\ UNCHANGED <<extraction, remittances, lines, fx>>

Evaluate ==
    \/ StartEvaluation
    \/ \E up \in [1..4 -> BOOLEAN] : EvaluatePayment(up)
    \/ EvaluateUnknown
    \/ CommitChunk

Finished == status \in {"evaluated", "error"} /\ UNCHANGED vars

Next ==
    \/ \E c \in Chunks : (Extract(c) \/ FailChunk(c)) /\ UNCHANGED pipeline
    \/ Evaluate
    \/ Finished

Spec == Init /\ [][Next]_vars

-----------------------------------------------------------------------------
(***************************************************************************)
(* Properties.                                                              *)
(***************************************************************************)
TypeOK ==
    /\ aging \in Reports /\ remittances \in Remittances
    /\ chunk \in [Chunks -> {"queued", "asking", "merged", "failed"}]
    /\ \A j \in DOMAIN job : job[j].step \in {"waiting", "singly", "done", "raised"}
                            /\ job[j].bucket \in Bucket
    /\ got \in [Chunks -> Bucket]
    /\ faults \in 0..MaxFaults
    /\ status \in {"extracting", "evaluating", "evaluated", "error"}
    /\ saved \in 0..Len(lines) /\ current \in 1..(ChunkCount + 1)
    /\ \A k \in DOMAIN lines :
        /\ lines[k].rule \in {"R1", "R3", "R4", "R7", "R8", "R9a", "R9b", "R9c", "R11", "R13", "R14",
                              "raises"}
        /\ lines[k].received \in Int /\ lines[k].target \in Int

Items == {lines[k] : k \in DOMAIN lines}
Postable == {x \in Items : PassedValidation(x.rule)}

(* Every row of the run becomes exactly one line item, whatever the model   *)
(* answers, leaves out or fails to answer and in whatever order batches and *)
(* chunks end; only the rows of a batch or chunk that raised have none, and *)
(* are left for a later run (layer_2b_ai.py _process_batch_with_fallback,   *)
(* merger.py, chunk_processor.py).                                          *)
EveryRowOnce ==
    /\ \A k, l \in DOMAIN lines : lines[k].at = lines[l].at => k = l
    /\ status = "evaluated" =>
          {x.at : x \in Items} = RowsIn \ UNION {Lost(c) : c \in Chunks}

(* "Invoice not in aging" is only said of an invoice that a remittance      *)
(* names: extraction lets through nothing that the report does not know     *)
(* (_validate_ai_output, run_layer_2a and rule R4).                         *)
UnknownInvoiceIsRemitted ==
    \A x \in Items : x.rule = "R4" => RemittanceView(remittances, x.row, x.customer).found

(* The references of a postable row add up to the amount of its receipt, in *)
(* the receipt's currency, through conversion, split and rounding, unless   *)
(* the remittance states every amount itself or a share is zero (evaluator. *)
(* py _resolve_matched_invoices, fusion_client.py).                         *)
LeftToSplit(x) ==
    LET view == RemittanceView(remittances, x.row, x.customer)
        LinesOf(n) == {j \in DOMAIN view.lines : view.lines[j].number = n}
    IN \/ ~view.found \/ Len(x.matched) = 1
       \/ \E k \in DOMAIN x.matched : view.lines[Max(LinesOf(x.matched[k].number))].paid = None
References(x) ==
    SumFunctionOnSet([k \in DOMAIN x.matched |-> ReferencesOf(x)[k].amount], DOMAIN x.matched)
ReferencesAddUp ==
    \A x \in Postable :
        (LeftToSplit(x) /\ \A k \in DOMAIN x.matched : x.matched[k].stated # 0)
            => References(x) = ReceiptOf(x).amount

(* A mapping by hand of the invoices that the engine matched is classified  *)
(* as the engine classified the row, whatever its configured tolerance is,  *)
(* except where the shortfall rounds to nothing or to a percentage from one *)
(* tolerance to the other: the engine's setting (settings.py SHORT_PAYMENT_ *)
(* TOLERANCE_PCT) and the constant of the mapping by hand (manual_mapping.  *)
(* py _classify).                                                           *)
InBands(x) == x.rule \in {"R11", "R9a", "R9b", "R9c"}
InDoubt(x) ==
    LET pct == ShortfallPct(x.target, x.received)
    IN x.target # 0 /\ (pct = 0 \/ Between(pct, 100 * TolerancePct, 100 * DefaultTolerancePct))
HandAgrees ==
    \A x \in Items : InBands(x) /\ ~InDoubt(x) => Classify(x.target, x.received) = x.rule

(* Two rows of a run in the same currencies on the same day are converted   *)
(* at the same rate, even if Oracle fails or recovers in between (fx_       *)
(* service.py: the cache keeps failures too).                               *)
SameRate ==
    \A x, y \in Items :
        (x.credited.needed /\ y.credited.needed /\ x.row.currency = y.row.currency
            /\ x.currency = y.currency /\ x.row.date = y.row.date)
        => x.credited.rate = y.credited.rate

(* A row that may be posted pays no more than its invoices leave open and   *)
(* no less than the tolerance, is converted when its currency is not the    *)
(* invoices', and is not the payment of another unit's customer, unless     *)
(* nothing is open any more (evaluator.py, the order of R13, R14 and R9).   *)
PostableIsSound ==
    \A x \in Postable :
        /\ x.target # 0 => x.target > 0 /\ x.received <= x.target
                              /\ 100 * (x.target - x.received) <= TolerancePct * x.target
        /\ x.credited.needed => x.credited.rate # None
        /\ ~IsCrossOu(aging, x.customer, x.row.ou)

\* --- What the comments say, and what the code does not do.

(* evaluator.py: "reference amounts MUST sum to the credited amount         *)
(* expressed in INVOICE currency".  A share of zero is sent to Oracle as    *)
(* the whole outstanding amount.                                            *)
ReferencesAlwaysAddUp ==
    \A x \in Postable : LeftToSplit(x) => References(x) = ReceiptOf(x).amount

(* fx_service.py on the static rates: "NEVER use these for Oracle posting". *)
StaticNeverPosted ==
    \A x \in Items : /\ ReceiptOf(x).rate # None => x.ledger.origin = "oracle_gl"
                     /\ x.credited.rate # None => x.credited.origin = "oracle_gl"

(* fusion_client.py: the receipt's amount is the credit converted to its    *)
(* currency.  Without a rate the credited amount is sent in the invoices'.  *)
AmountIsConverted ==
    \A x \in Items : ReceiptOf(x).currency # x.row.currency => x.credited.rate # None

(* schemas/extraction.py on UnknownPayment: "a row where neither Layer 2A   *)
(* nor Layer 2B found anything".  A customer that 2A found is dropped.      *)
UnknownHasNothing ==
    \A c \in Chunks : \A k \in DOMAIN got[c].unknown : CustomerOf2A(got[c].unknown[k].at) = None

(* layer_2b_ai.py: "a single malformed batch response doesn't blank out     *)
(* every row in it".  A confidence that is no number does.                  *)
OneRowAtMostLost == \A j \in DOMAIN job : job[j].step = "raised" => Cardinality(j) = 1

(* fx_service.py: the source is cached together with its rate; the row's    *)
(* comes from a second call.                                                *)
SourceOfRate == \A x \in Items : x.credited.source = x.credited.origin

(* manual_mapping.py _classify: "Mirrors rule_engine/evaluator.py's R9      *)
(* family exactly (same formula, same tolerance, same rule IDs)".           *)
HandMirrors ==
    \A x \in Items :
        InBands(x) /\ ShortfallPct(x.target, x.received) \notin {0, 100 * TolerancePct}
            => Classify(x.target, x.received) = x.rule

(* evaluator.py: "All overpayments ... are routed to R11".  A target of     *)
(* zero is an exact match.                                                  *)
OverpaidIsR11 == \A x \in Postable : x.received <= x.target

(* R9a is an exact match: equal sums of floats may differ.                  *)
EqualIsExact == \A x \in Items : InBands(x) /\ x.target = x.received => x.rule = "R9a"

(* ou_resolver.py: "Returns all OU numbers where this customer has open     *)
(* invoices".  It looks at the first 25 customers of a unit.                *)
WrongOuIsWrong ==
    \A x \in Items : x.rule = "R14" => x.customer \notin CustomersIn(aging, x.row.ou)

\* The data of one row does not end the run of all the others.
NeverRaises == status # "error"
=============================================================================
