------------------------------- MODULE Hitl -------------------------------
(***************************************************************************)
(* One line item under review: SPOCs approve, reject, map and retry it, the *)
(* remittance recheck re-evaluates it, and Step 4.5 of its run may still    *)
(* have to create its Oracle receipt.                                      *)
(*                                                                         *)
(* Sources: app/hitl/service.py, app/hitl/manual_mapping.py,                *)
(* app/rule_engine/remittance_recheck.py, app/bff/hitl_routes.py,           *)
(* app/bff/metrics.py, Step 4.5 of app/rule_engine/orchestrator.py.         *)
(*                                                                         *)
(* Every request reads the row once, works on its copy while it talks to    *)
(* Oracle, and commits at the end.  The commit writes the columns that the  *)
(* copy has changed and no other: nothing is locked in between.             *)
(***************************************************************************)
EXTENDS Integers

CONSTANTS
    Spocs,        \* requests SPOCs may have under way at the same time
    Recheck,      \* the session of the remittance recheck worker
    Step45,       \* the session of the run that made the line item
    Invoices,     \* open invoices of the aging report
    Operations,   \* what the SPOCs ask for
    Callers,      \* whether an approve or reject supplies expected_version
    Answers,      \* what may become of a request to Oracle
    MaxRequests   \* bound on the requests and rechecks

ASSUME SessionsAssumption == Recheck # Step45 /\ {Recheck, Step45} \cap Spocs = {}
ASSUME InputAssumption ==
    /\ Operations \subseteq {"approve", "reject", "map", "retry", "recheck", "abort"}
    /\ Callers \subseteq BOOLEAN
    /\ Answers \subseteq {"created", "refused", "lost"}
    /\ MaxRequests \in Nat

VARIABLES
    row,        \* the line_items row, as committed
    session,    \* each request's copy of it
    view,       \* what each SPOC's screen shows of it
    unposted,   \* Step 4.5 has not come to the row yet
    receipts,   \* receipts Oracle accepted for the row
    posts,      \* how often Oracle accepted a reference to each invoice
    requests    \* requests begun so far
vars == <<row, session, view, unposted, receipts, posts, requests>>

Sessions == Spocs \cup {Recheck, Step45}
Outcomes == {"none", "success", "failed"}
Row == [rule : {"R7", "R8", "R9", "conflict"},   \* R9: R9a, R9b; conflict: the others
        invoices : SUBSET Invoices,              \* matched_invoices
        manual : BOOLEAN,                        \* manually_mapped
        hitl : {"none", "approved", "rejected"}, \* hitl_status
        receipt : Outcomes,                      \* oracle_post_status
        reference : Outcomes,                    \* reference_status
        payload : SUBSET Invoices,               \* reference_payload
        state : {"unidentified", "review_approve", "processed", "rejected",
                 "post_failed"},                 \* current_state
        version : 0 .. MaxRequests]
Session == [op : {"idle", "approve", "reject", "map", "retry", "recheck", "receipt"},
            stage : {"idle", "creating", "posting", "commit"},
            checked : BOOLEAN,          \* expected_version was supplied
            seen : Row, now : Row,      \* the row as read, and as changed since
            todo : SUBSET Invoices,     \* references still to post
            bad : BOOLEAN]              \* a reference was not answered with success

TypeOK ==
    /\ row \in Row
    /\ session \in [Sessions -> Session]
    /\ view \in [Spocs -> [version : 0 .. MaxRequests, invoices : SUBSET Invoices]]
    /\ unposted \in BOOLEAN
    /\ receipts \in Nat
    /\ posts \in [Invoices -> Nat]
    /\ requests \in 0 .. MaxRequests

\* Mutant: a category that CATEGORY_TO_STATE does not know becomes a state.
EvaluationsUnmapped(listed) ==
    [rule : {"conflict"}, invoices : SUBSET listed, state : {"conflict_exception"}]

(***************************************************************************)
(* What an evaluation of the row can tell: R9 needs invoices of the aging  *)
(* report; R8, "nothing extractable", is also what evaluate_row says of a   *)
(* remittance that lists no invoice.                                       *)
(***************************************************************************)
Evaluations(listed) ==
    [rule : {"R9"}, invoices : (SUBSET listed) \ {{}}, state : {"review_approve"}]
    \cup [rule : {"conflict"}, invoices : SUBSET listed, state : {"review_approve"}]
    \cup (IF listed = {} THEN [rule : {"R8"}, invoices : {{}}, state : {"unidentified"}]
                         ELSE {})

FreshRow(rule, invoices, state) ==
    [rule |-> rule, invoices |-> invoices, manual |-> FALSE, hitl |-> "none",
     receipt |-> "none", reference |-> "none", payload |-> {}, state |-> state,
     version |-> 0]
\* _persist_line_item and the first apply_transition, as committed by the run.
NewRows == {FreshRow("R7", {}, "review_approve"), FreshRow("R8", {}, "unidentified")}
           \cup {FreshRow(e.rule, e.invoices, e.state) : e \in Evaluations(Invoices)}

IdleSession == [op |-> "idle", stage |-> "idle", checked |-> FALSE, todo |-> {},
                seen |-> FreshRow("R8", {}, "unidentified"),
                now |-> FreshRow("R8", {}, "unidentified"), bad |-> FALSE]
Init ==
    /\ row \in NewRows
    /\ session = [s \in Sessions |-> IdleSession]
    /\ view = [s \in Spocs |-> [version |-> 0, invoices |-> row.invoices]]
    /\ unposted = TRUE
    /\ receipts = 0
    /\ posts = [i \in Invoices |-> 0]
    /\ requests = 0

CategoryOfRule(rule) == CASE rule = "R7" -> "needs_remittance"
                          [] rule = "R8" -> "unidentified"
                          [] rule = "R9" -> "ready_for_oracle"
                          [] OTHER       -> "conflict_exception"
\* Mutant: the terminal states of the row forgotten.
CategoryByRule(r) == CategoryOfRule(r.rule)
\* _category_for_row: terminal outcomes come before the rule.
Category(r) == IF r.reference = "success" THEN "processed"
               ELSE IF r.hitl = "rejected" THEN "rejected"
               ELSE IF r.reference = "failed" THEN "post_failed"
               ELSE CategoryOfRule(r.rule)

(***************************************************************************)
(* Requests.  Each reads the row, passes its gates or is refused without a  *)
(* change, and continues on its copy.                                      *)
(***************************************************************************)
Begin(s, op, stage, checked, now, todo) ==
    /\ session[s].stage = "idle"
    /\ op \in Operations
    /\ requests < MaxRequests
    /\ requests' = requests + 1
    /\ session' = [session EXCEPT ![s] =
         [op |-> op, stage |-> stage, checked |-> checked, seen |-> row, now |-> now,
          todo |-> todo, bad |-> FALSE]]
    /\ UNCHANGED <<row, view, unposted, receipts, posts>>

Look(s) ==
    /\ session[s].stage = "idle"
    /\ view' = [view EXCEPT ![s] = [version |-> row.version, invoices |-> row.invoices]]
    /\ UNCHANGED <<row, session, unposted, receipts, posts, requests>>

VersionMatches(s, checked) == checked => row.version = view[s].version
\* Mutant: the receipt taken for granted.
AlwaysPosting(r) == "posting"

\* The references go to an existing receipt, or to one made first.
FirstStage(r) == IF r.receipt = "success" THEN "posting" ELSE "creating"
Mapping(r, refs) == IF r.receipt = "success" THEN [r EXCEPT !.payload = refs] ELSE r

ApproveRow(s) ==
    \E checked \in Callers, breakup \in {{}, view[s].invoices} :
        LET refs == IF breakup = {} THEN row.invoices ELSE breakup IN
        /\ VersionMatches(s, checked)
        /\ Category(row) = "ready_for_oracle"
        /\ Begin(s, "approve", FirstStage(row), checked,
                 Mapping([row EXCEPT !.hitl = "approved"], refs), refs)

RejectRow(s) ==
    \E checked \in Callers :
        /\ VersionMatches(s, checked)
        /\ Begin(s, "reject", "commit", checked,
                 [row EXCEPT !.hitl = "rejected", !.state = "rejected",
                             !.version = @ + 1], {})

\* Mutant: a retry of any row that was not posted.
RetryAny(s) ==
    /\ row.reference # "success"
    /\ Begin(s, "retry", FirstStage(row), FALSE, Mapping(row, row.invoices), row.invoices)

RetryOraclePost(s) ==
    /\ row.reference = "failed"
    /\ Begin(s, "retry", FirstStage(row), FALSE, Mapping(row, row.invoices), row.invoices)

\* Any selection whose amounts qualify becomes R9a or R9b.
ConfirmManualMapping(s) ==
    \E picked \in (SUBSET Invoices) \ {{}} :
        Begin(s, "map", "commit", FALSE,
              [row EXCEPT !.invoices = picked, !.rule = "R9", !.manual = TRUE,
                          !.state = "review_approve"], {})

RecheckRemittance(s) ==
    /\ row.rule = "R7" /\ ~row.manual /\ row.hitl = "none"
    /\ \E listed \in SUBSET Invoices : \E e \in Evaluations(listed) :
         Begin(s, "recheck", "commit", FALSE,
               [row EXCEPT !.rule = e.rule, !.invoices = e.invoices, !.state = e.state],
               {})

ReceiptOfRun ==
    /\ unposted
    /\ unposted' = FALSE
    /\ session' = [session EXCEPT ![Step45] =
         [op |-> "receipt", stage |-> "creating", checked |-> FALSE, seen |-> row,
          now |-> row, todo |-> {}, bad |-> FALSE]]
    /\ UNCHANGED <<row, view, receipts, posts, requests>>

(***************************************************************************)
(* Oracle: it accepts what it answers with success, and may have accepted   *)
(* what is not answered.                                                   *)
(***************************************************************************)
Accepted(answer) == answer \in {"created", "lost"}

\* _map_invoice_and_update has its result, approve_row and retry_oracle_post use it.
MappingResult(s, now, ok) ==
    [now EXCEPT !.reference = IF ok THEN "success" ELSE "failed",
                !.state = IF ok THEN "processed" ELSE "post_failed",
                !.version = IF session[s].op = "approve" THEN @ + 1 ELSE @]

CreateReceipt(s) ==
    /\ session[s].stage = "creating"
    /\ \E answer \in Answers :
         LET ok  == answer = "created"
             now == [session[s].now EXCEPT !.receipt = IF ok THEN "success" ELSE "failed"]
         IN
         /\ receipts' = IF Accepted(answer) THEN receipts + 1 ELSE receipts
         /\ session' = [session EXCEPT
              ![s].stage = IF ok /\ session[s].op # "receipt" THEN "posting" ELSE "commit",
              ![s].now = IF session[s].op = "receipt" THEN now
                         ELSE IF ok THEN Mapping(now, session[s].todo)
                         ELSE MappingResult(s, now, FALSE)]
    /\ UNCHANGED <<row, view, unposted, posts, requests>>

\* Mutant: a reference whose answer was lost counts as added.
PostReferenceOptimistic(s, i) ==
    /\ session[s].stage = "posting"
    /\ i \in session[s].todo
    /\ \E answer \in Answers :
         /\ posts' = IF Accepted(answer) THEN [posts EXCEPT ![i] = @ + 1] ELSE posts
         /\ session' = [session EXCEPT ![s].todo = @ \ {i}]
    /\ UNCHANGED <<row, view, unposted, receipts, requests>>

PostReference(s, i) ==
    /\ session[s].stage = "posting"
    /\ i \in session[s].todo
    /\ \E answer \in Answers :
         /\ posts' = IF Accepted(answer) THEN [posts EXCEPT ![i] = @ + 1] ELSE posts
         /\ session' = [session EXCEPT ![s].todo = @ \ {i},
                                       ![s].bad = @ \/ answer # "created"]
    /\ UNCHANGED <<row, view, unposted, receipts, requests>>

FinishMapping(s) ==
    /\ session[s].stage = "posting" /\ session[s].todo = {}
    /\ session' = [session EXCEPT
         ![s].stage = "commit",
         ![s].now = MappingResult(s, session[s].now, ~session[s].bad)]
    /\ UNCHANGED <<row, view, unposted, receipts, posts, requests>>

\* The UPDATE of the columns in which the copy differs from what was read.
Written(seen, now) ==
    [c \in DOMAIN row |-> IF now[c] # seen[c] THEN now[c] ELSE row[c]]

CommitRow(s) ==
    /\ session[s].stage = "commit"
    /\ row' = Written(session[s].seen, session[s].now)
    /\ session' = [session EXCEPT ![s] = IdleSession]
    /\ UNCHANGED <<view, unposted, receipts, posts, requests>>

\* An exception or the end of the process: the copy is gone, Oracle is as it is.
Abort(s) ==
    /\ "abort" \in Operations
    /\ session[s].stage # "idle"
    /\ session' = [session EXCEPT ![s] = IdleSession]
    /\ UNCHANGED <<row, view, unposted, receipts, posts, requests>>

Next ==
    \/ \E s \in Spocs : \/ Look(s) \/ ApproveRow(s) \/ RejectRow(s)
                        \/ RetryOraclePost(s) \/ ConfirmManualMapping(s)
                        \/ RecheckRemittance(s)
    \/ RecheckRemittance(Recheck)
    \/ ReceiptOfRun
    \/ \E s \in Sessions : \/ CreateReceipt(s) \/ FinishMapping(s)
                           \/ CommitRow(s) \/ Abort(s)
                           \/ \E i \in Invoices : PostReference(s, i)

Spec == Init /\ [][Next]_vars

-----------------------------------------------------------------------------
(***************************************************************************)
(* Properties                                                              *)
(***************************************************************************)

\* Nothing is mapped before there is a receipt to attach it to: whoever wrote the
\* receipt's status, Oracle holds a reference only for a receipt it holds.
ReceiptFirst == (\E i \in Invoices : posts[i] > 0) => receipts > 0

\* The invoice mapping of a row has an outcome when it was approved, and only if
\* a SPOC decided on the row (the premise on which retries have no gate, hitl/service.py:354).
OutcomeOfDecision ==
    /\ row.hitl = "approved" => row.reference # "none"
    /\ row.reference # "none" => row.hitl # "none"

\* A processed row has every reference of its payload in Oracle.
ProcessedIsPosted ==
    row.reference = "success" =>
        row.payload # {} /\ \A i \in row.payload : posts[i] > 0

\* A rejected row stays rejected and no further reference of it goes to Oracle: no
\* approval, mapping by hand, recheck or receipt of the run takes the decision back.
\* The one way out is the retry of a mapping that had failed before the rejection,
\* which looks at the outcome alone (hitl/service.py:354; RejectedNotPosted).
Rejected(r) == r.hitl = "rejected" /\ r.reference # "success"
RetriesFailed(s) ==
    /\ session[s].op = "retry" /\ session[s].seen.reference = "failed"
    /\ session'[s] # session[s]
RejectStands ==
    [][Rejected(row) => \/ Rejected(row') /\ posts' = posts
                        \/ \E s \in Spocs : RetriesFailed(s)]_vars

\* No invoice is referenced twice for the same row.
ReferencePostedOnce == \A i \in Invoices : posts[i] <= 1

\* A row a SPOC has rejected is not being posted.
RejectedNotPosted ==
    \A s \in Spocs : session[s].stage = "posting" => session[s].seen.hitl # "rejected"

\* A processed row keeps the invoices it was mapped to.
ProcessedKeepsMapping ==
    [][row.reference = "success" => row'.invoices = row.invoices]_vars

\* A row that was mapped by hand is ready for Oracle.
MappedIsReady ==
    [][~row.manual /\ row'.manual => Category(row') = "ready_for_oracle"]_vars

\* A recheck does not take a row out of the wait for a remittance without a result.
RecheckKeepsWaiting == [][row.rule = "R7" => row'.rule # "R8"]_vars

\* A recheck changes no row that a SPOC has mapped, approved or rejected.
RecheckLeavesDecided ==
    [][\A s \in Sessions :
         session[s].op = "recheck" /\ session'[s].op = "idle" /\ row' # row
           => ~row.manual /\ row.hitl = "none"]_vars

\* An approval that passes the version check is of the invoices the SPOC saw.
ApprovedAsSeen ==
    \A s \in Spocs : session[s].op = "approve" /\ session[s].checked
                       => session[s].seen.invoices = view[s].invoices
=============================================================================
