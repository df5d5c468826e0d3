---------------------------- MODULE Hitl_proofs ----------------------------
(***************************************************************************)
(* Facts about Hitl for any number of concurrent requests, any invoices and *)
(* any answers of Oracle.                                                  *)
(***************************************************************************)
EXTENDS Hitl, TLAPS

USE SessionsAssumption, InputAssumption

(***************************************************************************)
(* What a commit writes.                                                   *)
(***************************************************************************)

\* A commit writes a row: each column comes from the copy or is kept.
LEMMA WrittenColumns ==
    ASSUME row \in Row, NEW seen \in Row, NEW now \in Row
    PROVE  /\ Written(seen, now) \in Row
           /\ \A c \in DOMAIN row : Written(seen, now)[c]
                = IF now[c] # seen[c] THEN now[c] ELSE row[c]
<1> DEFINE W == Written(seen, now)
<1>1. DOMAIN row = {"rule", "invoices", "manual", "hitl", "receipt", "reference",
                    "payload", "state", "version"}
  BY DEF Row
<1>2. \A c \in DOMAIN row : W[c] = IF now[c] # seen[c] THEN now[c] ELSE row[c]
  BY DEF Written
<1>3. W = [rule |-> W.rule, invoices |-> W.invoices, manual |-> W.manual,
           hitl |-> W.hitl, receipt |-> W.receipt, reference |-> W.reference,
           payload |-> W.payload, state |-> W.state, version |-> W.version]
  BY <1>1 DEF Written
<1>4. W \in Row
  <2> HIDE DEF W
  <2>1. /\ W.rule \in {now.rule, row.rule}
        /\ W.invoices \in {now.invoices, row.invoices}
        /\ W.manual \in {now.manual, row.manual}
        /\ W.hitl \in {now.hitl, row.hitl}
        /\ W.receipt \in {now.receipt, row.receipt}
        /\ W.reference \in {now.reference, row.reference}
        /\ W.payload \in {now.payload, row.payload}
        /\ W.state \in {now.state, row.state}
        /\ W.version \in {now.version, row.version}
    BY <1>1, <1>2
  <2>2. QED
    BY <2>1, <1>3 DEF Row
<1>5. QED
  BY <1>2, <1>4

\* A new row is a row, and no SPOC has decided on it.
LEMMA NewRowsTyped ==
    /\ NewRows \subseteq Row
    /\ IdleSession \in Session
    /\ \A r \in NewRows : /\ r.hitl = "none" /\ r.reference = "none"
                          /\ r.receipt = "none" /\ r.version = 0
<1>1. \A rule \in {"R7", "R8", "R9", "conflict"}, inv \in SUBSET Invoices,
         st \in {"unidentified", "review_approve"} : FreshRow(rule, inv, st) \in Row
  BY DEF FreshRow, Row, Outcomes
<1>2. \A e \in Evaluations(Invoices) : /\ e.rule \in {"R7", "R8", "R9", "conflict"}
                                       /\ e.invoices \in SUBSET Invoices
                                       /\ e.state \in {"unidentified", "review_approve"}
  BY DEF Evaluations
<1>3. NewRows \subseteq Row
  BY <1>1, <1>2 DEF NewRows
<1>4. IdleSession \in Session
  BY <1>1 DEF IdleSession, Session
<1>5. QED
  BY <1>3, <1>4 DEF NewRows, FreshRow

(***************************************************************************)
(* The inductive invariant.  A copy that is ready to commit carries a       *)
(* complete decision; what a copy was read with is still true of the row    *)
(* where it matters, for decisions and outcomes are never reset; and a      *)
(* receipt is known as created only if Oracle holds one.                    *)
(***************************************************************************)
Decided(r) == /\ r.hitl = "approved" => r.reference # "none"
              /\ r.reference # "none" => r.hitl # "none"
AtOracle(s) == session[s].stage \in {"creating", "posting"}

Versions ==
    /\ row.version <= requests
    /\ \A s \in Sessions :
         /\ session[s].seen.version <= requests
         /\ session[s].now.version <= requests
         /\ AtOracle(s) => session[s].now.version = session[s].seen.version
         /\ AtOracle(s) /\ session[s].op # "receipt" => session[s].seen.version < requests

Decisions ==
    /\ Decided(row)
    /\ \A s \in Sessions :
         /\ session[s].seen.reference # "none" => row.reference # "none"
         /\ session[s].seen.hitl # "none" => row.hitl # "none"
         /\ session[s].now.hitl = "none" => session[s].seen.hitl = "none"
         /\ session[s].now.reference = "none" => session[s].seen.reference = "none"
         /\ session[s].op = "receipt" => Decided(session[s].now)
         /\ AtOracle(s) /\ session[s].op # "receipt" => session[s].now.hitl # "none"
         /\ session[s].stage = "posting" => session[s].op # "receipt"
         /\ session[s].stage = "commit" => Decided(session[s].now)

Receipts ==
    /\ row.receipt = "success" => receipts > 0
    /\ \A s \in Sessions :
         /\ session[s].now.receipt = "success" => receipts > 0
         /\ session[s].stage = "posting" => receipts > 0
    /\ ReceiptFirst

HInv == TypeOK /\ Versions /\ Decisions /\ Receipts

\* The invariant holds of every row a run hands to the review.
LEMMA Initially == Init => HInv
<1> SUFFICES ASSUME Init PROVE HInv
  OBVIOUS
<1>1. row \in Row /\ row.hitl = "none" /\ row.reference = "none"
      /\ row.receipt = "none" /\ row.version = 0
  BY NewRowsTyped DEF Init
<1>2. row.invoices \in SUBSET Invoices
  BY <1>1 DEF Row
<1>3. TypeOK
  BY <1>1, <1>2, NewRowsTyped DEF Init, TypeOK
<1>4. Versions /\ Decisions /\ Receipts
  BY <1>1 DEF Init, Versions, Decisions, Receipts, Decided, AtOracle, ReceiptFirst,
              IdleSession, FreshRow
<1>5. QED
  BY <1>3, <1>4 DEF HInv

\* A request that begins with a sound copy of the row keeps the invariant.
LEMMA BeginKeeps ==
    ASSUME HInv,
           NEW s \in Sessions, NEW op \in Operations \ {"abort"},
           NEW stage \in {"creating", "posting", "commit"}, NEW checked \in BOOLEAN,
           NEW now, NEW todo \in SUBSET Invoices,
           Begin(s, op, stage, checked, now, todo),
           requests < MaxRequests => now \in Row,
           now.version <= requests + 1,
           stage # "commit" => now.version = row.version /\ now.hitl # "none",
           stage = "commit" => Decided(now),
           now.hitl = "none" => row.hitl = "none",
           now.reference = "none" => row.reference = "none",
           now.receipt = row.receipt,
           stage = "posting" => row.receipt = "success"
    PROVE  HInv'
<1> DEFINE new == [op |-> op, stage |-> stage, checked |-> checked, seen |-> row,
                   now |-> now, todo |-> todo, bad |-> FALSE]
<1>1. /\ session' = [session EXCEPT ![s] = new]
      /\ requests < MaxRequests /\ requests' = requests + 1
      /\ UNCHANGED <<row, view, unposted, receipts, posts>>
  BY DEF Begin
<1>2. now \in Row /\ row \in Row /\ requests \in Nat /\ receipts \in Nat
  BY <1>1 DEF HInv, TypeOK
<1>3. new \in Session
  BY <1>2 DEF Session
<1>4. session' \in [Sessions -> Session]
  BY <1>1, <1>3 DEF HInv, TypeOK
<1>5. requests' \in 0 .. MaxRequests
  BY <1>1, <1>2
<1>6. TypeOK'
  BY <1>1, <1>4, <1>5 DEF HInv, TypeOK
<1>7. \A t \in Sessions : session'[t] = IF t = s THEN new ELSE session[t]
  BY <1>1 DEF HInv, TypeOK
<1>8. \A t \in Sessions : session[t].seen.version \in Int /\ session[t].now.version \in Int
  BY DEF HInv, TypeOK, Session, Row
<1>9. row.version \in Int /\ now.version \in Int
  BY <1>2 DEF Row
<1> HIDE DEF new
<1>10. /\ new.seen = row /\ new.now = now /\ new.op = op /\ new.stage = stage
  BY DEF new
<1>11. Versions'
  <2>1. row'.version <= requests'
    BY <1>1, <1>2, <1>9 DEF HInv, Versions
  <2> SUFFICES ASSUME NEW t \in Sessions
               PROVE  /\ session'[t].seen.version <= requests'
                      /\ session'[t].now.version <= requests'
                      /\ AtOracle(t)' => session'[t].now.version = session'[t].seen.version
                      /\ AtOracle(t)' /\ session'[t].op # "receipt"
                           => session'[t].seen.version < requests'
    BY <2>1 DEF Versions
  <2>2. CASE t = s
    BY <2>2, <1>1, <1>2, <1>7, <1>9, <1>10 DEF HInv, Versions, AtOracle
  <2>3. CASE t # s
    BY <2>3, <1>1, <1>2, <1>7, <1>8 DEF HInv, Versions, AtOracle
  <2>4. QED
    BY <2>2, <2>3
<1>12. Decisions'
  BY <1>1, <1>7, <1>10 DEF HInv, Decisions, Decided, AtOracle
<1>13. Receipts'
  BY <1>1, <1>7, <1>10 DEF HInv, Receipts, ReceiptFirst
<1>14. QED
  BY <1>6, <1>11, <1>12, <1>13 DEF HInv

\* A step that changes the copy of one session keeps the types of all.
LEMMA CopyTyped ==
    ASSUME TypeOK, NEW s \in Sessions, NEW new \in Session,
           session' = [session EXCEPT ![s] = new]
    PROVE  /\ session' \in [Sessions -> Session]
           /\ \A t \in Sessions : session'[t] = IF t = s THEN new ELSE session[t]
  BY DEF TypeOK

\* What the mapping of a row to its references leaves in the copy.
LEMMA ResultTyped ==
    ASSUME NEW s \in Sessions, NEW now \in Row, NEW ok \in BOOLEAN,
           session[s].op = "approve" => now.version < MaxRequests
    PROVE  /\ MappingResult(s, now, ok) \in Row
           /\ MappingResult(s, now, ok).reference = IF ok THEN "success" ELSE "failed"
           /\ MappingResult(s, now, ok).hitl = now.hitl
           /\ MappingResult(s, now, ok).receipt = now.receipt
           /\ MappingResult(s, now, ok).version
                = IF session[s].op = "approve" THEN now.version + 1 ELSE now.version
<1> DEFINE m == MappingResult(s, now, ok)
<1>1. now.version \in 0 .. MaxRequests
  BY DEF Row
<1>2. session[s].op = "approve" => now.version + 1 \in 0 .. MaxRequests
  BY <1>1
<1>3. /\ m.reference = IF ok THEN "success" ELSE "failed"
      /\ m.state = IF ok THEN "processed" ELSE "post_failed"
      /\ m.hitl = now.hitl /\ m.receipt = now.receipt
      /\ m.version = IF session[s].op = "approve" THEN now.version + 1 ELSE now.version
  BY DEF MappingResult, Row
<1>4. m \in Row
  BY <1>2 DEF MappingResult, Row, Outcomes
<1>5. QED
  BY <1>3, <1>4

\* The answer to a receipt request: known as created only if accepted.
LEMMA CreateReceiptKeeps ==
    ASSUME HInv, NEW s \in Sessions, CreateReceipt(s)
    PROVE  HInv'
<1>1. PICK answer \in Answers :
        LET ok  == answer = "created"
            now == [session[s].now EXCEPT !.receipt = IF ok THEN "success" ELSE "failed"]
        IN
        /\ receipts' = IF Accepted(answer) THEN receipts + 1 ELSE receipts
        /\ session' = [session EXCEPT
             ![s].stage = IF ok /\ session[s].op # "receipt" THEN "posting" ELSE "commit",
             ![s].now = IF session[s].op = "receipt" THEN now
                        ELSE IF ok THEN Mapping(now, session[s].todo)
                        ELSE MappingResult(s, now, FALSE)]
  BY DEF CreateReceipt
<1>2. /\ session[s].stage = "creating"
      /\ UNCHANGED <<row, view, unposted, posts, requests>>
  BY DEF CreateReceipt
<1> DEFINE ok == answer = "created"
           old == session[s]
           got == [old.now EXCEPT !.receipt = IF ok THEN "success" ELSE "failed"]
           now == IF old.op = "receipt" THEN got
                  ELSE IF ok THEN [got EXCEPT !.payload = old.todo]
                  ELSE MappingResult(s, got, FALSE)
           stage == IF ok /\ old.op # "receipt" THEN "posting" ELSE "commit"
           new == [old EXCEPT !.stage = stage, !.now = now]
<1>3. /\ row \in Row /\ old \in Session /\ old.now \in Row /\ old.seen \in Row
      /\ requests \in 0 .. MaxRequests /\ receipts \in Nat
  BY DEF HInv, TypeOK, Session
<1>4. /\ got \in Row /\ got.hitl = old.now.hitl /\ got.reference = old.now.reference
      /\ got.version = old.now.version
      /\ got.receipt = IF ok THEN "success" ELSE "failed"
  BY <1>3 DEF Row, Outcomes
<1>5. /\ old.now.version = old.seen.version
      /\ old.op # "receipt" => old.seen.version < requests
      /\ old.now.version <= requests
  BY <1>2 DEF HInv, Versions, AtOracle
<1>6. old.now.version \in Int /\ old.seen.version \in Int
  BY <1>3 DEF Row
<1> HIDE DEF got
<1>7. /\ now \in Row /\ now.hitl = old.now.hitl
      /\ now.receipt = got.receipt
      /\ now.version <= requests
      /\ stage = "posting" => now.version = old.seen.version
      /\ old.now.reference # "none" => now.reference # "none"
      /\ stage = "commit" /\ old.op # "receipt" => now.reference # "none"
      /\ old.op = "receipt" => now.reference = old.now.reference
  <2>1. CASE old.op = "receipt"
    BY <2>1, <1>4, <1>5
  <2>2. CASE old.op # "receipt" /\ ok
    <3>1. now = [got EXCEPT !.payload = old.todo]
      BY <2>2
    <3>2. old.todo \in SUBSET Invoices
      BY <1>3 DEF Session
    <3>3. /\ now \in Row /\ now.hitl = got.hitl /\ now.receipt = got.receipt
          /\ now.version = got.version /\ now.reference = got.reference
      BY <3>1, <3>2, <1>4 DEF Row
    <3>4. QED
      BY <2>2, <3>3, <1>4, <1>5
  <2>3. CASE old.op # "receipt" /\ ~ok
    <3>1. now = MappingResult(s, got, FALSE)
      BY <2>3
    <3>2. got.version < MaxRequests
      BY <2>3, <1>3, <1>4, <1>5, <1>6
    <3>3. stage = "commit"
      BY <2>3
    <3> HIDE DEF now, stage
    <3>4. /\ now \in Row /\ now.reference = "failed"
          /\ now.hitl = got.hitl /\ now.receipt = got.receipt
          /\ now.version = got.version \/ now.version = got.version + 1
      BY ZenonT(40), <3>1, <3>2, <1>4, ResultTyped
    <3>5. now.version <= requests
      BY <2>3, <3>4, <1>3, <1>4, <1>5, <1>6
    <3>6. QED
      BY <2>3, <3>3, <3>4, <3>5, <1>4
  <2>4. QED
    BY <2>1, <2>2, <2>3
<1>8. session' = [session EXCEPT ![s] = new]
  <2>1. ok /\ old.op # "receipt" => Mapping(got, old.todo) = [got EXCEPT !.payload = old.todo]
    BY <1>4 DEF Mapping
  <2>2. session' = [session EXCEPT ![s].stage = stage, ![s].now = now]
    BY <1>1, <2>1 DEF got
  <2> HIDE DEF now, stage
  <2>3. QED
    BY <2>2, <1>3 DEF HInv, TypeOK
<1> HIDE DEF now
<1>9. new \in Session
  BY <1>3, <1>7 DEF Session
<1>10. /\ new.seen = old.seen /\ new.now = now /\ new.op = old.op /\ new.stage = stage
  BY <1>3 DEF Session
<1> HIDE DEF new
<1>11. /\ session' \in [Sessions -> Session]
       /\ \A t \in Sessions : session'[t] = IF t = s THEN new ELSE session[t]
  BY <1>8, <1>9, CopyTyped DEF HInv
<1>12. receipts' \in Nat /\ receipts' >= receipts /\ (ok => receipts' > 0)
  BY <1>1, <1>3 DEF Accepted
<1>13. TypeOK'
  BY <1>2, <1>11, <1>12 DEF HInv, TypeOK
<1>14. Versions'
  BY <1>2, <1>5, <1>7, <1>10, <1>11 DEF HInv, Versions, AtOracle
<1>15. Decisions'
  BY <1>2, <1>7, <1>10, <1>11 DEF HInv, Decisions, Decided, AtOracle
<1>16. Receipts'
  <2>1. ok \/ got.receipt # "success"
    BY <1>4
  <2>2. receipts > 0 => receipts' > 0
    BY <1>3, <1>12
  <2>3. QED
    BY <2>1, <2>2, <1>2, <1>7, <1>10, <1>11, <1>12 DEF HInv, Receipts, ReceiptFirst
<1>17. QED
  BY <1>13, <1>14, <1>15, <1>16 DEF HInv

\* The commit of a copy: columns it did not change keep what others wrote.
LEMMA CommitKeeps ==
    ASSUME HInv, NEW s \in Sessions, CommitRow(s)
    PROVE  HInv'
<1> DEFINE seen == session[s].seen
           now  == session[s].now
<1>1. /\ session[s].stage = "commit"
      /\ row' = Written(seen, now)
      /\ session' = [session EXCEPT ![s] = IdleSession]
      /\ UNCHANGED <<view, unposted, receipts, posts, requests>>
  BY DEF CommitRow
<1>2. row \in Row /\ seen \in Row /\ now \in Row /\ requests \in Nat
  BY DEF HInv, TypeOK, Session
<1> HIDE DEF seen, now
<1>3. /\ row' \in Row
      /\ row'.hitl = IF now.hitl # seen.hitl THEN now.hitl ELSE row.hitl
      /\ row'.reference = IF now.reference # seen.reference THEN now.reference
                                                            ELSE row.reference
      /\ row'.receipt = IF now.receipt # seen.receipt THEN now.receipt ELSE row.receipt
      /\ row'.version = IF now.version # seen.version THEN now.version ELSE row.version
  <2>1. {"hitl", "reference", "receipt", "version"} \subseteq DOMAIN row
    BY <1>2 DEF Row
  <2>2. QED
    BY <1>1, <1>2, <2>1, WrittenColumns
<1>4. /\ session' \in [Sessions -> Session]
      /\ \A t \in Sessions : session'[t] = IF t = s THEN IdleSession ELSE session[t]
  BY <1>1, NewRowsTyped, CopyTyped DEF HInv
<1>5. /\ IdleSession.seen.version = 0 /\ IdleSession.now.version = 0
      /\ IdleSession.stage = "idle" /\ IdleSession.op = "idle"
      /\ IdleSession.seen.hitl = "none" /\ IdleSession.seen.reference = "none"
      /\ IdleSession.now.hitl = "none" /\ IdleSession.now.reference = "none"
      /\ IdleSession.now.receipt = "none"
  BY DEF IdleSession, FreshRow
<1>6. TypeOK'
  BY <1>1, <1>3, <1>4 DEF HInv, TypeOK
<1>7. Versions'
  <2>1. row'.version <= requests'
    BY <1>1, <1>3 DEF HInv, Versions, now
  <2>2. QED
    BY <2>1, <1>1, <1>2, <1>4, <1>5 DEF HInv, Versions, AtOracle
<1>8. Decisions'
  <2>1. /\ Decided(row) /\ Decided(now)
        /\ seen.reference # "none" => row.reference # "none"
        /\ seen.hitl # "none" => row.hitl # "none"
        /\ now.hitl = "none" => seen.hitl = "none"
        /\ now.reference = "none" => seen.reference = "none"
    BY <1>1 DEF HInv, Decisions, seen, now
  <2>2. /\ row.hitl # "none" => row'.hitl # "none"
        /\ row.reference # "none" => row'.reference # "none"
    BY <2>1, <1>3
  <2>3. Decided(row')
    BY <2>1, <1>3 DEF Decided
  <2>4. QED
    BY <2>2, <2>3, <1>4, <1>5 DEF HInv, Decisions, Decided, AtOracle
<1>9. Receipts'
  <2>1. row'.receipt = "success" => receipts > 0
    BY <1>3 DEF HInv, Receipts, now
  <2>2. QED
    BY <2>1, <1>1, <1>4, <1>5 DEF HInv, Receipts, ReceiptFirst
<1>10. QED
  BY <1>6, <1>7, <1>8, <1>9 DEF HInv

\* Every step of a request, of the recheck and of the run keeps the invariant.
LEMMA StepKeeps == HInv /\ [Next]_vars => HInv'
<1> SUFFICES ASSUME HInv, [Next]_vars PROVE HInv'
  OBVIOUS
<1> USE DEF Sessions
<1>1. /\ row \in Row /\ requests \in Nat /\ receipts \in Nat /\ row.version \in Nat
      /\ row.version <= requests /\ Decided(row)
      /\ row.receipt = "success" => receipts > 0
      /\ view \in [Spocs -> [version : 0 .. MaxRequests, invoices : SUBSET Invoices]]
      /\ row.invoices \in SUBSET Invoices
  BY DEF HInv, TypeOK, Versions, Decisions, Receipts, Row
<1>2. ASSUME NEW s \in Spocs, Look(s) PROVE HInv'
  BY <1>2, <1>1 DEF Look, HInv, TypeOK, Row, Versions, Decisions, Decided, Receipts,
                    ReceiptFirst, AtOracle
<1>3. ASSUME NEW s \in Spocs, ApproveRow(s) PROVE HInv'
  <2>1. PICK checked \in Callers, breakup \in {{}, view[s].invoices} :
          LET refs == IF breakup = {} THEN row.invoices ELSE breakup IN
          /\ Category(row) = "ready_for_oracle"
          /\ Begin(s, "approve", FirstStage(row), checked,
                   Mapping([row EXCEPT !.hitl = "approved"], refs), refs)
    BY <1>3 DEF ApproveRow
  <2> DEFINE refs == IF breakup = {} THEN row.invoices ELSE breakup
             now == Mapping([row EXCEPT !.hitl = "approved"], refs)
  <2>2. refs \in SUBSET Invoices /\ checked \in BOOLEAN
    BY <1>1
  <2>3. /\ now \in Row /\ now.hitl = "approved" /\ now.reference = row.reference
        /\ now.receipt = row.receipt /\ now.version = row.version
    BY <1>1, <2>2 DEF Mapping, Row
  <2>4. /\ FirstStage(row) \in {"creating", "posting"}
        /\ FirstStage(row) = "posting" => row.receipt = "success"
    BY DEF FirstStage
  <2>5. Begin(s, "approve", FirstStage(row), checked, now, refs) /\ "approve" \in Operations
    BY <2>1 DEF Begin
  <2> HIDE DEF refs, now
  <2>6. QED
    BY <1>1, <2>2, <2>3, <2>4, <2>5, BeginKeeps
<1>4. ASSUME NEW s \in Spocs, RejectRow(s) PROVE HInv'
  <2> DEFINE now == [row EXCEPT !.hitl = "rejected", !.state = "rejected",
                                !.version = @ + 1]
  <2>1. PICK checked \in Callers : Begin(s, "reject", "commit", checked, now, {})
    BY <1>4 DEF RejectRow
  <2>2. /\ now.hitl = "rejected" /\ now.reference = row.reference
        /\ now.receipt = row.receipt /\ now.version = row.version + 1
    BY <1>1 DEF Row
  <2>3. requests < MaxRequests => now \in Row
    <3> SUFFICES ASSUME requests < MaxRequests PROVE now \in Row
      OBVIOUS
    <3>1. row.version + 1 \in 0 .. MaxRequests
      BY <1>1
    <3>2. QED
      BY <3>1, <1>1 DEF Row
  <2>4. "reject" \in Operations
    BY <2>1 DEF Begin
  <2> HIDE DEF now
  <2>5. Decided(now) /\ now.version <= requests + 1
    BY <1>1, <2>2 DEF Decided
  <2>6. QED
    BY <1>1, <2>1, <2>2, <2>3, <2>4, <2>5, BeginKeeps
<1>5. ASSUME NEW s \in Spocs, RetryOraclePost(s) PROVE HInv'
  <2> DEFINE now == Mapping(row, row.invoices)
  <2>1. /\ row.reference = "failed"
        /\ Begin(s, "retry", FirstStage(row), FALSE, now, row.invoices)
    BY <1>5 DEF RetryOraclePost
  <2>2. /\ now \in Row /\ now.hitl = row.hitl /\ now.reference = row.reference
        /\ now.receipt = row.receipt /\ now.version = row.version
    BY <1>1 DEF Mapping, Row
  <2>3. /\ FirstStage(row) \in {"creating", "posting"}
        /\ FirstStage(row) = "posting" => row.receipt = "success"
    BY DEF FirstStage
  <2>4. "retry" \in Operations
    BY <2>1 DEF Begin
  <2> HIDE DEF now
  <2>5. now.hitl # "none" /\ now.version <= requests + 1
    BY <1>1, <2>1, <2>2 DEF Decided
  <2>6. Begin(s, "retry", FirstStage(row), FALSE, now, row.invoices)
    BY <2>1
  <2>7. s \in Sessions /\ "retry" \in Operations \ {"abort"} /\ FALSE \in BOOLEAN
        /\ row.invoices \in SUBSET Invoices
    BY <1>1, <2>4
  <2> DEFINE first == FirstStage(row)
  <2> HIDE DEF first
  <2>8. /\ first \in {"creating", "posting", "commit"} /\ first # "commit"
        /\ first = "posting" => row.receipt = "success"
        /\ Begin(s, "retry", first, FALSE, now, row.invoices)
    BY <2>3, <2>6 DEF first
  <2>9. /\ requests < MaxRequests => now \in Row
        /\ now.version <= requests + 1
        /\ first # "commit" => now.version = row.version /\ now.hitl # "none"
        /\ first = "commit" => Decided(now)
        /\ now.hitl = "none" => row.hitl = "none"
        /\ now.reference = "none" => row.reference = "none"
        /\ now.receipt = row.receipt
    BY <2>2, <2>5, <2>8
  <2>10. QED
    BY ZenonT(40), <2>7, <2>8, <2>9, BeginKeeps
<1>6. ASSUME NEW s \in Spocs, ConfirmManualMapping(s) PROVE HInv'
  <2>1. PICK picked \in (SUBSET Invoices) \ {{}} :
          Begin(s, "map", "commit", FALSE,
                [row EXCEPT !.invoices = picked, !.rule = "R9", !.manual = TRUE,
                            !.state = "review_approve"], {})
    BY <1>6 DEF ConfirmManualMapping
  <2> DEFINE now == [row EXCEPT !.invoices = picked, !.rule = "R9", !.manual = TRUE,
                                !.state = "review_approve"]
  <2>2. /\ now \in Row /\ now.hitl = row.hitl /\ now.reference = row.reference
        /\ now.receipt = row.receipt /\ now.version = row.version
    BY <1>1 DEF Row
  <2>3. "map" \in Operations /\ Begin(s, "map", "commit", FALSE, now, {})
    BY <2>1 DEF Begin
  <2> HIDE DEF now
  <2>4. Decided(now) /\ now.version <= requests + 1
    BY <1>1, <2>2 DEF Decided
  <2>5. QED
    BY <1>1, <2>2, <2>3, <2>4, BeginKeeps
<1>7. ASSUME NEW s \in Sessions, RecheckRemittance(s) PROVE HInv'
  <2>1. PICK listed \in SUBSET Invoices : \E e \in Evaluations(listed) :
          Begin(s, "recheck", "commit", FALSE,
                [row EXCEPT !.rule = e.rule, !.invoices = e.invoices, !.state = e.state],
                {})
    BY <1>7 DEF RecheckRemittance
  <2>2. PICK e \in Evaluations(listed) :
          Begin(s, "recheck", "commit", FALSE,
                [row EXCEPT !.rule = e.rule, !.invoices = e.invoices, !.state = e.state],
                {})
    BY <2>1
  <2> DEFINE now == [row EXCEPT !.rule = e.rule, !.invoices = e.invoices,
                                !.state = e.state]
  <2>3. /\ e.rule \in {"R7", "R8", "R9", "conflict"} /\ e.invoices \in SUBSET Invoices
        /\ e.state \in {"unidentified", "review_approve"}
    BY DEF Evaluations
  <2>4. /\ now \in Row /\ now.hitl = row.hitl /\ now.reference = row.reference
        /\ now.receipt = row.receipt /\ now.version = row.version
    BY <1>1, <2>3 DEF Row
  <2>5. "recheck" \in Operations /\ Begin(s, "recheck", "commit", FALSE, now, {})
    BY <2>2 DEF Begin
  <2> HIDE DEF now
  <2>6. Decided(now) /\ now.version <= requests + 1
    BY <1>1, <2>4 DEF Decided
  <2>7. QED
    BY <1>1, <2>4, <2>5, <2>6, BeginKeeps
<1>8. ASSUME ReceiptOfRun PROVE HInv'
  <2> DEFINE new == [op |-> "receipt", stage |-> "creating", checked |-> FALSE,
                     seen |-> row, now |-> row, todo |-> {}, bad |-> FALSE]
  <2>1. /\ session' = [session EXCEPT ![Step45] = new]
        /\ unposted' = FALSE /\ UNCHANGED <<row, view, receipts, posts, requests>>
    BY <1>8 DEF ReceiptOfRun
  <2>2. new \in Session
    BY <1>1 DEF Session
  <2>3. /\ new.seen = row /\ new.now = row /\ new.op = "receipt"
        /\ new.stage = "creating"
    OBVIOUS
  <2> HIDE DEF new
  <2>4. /\ session' \in [Sessions -> Session]
        /\ \A t \in Sessions : session'[t] = IF t = Step45 THEN new ELSE session[t]
    BY <2>1, <2>2, CopyTyped DEF HInv
  <2>5. TypeOK'
    BY <2>1, <2>4 DEF HInv, TypeOK
  <2>6. Versions' /\ Decisions' /\ Receipts'
    BY <1>1, <2>1, <2>3, <2>4 DEF HInv, Versions, Decisions, Decided, Receipts,
                                  ReceiptFirst, AtOracle
  <2>7. QED
    BY <2>5, <2>6 DEF HInv
<1>9. ASSUME NEW s \in Sessions, FinishMapping(s) PROVE HInv'
  <2> DEFINE old == session[s]
             m == MappingResult(s, old.now, ~old.bad)
             new == [old EXCEPT !.stage = "commit", !.now = m]
  <2>1. /\ old.stage = "posting"
        /\ session' = [session EXCEPT ![s].stage = "commit", ![s].now = m]
        /\ UNCHANGED <<row, view, unposted, receipts, posts, requests>>
    BY <1>9 DEF FinishMapping
  <2>2. old \in Session /\ old.now \in Row /\ (~old.bad) \in BOOLEAN /\ old.seen \in Row
    BY DEF HInv, TypeOK, Session
  <2>3. /\ old.now.version = old.seen.version
        /\ old.op # "receipt" => old.seen.version < requests /\ old.now.hitl # "none"
        /\ old.now.version <= requests
        /\ old.op = "receipt" => Decided(old.now)
        /\ old.now.reference = "none" => old.seen.reference = "none"
        /\ old.now.hitl = "none" => old.seen.hitl = "none"
        /\ receipts > 0
    BY <2>1 DEF HInv, Versions, Decisions, Receipts, AtOracle
  <2>4. requests <= MaxRequests /\ old.now.version \in Int /\ old.seen.version \in Int
    BY <1>1, <2>2 DEF HInv, TypeOK, Row
  <2>5. old.op = "approve" => old.now.version < MaxRequests
    BY <1>1, <2>3, <2>4
  <2>6. /\ m \in Row /\ m.reference \in {"success", "failed"}
        /\ m.hitl = old.now.hitl
        /\ m.version = IF old.op = "approve" THEN old.now.version + 1 ELSE old.now.version
    <3>1. \A ok \in BOOLEAN :
            LET n == MappingResult(s, old.now, ok) IN
            /\ n \in Row /\ n.reference = IF ok THEN "success" ELSE "failed"
            /\ n.hitl = old.now.hitl
            /\ n.version = IF old.op = "approve" THEN old.now.version + 1
                                               ELSE old.now.version
      BY <2>2, <2>5, ResultTyped
    <3>2. QED
      BY <3>1, <2>2, Zenon
  <2> HIDE DEF m
  <2>7. session' = [session EXCEPT ![s] = new]
    BY <2>1, <2>2 DEF HInv, TypeOK
  <2>8. new \in Session
    BY <2>2, <2>6 DEF Session
  <2>9. new.seen = old.seen /\ new.now = m /\ new.op = old.op /\ new.stage = "commit"
    BY <2>2 DEF Session
  <2> HIDE DEF new
  <2>10. /\ session' \in [Sessions -> Session]
         /\ \A t \in Sessions : session'[t] = IF t = s THEN new ELSE session[t]
    BY <2>7, <2>8, CopyTyped DEF HInv
  <2>11. TypeOK'
    BY <2>1, <2>10 DEF HInv, TypeOK
  <2>12. m.version <= requests
    BY <1>1, <2>3, <2>4, <2>6
  <2>13. old.op # "receipt" /\ m.hitl # "none"
    BY <2>1, <2>3, <2>6 DEF HInv, Decisions
  <2>14. Versions'
    BY <2>1, <2>9, <2>10, <2>12 DEF HInv, Versions, AtOracle
  <2>15. Decisions'
    BY SMTT(20), <2>1, <2>3, <2>6, <2>9, <2>10, <2>13 DEF HInv, Decisions, Decided, AtOracle
  <2>16. Receipts'
    BY <2>1, <2>3, <2>9, <2>10 DEF HInv, Receipts, ReceiptFirst
  <2>17. QED
    BY <2>11, <2>14, <2>15, <2>16 DEF HInv
<1>10. ASSUME NEW s \in Sessions, Abort(s) PROVE HInv'
  <2>1. /\ session' = [session EXCEPT ![s] = IdleSession]
        /\ UNCHANGED <<row, view, unposted, receipts, posts, requests>>
    BY <1>10 DEF Abort
  <2>2. /\ session' \in [Sessions -> Session]
        /\ \A t \in Sessions : session'[t] = IF t = s THEN IdleSession ELSE session[t]
    BY <2>1, NewRowsTyped, CopyTyped DEF HInv
  <2>3. TypeOK'
    BY <2>1, <2>2 DEF HInv, TypeOK
  <2>4. Versions' /\ Decisions' /\ Receipts'
    BY <1>1, <2>1, <2>2 DEF HInv, Versions, Decisions, Decided, Receipts, ReceiptFirst,
                            AtOracle, IdleSession, FreshRow
  <2>5. QED
    BY <2>3, <2>4 DEF HInv
<1>11. ASSUME NEW s \in Sessions, NEW i \in Invoices, PostReference(s, i) PROVE HInv'
  <2>1. PICK answer \in Answers :
          /\ posts' = IF Accepted(answer) THEN [posts EXCEPT ![i] = @ + 1] ELSE posts
          /\ session' = [session EXCEPT ![s].todo = @ \ {i},
                                        ![s].bad = @ \/ answer # "created"]
    BY <1>11 DEF PostReference
  <2>2. session[s].stage = "posting" /\ UNCHANGED <<row, view, unposted, receipts, requests>>
    BY <1>11 DEF PostReference
  <2> DEFINE old == session[s]
             new == [old EXCEPT !.todo = @ \ {i}, !.bad = @ \/ answer # "created"]
  <2>3. old \in Session
    BY DEF HInv, TypeOK
  <2>4. /\ new.seen = old.seen /\ new.now = old.now /\ new.op = old.op
        /\ new.stage = old.stage /\ new \in Session
    BY <2>3 DEF Session
  <2>5. session' = [session EXCEPT ![s] = new]
    BY <2>1, <2>3 DEF HInv, TypeOK
  <2> HIDE DEF new
  <2>6. /\ session' \in [Sessions -> Session]
        /\ \A t \in Sessions : session'[t] = IF t = s THEN new ELSE session[t]
    BY <2>4, <2>5, CopyTyped DEF HInv
  <2>7. posts' \in [Invoices -> Nat]
    BY <2>1 DEF HInv, TypeOK
  <2>8. TypeOK'
    BY <2>2, <2>6, <2>7 DEF HInv, TypeOK
  <2>9. receipts > 0
    BY <2>2 DEF HInv, Receipts
  <2>10. Versions' /\ Decisions'
    BY <2>2, <2>4, <2>6 DEF HInv, Versions, Decisions, Decided, AtOracle
  <2>11. Receipts'
    BY <2>2, <2>4, <2>6, <2>9 DEF HInv, Receipts, ReceiptFirst
  <2>12. QED
    BY <2>8, <2>10, <2>11 DEF HInv
<1>12. CASE UNCHANGED vars
  BY <1>12 DEF vars, HInv, TypeOK, Versions, Decisions, Decided, Receipts, ReceiptFirst,
               AtOracle
<1>13. QED
  BY <1>2, <1>3, <1>4, <1>5, <1>6, <1>7, <1>8, <1>9, <1>10, <1>11, <1>12,
     CreateReceiptKeeps, CommitKeeps DEF Next

\* The invariant holds at all times.
LEMMA Invariance == Spec => []HInv
  BY Initially, StepKeeps, PTL DEF Spec

\* The row and every copy of it stay well-formed, and the version is never above
\* the number of requests, for any number of SPOCs, invoices and requests.
THEOREM HitlTypeCorrect == Spec => []TypeOK
<1>1. HInv => TypeOK
  BY DEF HInv
<1>2. QED
  BY <1>1, Invariance, PTL

\* However many requests overwrite each other's columns, an approved row has the
\* outcome of its mapping, and only decided rows have one: the premise on which
\* retry_oracle_post leaves out the category gate.
THEOREM OutcomeOfDecisionAlways == Spec => []OutcomeOfDecision
<1>1. HInv => OutcomeOfDecision
  BY DEF HInv, Decisions, Decided, OutcomeOfDecision
<1>2. QED
  BY <1>1, Invariance, PTL

\* Oracle is never sent a reference for a row it has no receipt of, whichever of
\* the run, an approval or a retry creates the receipt, and whatever is lost.
THEOREM ReceiptFirstAlways == Spec => []ReceiptFirst
<1>1. HInv => ReceiptFirst
  BY DEF HInv, Receipts
<1>2. QED
  BY <1>1, Invariance, PTL

(***************************************************************************)
(* What there is to post.  R9 comes with invoices, and invoices that are    *)
(* there stay: only a row that waits for its remittance (R7) has none to    *)
(* lose, and no commit makes a row wait again.                              *)
(***************************************************************************)
Open(c) == c.stage # "idle"
ToPost(c) == c.stage \in {"creating", "posting"} /\ c.op # "receipt"

RowMatched(r) == /\ r.rule = "R7" => r.invoices = {}
                 /\ r.rule = "R9" => r.invoices # {}
                 /\ r.reference # "none" => r.invoices # {}
CopyMatched(c, r) ==
    /\ r.rule = "R7" => c.seen.rule = "R7"
    /\ c.now.rule = "R7" => c.seen.rule = "R7" /\ c.now.invoices = {}
    /\ c.now.rule = "R9" => c.now.invoices # {}
    /\ c.seen.rule = "R7" => c.seen.invoices = {}
    /\ c.now.invoices = {} => c.seen.invoices = {}
    /\ c.seen.invoices # {} => r.invoices # {}
    /\ c.now.reference # "none" => r.invoices # {}
    /\ ToPost(c) => r.invoices # {}
Matched == /\ RowMatched(row)
           /\ \A s \in Sessions : Open(session[s]) => CopyMatched(session[s], row)

\* A step that leaves the row alone and changes one copy keeps what the others match.
LEMMA OneCopy ==
    ASSUME TypeOK, Matched, NEW s \in Sessions, NEW new,
           session' = [session EXCEPT ![s] = new], UNCHANGED row,
           Open(new) => CopyMatched(new, row)
    PROVE  Matched'
<1>1. \A t \in Sessions : session'[t] = IF t = s THEN new ELSE session[t]
  BY DEF TypeOK
<1>2. ASSUME NEW t \in Sessions, Open(session'[t]) PROVE CopyMatched(session'[t], row)
  <2>1. CASE t = s
    BY <1>1, <1>2, <2>1
  <2>2. CASE t # s
    BY <1>1, <1>2, <2>2 DEF Matched
  <2>3. QED
    BY <2>1, <2>2
<1>3. QED
  BY <1>2 DEF Matched

\* A request that begins.
LEMMA BeginMatched ==
    ASSUME TypeOK, Matched, NEW s \in Sessions, NEW op, NEW stage, NEW checked, NEW now, NEW todo,
           Begin(s, op, stage, checked, now, todo),
           now.rule = "R7" => row.rule = "R7" /\ now.invoices = {},
           now.rule = "R9" => now.invoices # {},
           now.invoices = {} => row.invoices = {},
           now.reference = row.reference,
           stage # "commit" => row.invoices # {}
    PROVE  Matched'
<1> DEFINE new == [op |-> op, stage |-> stage, checked |-> checked, seen |-> row, now |-> now,
                   todo |-> todo, bad |-> FALSE]
<1>1. session' = [session EXCEPT ![s] = new] /\ UNCHANGED row
  BY DEF Begin
<1>2. new.seen = row /\ new.now = now /\ new.stage = stage /\ new.op = op
  OBVIOUS
<1> HIDE DEF new
<1>3. CopyMatched(new, row)
  BY <1>2 DEF Matched, RowMatched, CopyMatched, ToPost
<1>4. QED
  BY <1>1, <1>3, OneCopy

\* Work on a copy that leaves its invoices and its rule alone.
LEMMA WorkMatched ==
    ASSUME TypeOK, Matched, NEW s \in Sessions, NEW new, Open(session[s]),
           session' = [session EXCEPT ![s] = new], UNCHANGED row,
           new.seen = session[s].seen,
           new.now.rule = session[s].now.rule, new.now.invoices = session[s].now.invoices,
           new.now.reference = session[s].now.reference \/ row.invoices # {},
           ToPost(new) => ToPost(session[s])
    PROVE  Matched'
<1>1. CopyMatched(session[s], row)
  BY DEF Matched
<1>2. CopyMatched(new, row)
  BY <1>1 DEF CopyMatched
<1>3. QED
  BY <1>2, OneCopy

\* A commit writes the columns that differ; what it leaves is what others match.
LEMMA CommitMatched ==
    ASSUME TypeOK, Matched, NEW s \in Sessions, CommitRow(s)
    PROVE  Matched'
<1> DEFINE seen == session[s].seen
           now == session[s].now
<1>1. row \in Row /\ seen \in Row /\ now \in Row /\ Open(session[s])
  BY DEF TypeOK, Session, CommitRow, Open
<1>2. row' = Written(seen, now) /\ session' = [session EXCEPT ![s] = IdleSession]
  BY DEF CommitRow
<1>3. CopyMatched(session[s], row)
  BY <1>1 DEF Matched
<1>4. \A t \in Sessions : session'[t] = IF t = s THEN IdleSession ELSE session[t]
  BY <1>2 DEF TypeOK
<1>5. DOMAIN row = {"rule", "invoices", "manual", "hitl", "receipt", "reference",
                    "payload", "state", "version"}
  BY <1>1 DEF Row
<1>6. /\ row'.rule = IF now.rule # seen.rule THEN now.rule ELSE row.rule
      /\ row'.invoices = IF now.invoices # seen.invoices THEN now.invoices ELSE row.invoices
      /\ row'.reference = IF now.reference # seen.reference THEN now.reference ELSE row.reference
  BY <1>1, <1>2, <1>5, WrittenColumns
<1>7. /\ row.invoices # {} => row'.invoices # {}
      /\ row'.rule = "R7" => row.rule = "R7"
  BY <1>3, <1>6 DEF CopyMatched
<1>8. RowMatched(row')
  <2>1. row'.rule = "R7" => row'.invoices = {}
    BY <1>3, <1>6, <1>7 DEF Matched, RowMatched, CopyMatched
  <2>2. row'.rule = "R9" => row'.invoices # {}
    BY <1>3, <1>6, <1>7 DEF Matched, RowMatched, CopyMatched
  <2>3. row'.reference # "none" => row'.invoices # {}
    BY <1>3, <1>6, <1>7 DEF Matched, RowMatched, CopyMatched
  <2>4. QED
    BY <2>1, <2>2, <2>3 DEF RowMatched
<1>9. ASSUME NEW t \in Sessions, Open(session'[t]) PROVE CopyMatched(session'[t], row')
  <2>1. session'[t] = session[t]
    BY <1>4, <1>9 DEF Open, IdleSession
  <2>2. CopyMatched(session[t], row)
    BY <1>9, <2>1 DEF Matched
  <2>3. QED
    BY <1>7, <2>1, <2>2 DEF CopyMatched
<1>10. QED
  BY <1>8, <1>9 DEF Matched

\* What an evaluation tells: never R7, and R9 only with invoices.
LEMMA EvaluationsKnown ==
    ASSUME NEW listed \in SUBSET Invoices, NEW e \in Evaluations(listed)
    PROVE  e.rule # "R7" /\ (e.rule = "R9" => e.invoices # {})
<1>1. CASE e \in [rule : {"R9"}, invoices : (SUBSET listed) \ {{}}, state : {"review_approve"}]
  BY <1>1
<1>2. CASE e \in [rule : {"conflict"}, invoices : SUBSET listed, state : {"review_approve"}]
  BY <1>2
<1>3. CASE e \in [rule : {"R8"}, invoices : {{}}, state : {"unidentified"}]
  BY <1>3
<1>4. QED
  BY <1>1, <1>2, <1>3 DEF Evaluations

\* What the answer to a receipt request makes of the copy.
LEMMA ReceiptAnswered ==
    ASSUME TypeOK, NEW s \in Sessions, CreateReceipt(s)
    PROVE  /\ session[s] \in Session /\ session[s].stage = "creating"
           /\ UNCHANGED <<row, posts>>
           /\ \E new :
                /\ session' = [session EXCEPT ![s] = new]
                /\ new.seen = session[s].seen /\ new.op = session[s].op
                /\ new.todo = session[s].todo /\ new.bad = session[s].bad
                /\ new.now.rule = session[s].now.rule
                /\ new.now.invoices = session[s].now.invoices
                /\ new.now.hitl = session[s].now.hitl
                /\ \/ new.op = "receipt" /\ new.stage = "commit"
                      /\ new.now.reference = session[s].now.reference
                      /\ new.now.payload = session[s].now.payload
                   \/ new.op # "receipt" /\ new.stage = "posting" /\ new.now.payload = new.todo
                   \/ new.op # "receipt" /\ new.stage = "commit" /\ new.now.reference = "failed"
<1>1. PICK answer \in Answers :
        LET ok  == answer = "created"
            now == [session[s].now EXCEPT !.receipt = IF ok THEN "success" ELSE "failed"]
        IN  session' = [session EXCEPT
              ![s].stage = IF ok /\ session[s].op # "receipt" THEN "posting" ELSE "commit",
              ![s].now = IF session[s].op = "receipt" THEN now
                         ELSE IF ok THEN Mapping(now, session[s].todo)
                         ELSE MappingResult(s, now, FALSE)]
  BY DEF CreateReceipt
<1> DEFINE old == session[s]
           got == [old.now EXCEPT !.receipt = IF answer = "created" THEN "success" ELSE "failed"]
           With(stage, now) == [old EXCEPT !.stage = stage, !.now = now]
<1>2. old \in Session /\ old.now \in Row
  BY DEF TypeOK, Session
<1>3. ASSUME NEW stage, NEW now,
             session' = [session EXCEPT ![s].stage = stage, ![s].now = now]
      PROVE  session' = [session EXCEPT ![s] = With(stage, now)]
  BY <1>2, <1>3 DEF TypeOK
<1>4. ASSUME NEW stage, NEW now
      PROVE  /\ With(stage, now).stage = stage /\ With(stage, now).now = now
             /\ With(stage, now).seen = old.seen /\ With(stage, now).op = old.op
             /\ With(stage, now).todo = old.todo /\ With(stage, now).bad = old.bad
  BY <1>2 DEF Session
<1>5. /\ got \in Row /\ got.rule = old.now.rule /\ got.invoices = old.now.invoices
      /\ got.hitl = old.now.hitl /\ got.reference = old.now.reference
      /\ got.payload = old.now.payload
      /\ got.receipt = IF answer = "created" THEN "success" ELSE "failed"
  BY <1>2 DEF Row, Outcomes
<1>6. session[s].stage = "creating" /\ UNCHANGED <<row, posts>>
  BY DEF CreateReceipt
<1>7. CASE old.op = "receipt"
  <2>1. session' = [session EXCEPT ![s].stage = "commit", ![s].now = got]
    BY <1>1, <1>7
  <2> HIDE DEF got
  <2>2. session' = [session EXCEPT ![s] = With("commit", got)]
    BY <1>3, <2>1
  <2> DEFINE new == With("commit", got)
  <2>3. /\ new.stage = "commit" /\ new.now = got /\ new.seen = old.seen /\ new.op = old.op
        /\ new.todo = old.todo /\ new.bad = old.bad /\ session' = [session EXCEPT ![s] = new]
    BY <1>4, <2>2
  <2> HIDE DEF new
  <2>4. QED
    BY <1>2, <1>5, <1>6, <1>7, <2>2, <2>3
<1>8. CASE old.op # "receipt" /\ answer = "created"
  <2> DEFINE now == Mapping(got, old.todo)
  <2>1. session' = [session EXCEPT ![s].stage = "posting", ![s].now = now]
    BY <1>1, <1>8
  <2>2. /\ now.rule = got.rule /\ now.invoices = got.invoices /\ now.hitl = got.hitl
        /\ now.payload = old.todo
    BY <1>5, <1>8 DEF Mapping, Row
  <2> HIDE DEF got, now
  <2>3. session' = [session EXCEPT ![s] = With("posting", now)]
    BY <1>3, <2>1
  <2> DEFINE new == With("posting", now)
  <2>4. /\ new.stage = "posting" /\ new.now = now /\ new.seen = old.seen /\ new.op = old.op
        /\ new.todo = old.todo /\ new.bad = old.bad /\ session' = [session EXCEPT ![s] = new]
    BY <1>4, <2>3
  <2> HIDE DEF new
  <2>5. /\ new.now.rule = old.now.rule /\ new.now.invoices = old.now.invoices
        /\ new.now.hitl = old.now.hitl /\ new.now.payload = new.todo
        /\ new.op # "receipt"
    BY <1>5, <1>8, <2>2, <2>4
  <2>6. QED
    BY <1>2, <1>6, <2>4, <2>5
<1>9. CASE old.op # "receipt" /\ answer # "created"
  <2> DEFINE now == MappingResult(s, got, FALSE)
  <2>1. session' = [session EXCEPT ![s].stage = "commit", ![s].now = now]
    BY <1>1, <1>9
  <2>2. /\ now.rule = got.rule /\ now.invoices = got.invoices /\ now.hitl = got.hitl
        /\ now.reference = "failed"
    BY <1>5, <1>9 DEF MappingResult, Row
  <2> HIDE DEF got, now
  <2>3. session' = [session EXCEPT ![s] = With("commit", now)]
    BY <1>3, <2>1
  <2> DEFINE new == With("commit", now)
  <2>4. /\ new.stage = "commit" /\ new.now = now /\ new.seen = old.seen /\ new.op = old.op
        /\ new.todo = old.todo /\ new.bad = old.bad /\ session' = [session EXCEPT ![s] = new]
    BY <1>4, <2>3
  <2> HIDE DEF new
  <2>5. QED
    BY <1>2, <1>5, <1>6, <1>9, <2>2, <2>4
<1>10. QED
  BY <1>7, <1>8, <1>9

\* What an answer to a reference makes of the copy.
LEMMA ReferenceAnswered ==
    ASSUME TypeOK, NEW s \in Sessions, NEW i \in Invoices, PostReference(s, i)
    PROVE  /\ session[s] \in Session /\ session[s].stage = "posting" /\ UNCHANGED row
           /\ \A j \in Invoices : posts[j] > 0 => posts'[j] > 0
           /\ \E new :
                /\ session' = [session EXCEPT ![s] = new]
                /\ new.seen = session[s].seen /\ new.op = session[s].op
                /\ new.now = session[s].now /\ new.stage = "posting"
                /\ new.todo = session[s].todo \ {i}
                /\ new.bad \/ (~session[s].bad /\ posts'[i] > 0)
<1>1. PICK answer \in Answers :
        /\ posts' = IF Accepted(answer) THEN [posts EXCEPT ![i] = @ + 1] ELSE posts
        /\ session' = [session EXCEPT ![s].todo = @ \ {i}, ![s].bad = @ \/ answer # "created"]
  BY DEF PostReference
<1> DEFINE new == [session[s] EXCEPT !.todo = @ \ {i}, !.bad = @ \/ answer # "created"]
<1>2. session[s] \in Session /\ session[s].stage = "posting" /\ UNCHANGED row
  BY DEF TypeOK, PostReference
<1>3. session' = [session EXCEPT ![s] = new]
  BY <1>1, <1>2 DEF TypeOK
<1>4. /\ new.seen = session[s].seen /\ new.op = session[s].op /\ new.now = session[s].now
      /\ new.stage = "posting" /\ new.todo = session[s].todo \ {i}
      /\ new.bad = (session[s].bad \/ answer # "created")
  BY <1>2 DEF Session
<1>5. /\ \A j \in Invoices : posts[j] > 0 => posts'[j] > 0
      /\ answer = "created" => posts'[i] > 0
  BY <1>1 DEF TypeOK, Accepted
<1> HIDE DEF new
<1>6. new.bad \/ (~session[s].bad /\ posts'[i] > 0)
  BY <1>4, <1>5
<1>7. QED
  BY <1>2, <1>3, <1>4, <1>5, <1>6

\* What the end of a mapping makes of the copy.
LEMMA MappingFinished ==
    ASSUME TypeOK, NEW s \in Sessions, FinishMapping(s)
    PROVE  /\ session[s] \in Session /\ session[s].stage = "posting"
           /\ session[s].todo = {} /\ UNCHANGED <<row, posts>>
           /\ \E new :
                /\ session' = [session EXCEPT ![s] = new]
                /\ new.seen = session[s].seen /\ new.op = session[s].op /\ new.stage = "commit"
                /\ new.now.rule = session[s].now.rule
                /\ new.now.invoices = session[s].now.invoices
                /\ new.now.hitl = session[s].now.hitl
                /\ new.now.payload = session[s].now.payload
                /\ new.now.reference # "failed" => ~session[s].bad
<1> DEFINE old == session[s]
           now == MappingResult(s, old.now, ~old.bad)
           new == [old EXCEPT !.stage = "commit", !.now = now]
<1>1. /\ old \in Session /\ old.now \in Row /\ old.stage = "posting" /\ old.todo = {}
      /\ UNCHANGED <<row, posts>>
      /\ session' = [session EXCEPT ![s].stage = "commit", ![s].now = now]
  BY DEF TypeOK, Session, FinishMapping
<1>2. session' = [session EXCEPT ![s] = new]
  BY <1>1 DEF TypeOK
<1>3. /\ now.rule = old.now.rule /\ now.invoices = old.now.invoices
      /\ now.hitl = old.now.hitl /\ now.payload = old.now.payload
      /\ now.reference = IF ~old.bad THEN "success" ELSE "failed"
  BY <1>1 DEF Row, MappingResult
<1> HIDE DEF now
<1>4. new.seen = old.seen /\ new.op = old.op /\ new.now = now /\ new.stage = "commit"
  BY <1>1 DEF Session
<1> HIDE DEF new
<1>5. QED
  BY <1>1, <1>2, <1>3, <1>4

\* Rows that a run hands to the review are matched.
LEMMA MatchedInitially == Init => Matched
<1> SUFFICES ASSUME Init PROVE Matched
  OBVIOUS
<1>1. row \in NewRows /\ \A s \in Sessions : ~Open(session[s])
  BY DEF Init, Open, IdleSession
<1>2. \A e \in Evaluations(Invoices) :
         e.rule # "R7" /\ (e.rule = "R9" => e.invoices # {})
  BY EvaluationsKnown
<1>3. RowMatched(row)
  BY <1>1, <1>2 DEF NewRows, FreshRow, RowMatched
<1>4. QED
  BY <1>1, <1>3 DEF Matched

\* Every step keeps invoices where they are needed, however many requests overlap.
LEMMA MatchedStep == TypeOK /\ Decisions /\ Matched /\ [Next]_vars => Matched'
<1> SUFFICES ASSUME TypeOK, Decisions, Matched, [Next]_vars PROVE Matched'
  OBVIOUS
<1> USE DEF Sessions
<1>1. row \in Row /\ RowMatched(row)
  BY DEF TypeOK, Matched
<1>2. ASSUME NEW s \in Spocs, Look(s) PROVE Matched'
  BY <1>2 DEF Look, Matched
<1>3. ASSUME NEW s \in Spocs, ApproveRow(s) PROVE Matched'
  <2>1. PICK checked, refs :
          /\ Category(row) = "ready_for_oracle"
          /\ Begin(s, "approve", FirstStage(row), checked,
                   Mapping([row EXCEPT !.hitl = "approved"], refs), refs)
    BY <1>3, Zenon DEF ApproveRow
  <2> DEFINE now == Mapping([row EXCEPT !.hitl = "approved"], refs)
  <2>2. row.rule = "R9"
    BY <2>1, <1>1 DEF Category, CategoryOfRule, Row
  <2>3. now.rule = row.rule /\ now.invoices = row.invoices /\ now.reference = row.reference
    BY <1>1 DEF Mapping, Row
  <2> HIDE DEF now
  <2>4. Begin(s, "approve", FirstStage(row), checked, now, refs)
    BY <2>1 DEF now
  <2>5. QED
    BY <1>1, <2>2, <2>3, <2>4, BeginMatched DEF RowMatched
<1>4. ASSUME NEW s \in Spocs, RejectRow(s) PROVE Matched'
  <2> DEFINE now == [row EXCEPT !.hitl = "rejected", !.state = "rejected", !.version = @ + 1]
  <2>1. PICK checked : Begin(s, "reject", "commit", checked, now, {})
    BY <1>4 DEF RejectRow
  <2>2. now.rule = row.rule /\ now.invoices = row.invoices /\ now.reference = row.reference
    BY <1>1 DEF Row
  <2> HIDE DEF now
  <2>3. QED
    BY <1>1, <2>1, <2>2, BeginMatched DEF RowMatched
<1>5. ASSUME NEW s \in Spocs, RetryOraclePost(s) PROVE Matched'
  <2> DEFINE now == Mapping(row, row.invoices)
  <2>1. row.reference = "failed" /\ Begin(s, "retry", FirstStage(row), FALSE, now, row.invoices)
    BY <1>5 DEF RetryOraclePost
  <2>2. now.rule = row.rule /\ now.invoices = row.invoices /\ now.reference = row.reference
    BY <1>1 DEF Mapping, Row
  <2> HIDE DEF now
  <2>3. QED
    BY <1>1, <2>1, <2>2, BeginMatched DEF RowMatched
<1>6. ASSUME NEW s \in Spocs, ConfirmManualMapping(s) PROVE Matched'
  <2>1. PICK picked \in (SUBSET Invoices) \ {{}} :
          Begin(s, "map", "commit", FALSE,
                [row EXCEPT !.invoices = picked, !.rule = "R9", !.manual = TRUE,
                            !.state = "review_approve"], {})
    BY <1>6 DEF ConfirmManualMapping
  <2> DEFINE now == [row EXCEPT !.invoices = picked, !.rule = "R9", !.manual = TRUE,
                                !.state = "review_approve"]
  <2>2. now.rule = "R9" /\ now.invoices = picked /\ now.reference = row.reference
    BY <1>1 DEF Row
  <2> HIDE DEF now
  <2>3. Begin(s, "map", "commit", FALSE, now, {})
    BY <2>1 DEF now
  <2>4. QED
    BY <2>1, <2>2, <2>3, BeginMatched
<1>7. ASSUME NEW s \in Sessions, RecheckRemittance(s) PROVE Matched'
  <2>1. PICK listed \in SUBSET Invoices : \E e \in Evaluations(listed) :
          Begin(s, "recheck", "commit", FALSE,
                [row EXCEPT !.rule = e.rule, !.invoices = e.invoices, !.state = e.state], {})
    BY <1>7 DEF RecheckRemittance
  <2>2. PICK e \in Evaluations(listed) :
          Begin(s, "recheck", "commit", FALSE,
                [row EXCEPT !.rule = e.rule, !.invoices = e.invoices, !.state = e.state], {})
    BY <2>1
  <2> DEFINE now == [row EXCEPT !.rule = e.rule, !.invoices = e.invoices, !.state = e.state]
  <2>3. e.rule # "R7" /\ (e.rule = "R9" => e.invoices # {})
    BY EvaluationsKnown
  <2>4. row.rule = "R7"
    BY <1>7 DEF RecheckRemittance
  <2>5. now.rule = e.rule /\ now.invoices = e.invoices /\ now.reference = row.reference
    BY <1>1 DEF Row
  <2> HIDE DEF now
  <2>6. Begin(s, "recheck", "commit", FALSE, now, {})
    BY <2>2 DEF now
  <2>7. QED
    BY <1>1, <2>3, <2>4, <2>5, <2>6, BeginMatched DEF RowMatched
<1>8. ASSUME ReceiptOfRun PROVE Matched'
  <2> DEFINE new == [op |-> "receipt", stage |-> "creating", checked |-> FALSE, seen |-> row,
                     now |-> row, todo |-> {}, bad |-> FALSE]
  <2>1. session' = [session EXCEPT ![Step45] = new] /\ UNCHANGED row
    BY <1>8 DEF ReceiptOfRun
  <2>2. new.seen = row /\ new.now = row /\ new.op = "receipt"
    OBVIOUS
  <2> HIDE DEF new
  <2>3. CopyMatched(new, row)
    BY <1>1, <2>2 DEF RowMatched, CopyMatched, ToPost
  <2>4. QED
    BY <2>1, <2>3, OneCopy
<1>9. ASSUME NEW s \in Sessions, CreateReceipt(s) PROVE Matched'
  <2>1. PICK new :
          /\ session' = [session EXCEPT ![s] = new]
          /\ new.seen = session[s].seen /\ new.op = session[s].op
          /\ new.now.rule = session[s].now.rule /\ new.now.invoices = session[s].now.invoices
          /\ new.op = "receipt" => new.now.reference = session[s].now.reference
    BY <1>9, ReceiptAnswered
  <2>2. Open(session[s]) /\ UNCHANGED row
    BY <1>9, ReceiptAnswered DEF Open
  <2>3. session[s].op # "receipt" => ToPost(session[s]) /\ row.invoices # {}
    BY <1>9, <2>2, ReceiptAnswered DEF Matched, CopyMatched, ToPost
  <2>4. QED
    BY <2>1, <2>2, <2>3, WorkMatched DEF ToPost
<1>10. ASSUME NEW s \in Sessions, NEW i \in Invoices, PostReference(s, i) PROVE Matched'
  <2>1. PICK new :
          /\ session' = [session EXCEPT ![s] = new]
          /\ new.seen = session[s].seen /\ new.op = session[s].op
          /\ new.now = session[s].now /\ new.stage = session[s].stage
    BY <1>10, ReferenceAnswered
  <2>2. Open(session[s]) /\ UNCHANGED row
    BY <1>10, ReferenceAnswered DEF Open
  <2>3. QED
    BY <2>1, <2>2, WorkMatched DEF ToPost
<1>11. ASSUME NEW s \in Sessions, FinishMapping(s) PROVE Matched'
  <2>1. PICK new :
          /\ session' = [session EXCEPT ![s] = new]
          /\ new.seen = session[s].seen /\ new.stage = "commit"
          /\ new.now.rule = session[s].now.rule /\ new.now.invoices = session[s].now.invoices
    BY <1>11, MappingFinished
  <2>2. session[s].stage = "posting" /\ UNCHANGED row
    BY <1>11, MappingFinished
  <2>3. session[s].op # "receipt"
    BY <2>2 DEF Decisions
  <2>4. Open(session[s]) /\ ~ToPost(new) /\ row.invoices # {}
    BY <2>1, <2>2, <2>3 DEF Matched, CopyMatched, Open, ToPost
  <2>5. QED
    BY <2>1, <2>2, <2>4, WorkMatched
<1>12. ASSUME NEW s \in Sessions, Abort(s) PROVE Matched'
  <2>1. session' = [session EXCEPT ![s] = IdleSession] /\ UNCHANGED row
    BY <1>12 DEF Abort
  <2>2. ~Open(IdleSession)
    BY DEF Open, IdleSession
  <2>3. QED
    BY <2>1, <2>2, OneCopy
<1>13. CASE UNCHANGED vars
  BY <1>13 DEF vars, Matched
<1>14. QED
  BY <1>2, <1>3, <1>4, <1>5, <1>6, <1>7, <1>8, <1>9, <1>10, <1>11, <1>12, <1>13, CommitMatched
  DEF Next

(***************************************************************************)
(* One SPOC at a time.  Its copy is still true of the columns that only     *)
(* SPOCs write: the recheck and the run write others.                       *)
(***************************************************************************)
OneSpoc == \A s, t \in Spocs : s = t

SameDecision(r, q) == r.hitl = q.hitl /\ r.reference = q.reference /\ r.payload = q.payload
PostedInFull(r, p) == r.reference = "success" => r.payload # {} /\ \A i \in r.payload : p[i] > 0

OwnCopy(c, r, p) ==
    /\ c.op # "receipt"
    /\ SameDecision(c.seen, r)
    /\ c.seen.hitl = "rejected" => c.now.hitl = "rejected"
    /\ c.seen.hitl = "rejected" /\ c.op # "retry" =>
          c.stage = "commit" /\ c.now.reference = c.seen.reference
    /\ c.op = "retry" => c.seen.reference = "failed"
    /\ c.stage = "creating" => c.todo # {}
    /\ c.stage = "posting" =>
          /\ c.now.payload # {}
          /\ c.bad \/ \A i \in c.now.payload : i \in c.todo \/ p[i] > 0
    /\ c.stage = "commit" => PostedInFull(c.now, p)
OthersCopy(c) == /\ SameDecision(c.seen, c.now)
                 /\ c.stage = "commit" \/ c.op = "receipt"

Undisturbed ==
    /\ PostedInFull(row, posts)
    /\ \A s \in Spocs : Open(session[s]) => OwnCopy(session[s], row, posts)
    /\ \A s \in Sessions \ Spocs : Open(session[s]) => OthersCopy(session[s])

\* What RejectStands says of a step.
Stands == Rejected(row) => \/ Rejected(row') /\ posts' = posts
                           \/ \E s \in Spocs : RetriesFailed(s)

\* What Oracle has accepted it keeps.
PostsGrow == \A i \in Invoices : posts[i] > 0 => posts'[i] > 0

\* A step that leaves the row's decision alone and changes one copy.
LEMMA OneCopyUndisturbed ==
    ASSUME TypeOK, Undisturbed, PostsGrow, NEW s \in Sessions, NEW new,
           session' = [session EXCEPT ![s] = new], SameDecision(row, row'),
           s \in Spocs /\ Open(new) => OwnCopy(new, row', posts'),
           s \notin Spocs /\ Open(new) => OthersCopy(new)
    PROVE  Undisturbed'
<1>1. \A t \in Sessions : session'[t] = IF t = s THEN new ELSE session[t]
  BY DEF TypeOK
<1>2. row \in Row /\ row'.payload = row.payload
  BY DEF TypeOK, SameDecision
<1>3. PostedInFull(row', posts')
  BY <1>2 DEF Undisturbed, PostedInFull, SameDecision, PostsGrow, Row
<1>4. ASSUME NEW t \in Spocs, Open(session'[t]) PROVE OwnCopy(session'[t], row', posts')
  <2>1. CASE t = s
    BY <1>1, <1>4, <2>1 DEF Sessions
  <2>2. CASE t # s
    <3>1. session'[t] = session[t] /\ session[t] \in Session
      BY <1>1, <2>2 DEF TypeOK, Sessions
    <3>2. OwnCopy(session[t], row, posts)
      BY <1>4, <3>1 DEF Undisturbed
    <3>3. session[t].now.payload \in SUBSET Invoices
      BY <3>1 DEF Session, Row
    <3>4. OwnCopy(session[t], row', posts')
      BY <3>1, <3>2, <3>3 DEF OwnCopy, SameDecision, PostedInFull, PostsGrow
    <3>5. QED
      BY <3>1, <3>4
  <2>3. QED
    BY <2>1, <2>2
<1>5. ASSUME NEW t \in Sessions \ Spocs, Open(session'[t]) PROVE OthersCopy(session'[t])
  <2>1. CASE t = s
    BY <1>1, <1>5, <2>1
  <2>2. CASE t # s
    BY <1>1, <1>5, <2>2 DEF Undisturbed
  <2>3. QED
    BY <2>1, <2>2
<1>6. QED
  BY <1>3, <1>4, <1>5 DEF Undisturbed

\* A request of a SPOC that begins.
LEMMA BeginUndisturbed ==
    ASSUME TypeOK, Undisturbed, NEW s \in Spocs, NEW op, NEW stage, NEW checked, NEW now, NEW todo,
           Begin(s, op, stage, checked, now, todo), op # "receipt",
           row.hitl = "rejected" => now.hitl = "rejected",
           row.hitl = "rejected" /\ op # "retry" => stage = "commit",
           op = "retry" => row.reference = "failed",
           now.reference = row.reference,
           stage = "commit" => now.payload = row.payload,
           stage \in {"creating", "posting"} => todo # {},
           stage = "posting" => now.payload = todo
    PROVE  Undisturbed' /\ Stands
<1> DEFINE new == [op |-> op, stage |-> stage, checked |-> checked, seen |-> row, now |-> now,
                   todo |-> todo, bad |-> FALSE]
<1>1. session' = [session EXCEPT ![s] = new] /\ UNCHANGED <<row, posts>>
  BY DEF Begin
<1>2. new.seen = row /\ new.now = now /\ new.stage = stage /\ new.op = op /\ new.todo = todo
  OBVIOUS
<1> HIDE DEF new
<1>3. OwnCopy(new, row, posts)
  BY <1>2 DEF Undisturbed, OwnCopy, SameDecision, PostedInFull
<1>4. OwnCopy(new, row', posts') /\ PostsGrow /\ SameDecision(row, row')
  BY <1>1, <1>3 DEF OwnCopy, SameDecision, PostedInFull, PostsGrow
<1>5. Stands
  BY <1>1 DEF Stands, Rejected
<1>6. QED
  BY <1>1, <1>4, <1>5, OneCopyUndisturbed DEF Sessions

\* A commit of a SPOC writes its decision; a commit of another writes none.
LEMMA CommitUndisturbed ==
    ASSUME OneSpoc, TypeOK, Undisturbed, NEW s \in Sessions, CommitRow(s)
    PROVE  Undisturbed' /\ Stands
<1> DEFINE seen == session[s].seen
           now == session[s].now
<1>1. row \in Row /\ seen \in Row /\ now \in Row /\ session[s].stage = "commit"
  BY DEF TypeOK, Session, CommitRow
<1>2. /\ row' = Written(seen, now) /\ session' = [session EXCEPT ![s] = IdleSession]
      /\ UNCHANGED posts
  BY DEF CommitRow
<1>3. DOMAIN row = {"rule", "invoices", "manual", "hitl", "receipt", "reference",
                    "payload", "state", "version"}
  BY <1>1 DEF Row
<1>4. /\ row'.hitl = IF now.hitl # seen.hitl THEN now.hitl ELSE row.hitl
      /\ row'.reference = IF now.reference # seen.reference THEN now.reference ELSE row.reference
      /\ row'.payload = IF now.payload # seen.payload THEN now.payload ELSE row.payload
  BY <1>1, <1>2, <1>3, WrittenColumns
<1>5. \A t \in Sessions : session'[t] = IF t = s THEN IdleSession ELSE session[t]
  BY <1>2 DEF TypeOK
<1>6. ~Open(IdleSession) /\ Open(session[s]) /\ PostsGrow
  BY <1>1, <1>2 DEF Open, IdleSession, PostsGrow
<1>7. CASE s \in Spocs
  <2>1. OwnCopy(session[s], row, posts)
    BY <1>6, <1>7 DEF Undisturbed
  <2>2. SameDecision(row', now)
    BY <1>4, <2>1 DEF OwnCopy, SameDecision
  <2>3. PostedInFull(now, posts)
    BY <1>1, <2>1 DEF OwnCopy
  <2>4. PostedInFull(row', posts')
    BY <1>2, <2>2, <2>3 DEF PostedInFull, SameDecision
  <2>5. \A t \in Spocs : ~Open(session'[t])
    BY <1>5, <1>6, <1>7 DEF OneSpoc, Sessions
  <2>6. \A t \in Sessions \ Spocs : Open(session'[t]) => OthersCopy(session'[t])
    BY <1>5, <1>6 DEF Undisturbed
  <2>7. Stands
    <3>1. session'[s] # session[s]
      BY <1>1, <1>5 DEF IdleSession
    <3>2. CASE session[s].op = "retry"
      BY <1>7, <2>1, <3>1, <3>2 DEF OwnCopy, Stands, RetriesFailed
    <3>3. CASE session[s].op # "retry"
      BY <1>2, <2>1, <2>2, <3>3 DEF OwnCopy, SameDecision, Stands, Rejected
    <3>4. QED
      BY <3>2, <3>3
  <2>8. QED
    BY <2>4, <2>5, <2>6, <2>7 DEF Undisturbed
<1>8. CASE s \notin Spocs
  <2>1. SameDecision(row, row')
    BY <1>4, <1>6, <1>8 DEF Undisturbed, OthersCopy, SameDecision
  <2>2. Stands
    BY <1>2, <2>1 DEF SameDecision, Stands, Rejected
  <2>3. QED
    BY <1>2, <1>6, <1>8, <2>1, <2>2, OneCopyUndisturbed
<1>9. QED
  BY <1>7, <1>8

\* Every step of a review with one SPOC keeps the SPOC's copy true to the row, and
\* leaves a rejection as it is.
LEMMA UndisturbedStep ==
    ASSUME OneSpoc, TypeOK, Decisions, Matched, Undisturbed, [Next]_vars
    PROVE  Undisturbed' /\ Stands
<1> USE DEF Sessions
<1> DEFINE Goal == Undisturbed' /\ Stands
<1>0. UNCHANGED <<row, posts>> => Stands
  BY DEF Stands, Rejected
<1>1. row \in Row /\ RowMatched(row)
  BY DEF TypeOK, Matched
<1>2. ASSUME NEW s \in Spocs, Look(s) PROVE Goal
  BY <1>0, <1>2 DEF Look, Undisturbed, OwnCopy, PostedInFull
<1>3. ASSUME NEW s \in Spocs, ApproveRow(s) PROVE Goal
  <2>1. PICK checked \in Callers, breakup \in {{}, view[s].invoices} :
          LET refs == IF breakup = {} THEN row.invoices ELSE breakup IN
          /\ Category(row) = "ready_for_oracle"
          /\ Begin(s, "approve", FirstStage(row), checked,
                   Mapping([row EXCEPT !.hitl = "approved"], refs), refs)
    BY <1>3 DEF ApproveRow
  <2> DEFINE refs == IF breakup = {} THEN row.invoices ELSE breakup
             now == Mapping([row EXCEPT !.hitl = "approved"], refs)
  <2>2. row.rule = "R9" /\ row.hitl # "rejected"
    BY <2>1, <1>1 DEF Category, CategoryOfRule, Row
  <2>3. refs # {}
    BY <1>1, <2>2 DEF RowMatched
  <2>4. /\ now.reference = row.reference /\ FirstStage(row) \in {"creating", "posting"}
        /\ FirstStage(row) = "posting" => now.payload = refs
    BY <1>1 DEF Mapping, Row, FirstStage
  <2> DEFINE first == FirstStage(row)
  <2>5. Begin(s, "approve", first, checked, now, refs) /\ UNCHANGED row
    BY <2>1 DEF Begin
  <2>6. first # "commit" /\ first \in {"creating", "posting"} /\ (first = "posting" => now.payload = refs)
    BY <2>4
  <2> HIDE DEF now, refs, first
  <2>7. QED
    BY <2>2, <2>3, <2>4, <2>5, <2>6, BeginUndisturbed
<1>4. ASSUME NEW s \in Spocs, RejectRow(s) PROVE Goal
  <2> DEFINE now == [row EXCEPT !.hitl = "rejected", !.state = "rejected", !.version = @ + 1]
  <2>1. PICK checked : Begin(s, "reject", "commit", checked, now, {})
    BY <1>4 DEF RejectRow
  <2>2. now.hitl = "rejected" /\ now.reference = row.reference /\ now.payload = row.payload
    BY <1>1 DEF Row
  <2>3. UNCHANGED row
    BY <2>1 DEF Begin
  <2> HIDE DEF now
  <2>4. QED
    BY <2>1, <2>2, <2>3, BeginUndisturbed
<1>5. ASSUME NEW s \in Spocs, RetryOraclePost(s) PROVE Goal
  <2> DEFINE now == Mapping(row, row.invoices)
             first == FirstStage(row)
  <2>1. row.reference = "failed" /\ Begin(s, "retry", first, FALSE, now, row.invoices)
    BY <1>5 DEF RetryOraclePost
  <2>2. /\ now.hitl = row.hitl /\ now.reference = row.reference
        /\ first \in {"creating", "posting"} /\ first # "commit"
        /\ first = "posting" => now.payload = row.invoices
    BY <1>1 DEF Mapping, Row, FirstStage
  <2>3. UNCHANGED row /\ row.invoices # {}
    BY <1>1, <2>1 DEF Begin, RowMatched
  <2> HIDE DEF now, first
  <2>4. QED
    BY <2>1, <2>2, <2>3, BeginUndisturbed
<1>6. ASSUME NEW s \in Spocs, ConfirmManualMapping(s) PROVE Goal
  <2>1. PICK picked \in (SUBSET Invoices) \ {{}} :
          Begin(s, "map", "commit", FALSE,
                [row EXCEPT !.invoices = picked, !.rule = "R9", !.manual = TRUE,
                            !.state = "review_approve"], {})
    BY <1>6 DEF ConfirmManualMapping
  <2> DEFINE now == [row EXCEPT !.invoices = picked, !.rule = "R9", !.manual = TRUE,
                                !.state = "review_approve"]
  <2>2. now.hitl = row.hitl /\ now.reference = row.reference /\ now.payload = row.payload
    BY <1>1 DEF Row
  <2>3. Begin(s, "map", "commit", FALSE, now, {}) /\ UNCHANGED row
    BY <2>1 DEF Begin
  <2> HIDE DEF now
  <2>4. QED
    BY <2>2, <2>3, BeginUndisturbed
<1>7. ASSUME NEW s \in Sessions, RecheckRemittance(s) PROVE Goal
  <2>1. PICK listed \in SUBSET Invoices : \E e \in Evaluations(listed) :
          Begin(s, "recheck", "commit", FALSE,
                [row EXCEPT !.rule = e.rule, !.invoices = e.invoices, !.state = e.state], {})
    BY <1>7 DEF RecheckRemittance
  <2>2. PICK e \in Evaluations(listed) :
          Begin(s, "recheck", "commit", FALSE,
                [row EXCEPT !.rule = e.rule, !.invoices = e.invoices, !.state = e.state], {})
    BY <2>1
  <2> DEFINE now == [row EXCEPT !.rule = e.rule, !.invoices = e.invoices, !.state = e.state]
  <2>3. now.hitl = row.hitl /\ now.reference = row.reference /\ now.payload = row.payload
    BY <1>1 DEF Row
  <2>4. Begin(s, "recheck", "commit", FALSE, now, {}) /\ UNCHANGED <<row, posts>>
    BY <2>2 DEF Begin
  <2> HIDE DEF now
  <2>5. CASE s \in Spocs
    BY <2>3, <2>4, <2>5, BeginUndisturbed
  <2>6. CASE s \notin Spocs
    <3> DEFINE new == [op |-> "recheck", stage |-> "commit", checked |-> FALSE, seen |-> row,
                       now |-> now, todo |-> {}, bad |-> FALSE]
    <3>1. session' = [session EXCEPT ![s] = new]
      BY <2>4 DEF Begin
    <3>2. new.seen = row /\ new.now = now /\ new.stage = "commit"
      OBVIOUS
    <3> HIDE DEF new
    <3>3. OthersCopy(new) /\ PostsGrow /\ SameDecision(row, row')
      BY <2>3, <2>4, <3>2 DEF OthersCopy, SameDecision, PostsGrow
    <3>4. QED
      BY <2>4, <2>6, <3>1, <3>3, OneCopyUndisturbed, <1>0
  <2>7. QED
    BY <2>5, <2>6
<1>8. ASSUME ReceiptOfRun PROVE Goal
  <2> DEFINE new == [op |-> "receipt", stage |-> "creating", checked |-> FALSE, seen |-> row,
                     now |-> row, todo |-> {}, bad |-> FALSE]
  <2>1. session' = [session EXCEPT ![Step45] = new] /\ UNCHANGED <<row, posts>>
    BY <1>8 DEF ReceiptOfRun
  <2>2. new.seen = row /\ new.now = row /\ new.op = "receipt"
    OBVIOUS
  <2> HIDE DEF new
  <2>3. OthersCopy(new) /\ PostsGrow /\ SameDecision(row, row') /\ Step45 \notin Spocs
    BY <2>1, <2>2 DEF OthersCopy, SameDecision, PostsGrow
  <2>4. QED
    BY <2>1, <2>3, OneCopyUndisturbed, <1>0
<1>9. ASSUME NEW s \in Sessions, CreateReceipt(s) PROVE Goal
  <2>1. PICK new :
          /\ session' = [session EXCEPT ![s] = new]
          /\ new.seen = session[s].seen /\ new.op = session[s].op
          /\ new.todo = session[s].todo /\ new.now.hitl = session[s].now.hitl
          /\ \/ new.op = "receipt" /\ new.stage = "commit"
                /\ new.now.reference = session[s].now.reference
                /\ new.now.payload = session[s].now.payload
             \/ new.op # "receipt" /\ new.stage = "posting" /\ new.now.payload = new.todo
             \/ new.op # "receipt" /\ new.stage = "commit" /\ new.now.reference = "failed"
    BY <1>9, ReceiptAnswered
  <2>2. Open(session[s]) /\ session[s].stage = "creating" /\ UNCHANGED <<row, posts>>
    BY <1>9, ReceiptAnswered DEF Open
  <2>3. PostsGrow /\ SameDecision(row, row')
    BY <2>2 DEF PostsGrow, SameDecision
  <2>4. CASE s \in Spocs
    <3>1. OwnCopy(session[s], row, posts)
      BY <2>2, <2>4 DEF Undisturbed
    <3>2. OwnCopy(new, row', posts')
      BY <2>1, <2>2, <3>1 DEF OwnCopy, PostedInFull
    <3>3. QED
      BY <2>1, <2>2, <2>3, <2>4, <3>2, OneCopyUndisturbed, <1>0
  <2>5. CASE s \notin Spocs
    <3>1. OthersCopy(session[s])
      BY <2>2, <2>5 DEF Undisturbed
    <3>2. OthersCopy(new)
      BY <2>1, <2>2, <3>1 DEF OthersCopy, SameDecision
    <3>3. QED
      BY <2>1, <2>2, <2>3, <2>5, <3>2, OneCopyUndisturbed, <1>0
  <2>6. QED
    BY <2>4, <2>5
<1>10. ASSUME NEW s \in Sessions, NEW i \in Invoices, PostReference(s, i) PROVE Goal
  <2>1. PICK new :
          /\ session' = [session EXCEPT ![s] = new]
          /\ new.seen = session[s].seen /\ new.op = session[s].op
          /\ new.now = session[s].now /\ new.stage = "posting"
          /\ new.todo = session[s].todo \ {i}
          /\ new.bad \/ (~session[s].bad /\ posts'[i] > 0)
    BY <1>10, ReferenceAnswered
  <2>2. /\ Open(session[s]) /\ session[s].stage = "posting" /\ session[s] \in Session
        /\ UNCHANGED row /\ PostsGrow /\ SameDecision(row, row')
    BY <1>10, ReferenceAnswered DEF Open, PostsGrow, SameDecision
  <2>3. session[s].op # "receipt"
    BY <2>2 DEF Decisions
  <2>4. s \in Spocs
    BY <2>2, <2>3 DEF Undisturbed, OthersCopy
  <2>5. OwnCopy(session[s], row, posts)
    BY <2>2, <2>4 DEF Undisturbed
  <2>6. session[s].now.payload \in SUBSET Invoices
    BY <2>2 DEF Session, Row
  <2>7. new.bad \/ \A j \in new.now.payload : j \in new.todo \/ posts'[j] > 0
    BY <2>1, <2>2, <2>5, <2>6 DEF OwnCopy, PostsGrow
  <2>8. OwnCopy(new, row', posts')
    BY <2>1, <2>2, <2>5, <2>7 DEF OwnCopy
  <2>9. Stands
    <3>1. session'[s] # session[s]
      BY <1>10, <2>1, <2>2 DEF TypeOK, PostReference
    <3>2. CASE session[s].op = "retry"
      BY <2>4, <2>5, <3>1, <3>2 DEF OwnCopy, Stands, RetriesFailed
    <3>3. CASE session[s].op # "retry"
      BY <2>2, <2>5, <3>3 DEF OwnCopy, SameDecision, Stands, Rejected
    <3>4. QED
      BY <3>2, <3>3
  <2>10. QED
    BY <2>1, <2>2, <2>4, <2>8, <2>9, OneCopyUndisturbed
<1>11. ASSUME NEW s \in Sessions, FinishMapping(s) PROVE Goal
  <2>1. PICK new :
          /\ session' = [session EXCEPT ![s] = new]
          /\ new.seen = session[s].seen /\ new.op = session[s].op /\ new.stage = "commit"
          /\ new.now.hitl = session[s].now.hitl /\ new.now.payload = session[s].now.payload
          /\ new.now.reference # "failed" => ~session[s].bad
    BY <1>11, MappingFinished
  <2>2. /\ Open(session[s]) /\ session[s].stage = "posting" /\ session[s].todo = {}
        /\ UNCHANGED <<row, posts>>
    BY <1>11, MappingFinished DEF Open
  <2>3. PostsGrow /\ SameDecision(row, row')
    BY <2>2 DEF PostsGrow, SameDecision
  <2>4. session[s].op # "receipt"
    BY <2>2 DEF Decisions
  <2>5. s \in Spocs
    BY <2>2, <2>4 DEF Undisturbed, OthersCopy
  <2>6. OwnCopy(session[s], row, posts)
    BY <2>2, <2>5 DEF Undisturbed
  <2>7. PostedInFull(new.now, posts')
    BY <2>1, <2>2, <2>6 DEF OwnCopy, PostedInFull
  <2>8. OwnCopy(new, row', posts')
    BY <2>1, <2>2, <2>6, <2>7 DEF OwnCopy
  <2>9. QED
    BY <2>1, <2>2, <2>3, <2>5, <2>8, OneCopyUndisturbed, <1>0
<1>12. ASSUME NEW s \in Sessions, Abort(s) PROVE Goal
  <2>1. session' = [session EXCEPT ![s] = IdleSession] /\ UNCHANGED <<row, posts>>
    BY <1>12 DEF Abort
  <2>2. ~Open(IdleSession) /\ PostsGrow /\ SameDecision(row, row')
    BY <2>1 DEF Open, IdleSession, PostsGrow, SameDecision
  <2>3. QED
    BY <2>1, <2>2, OneCopyUndisturbed, <1>0
<1>13. CASE UNCHANGED vars
  BY <1>0, <1>13 DEF vars, Undisturbed, OwnCopy, PostedInFull
<1>14. QED
  BY <1>2, <1>3, <1>4, <1>5, <1>6, <1>7, <1>8, <1>9, <1>10, <1>11, <1>12, <1>13, CommitUndisturbed
  DEF Next

LEMMA UndisturbedInitially == Init => Undisturbed
<1> SUFFICES ASSUME Init PROVE Undisturbed
  OBVIOUS
<1>1. row.reference = "none" /\ \A s \in Sessions : ~Open(session[s])
  BY NewRowsTyped DEF Init, Open, IdleSession
<1>2. QED
  BY <1>1 DEF Undisturbed, PostedInFull, Sessions

\* With one SPOC at a time, a row that shows its references as posted has every
\* reference of its payload in Oracle, whatever Oracle refuses, whatever answers are
\* lost and whatever the recheck and the run commit meanwhile.
THEOREM ProcessedIsPostedAlone == OneSpoc => (Spec => []ProcessedIsPosted)
<1> SUFFICES ASSUME OneSpoc PROVE Spec => []ProcessedIsPosted
  OBVIOUS
<1> DEFINE IInv == Matched /\ Undisturbed
<1>1. Init => IInv
  BY MatchedInitially, UndisturbedInitially
<1>2. IInv /\ HInv /\ [Next]_vars => IInv'
  BY MatchedStep, UndisturbedStep DEF HInv
<1>3. IInv => ProcessedIsPosted
  BY DEF Undisturbed, PostedInFull, ProcessedIsPosted
<1> HIDE DEF IInv
<1>4. QED
  BY <1>1, <1>2, <1>3, Invariance, PTL DEF Spec

\* With one SPOC at a time a rejected row stays rejected and no reference of it goes to
\* Oracle, in whatever order approvals, mappings, rechecks and receipts of the run begin
\* and commit, until a retry of a mapping that had failed.
THEOREM RejectStandsAlone == OneSpoc => (Spec => RejectStands)
<1> SUFFICES ASSUME OneSpoc PROVE Spec => RejectStands
  OBVIOUS
<1> DEFINE IInv == Matched /\ Undisturbed
<1>1. Init => IInv
  BY MatchedInitially, UndisturbedInitially
<1>2. IInv /\ HInv /\ [Next]_vars => IInv'
  BY MatchedStep, UndisturbedStep DEF HInv
<1>3. IInv /\ HInv /\ [Next]_vars =>
        [Rejected(row) => \/ Rejected(row') /\ posts' = posts
                          \/ \E s \in Spocs : RetriesFailed(s)]_vars
  BY UndisturbedStep DEF HInv, Stands
<1> HIDE DEF IInv
<1>4. QED
  BY <1>1, <1>2, <1>3, Invariance, PTL DEF Spec, RejectStands
=============================================================================
