------------------------- MODULE RowPipeline_proofs -------------------------
(***************************************************************************)
(* What holds of the line items of a run for any rows, reports, rates,      *)
(* remittances and answers of the model.                                    *)
(***************************************************************************)
EXTENDS RowPipeline, RuleEngine_proofs

(***************************************************************************)
(* The inputs.                                                              *)
(***************************************************************************)
LEMMA CreditsAre ==
    /\ RowsIn = 1..Len(Credits) /\ Len(Credits) \in Nat /\ IsFiniteSet(RowsIn)
    /\ \A r \in RowsIn : Credits[r] \in CreditRow
<1>1. RowsIn = 1..Len(Credits) /\ Len(Credits) \in Nat /\ \A r \in RowsIn : Credits[r] \in CreditRow
  BY ExtractionAssumption DEF RowsIn
<1>2. IsFiniteSet(1..Len(Credits))
  BY <1>1, FS_Interval
<1>3. QED
  BY <1>1, <1>2

\* The chunks divide the rows among them.
LEMMA ChunksPartition ==
    /\ ChunkCount \in Nat
    /\ \A r \in RowsIn : \E c \in Chunks : r \in RowsOf(c)
    /\ \A c, d \in Chunks : c # d => RowsOf(c) \cap RowsOf(d) = {}
<1> DEFINE n == Len(Credits)
<1>1. n \in Nat /\ RowsIn = 1..n /\ ChunkSize \in Nat \ {0}
  BY CreditsAre, ExtractionAssumption
<1>2. ChunkCount = (n + ChunkSize - 1) \div ChunkSize
  BY DEF ChunkCount
<1> HIDE DEF n
<1>3. \A a \in Int, b \in Nat \ {0} :
          /\ a \div b \in Int /\ b * (a \div b) <= a /\ a < b * (a \div b) + b
          /\ a >= 0 => a \div b >= 0
  OBVIOUS
<1>4. n + ChunkSize - 1 \in Nat
  BY <1>1
<1>5. ChunkCount \in Nat
  BY <1>1, <1>2, <1>3, <1>4
<1>6. ASSUME NEW r \in RowsIn PROVE \E c \in Chunks : r \in RowsOf(c)
  <2> DEFINE q == (r - 1) \div ChunkSize
             m == ChunkCount
  <2>1. r - 1 \in Nat /\ r <= n
    BY <1>1
  <2>2. q \in Nat /\ ChunkSize * q <= r - 1
    BY <1>1, <1>3, <2>1
  <2>3. n + ChunkSize - 1 < ChunkSize * m + ChunkSize
    BY <1>1, <1>2, <1>3, <1>4
  <2> HIDE DEF q, m
  <2>4. ChunkSize * q < ChunkSize * m
    BY <1>1, <1>5, <2>1, <2>2, <2>3 DEF m
  <2>5. q < m
    <3> SUFFICES ASSUME q >= m PROVE FALSE
      BY <1>5, <2>2 DEF m
    <3> DEFINE e == q - m
    <3>1. e \in Nat /\ ChunkSize * q = ChunkSize * m + ChunkSize * e
      BY <1>1, <1>5, <2>2 DEF m
    <3> HIDE DEF e
    <3>2. ChunkSize * e >= 0 /\ ChunkSize * e \in Int /\ ChunkSize * m \in Int
      BY <1>1, <1>5, <3>1 DEF m
    <3>3. QED
      BY <2>4, <3>1, <3>2
  <2>6. q + 1 \in Chunks
    BY <1>5, <2>2, <2>5 DEF Chunks, m
  <2>7. (r - 1) \div ChunkSize = (q + 1) - 1
    BY <2>2 DEF q
  <2>8. r \in RowsOf(q + 1)
    BY <2>7 DEF RowsOf
  <2>9. QED
    BY <2>6, <2>8
<1>7. \A c, d \in Chunks : c # d => RowsOf(c) \cap RowsOf(d) = {}
  <2>1. \A c, d \in Chunks : c - 1 = d - 1 => c = d
    BY DEF Chunks
  <2>2. QED
    BY <2>1 DEF RowsOf
<1>8. QED
  BY <1>5, <1>6, <1>7

\* The batches divide the rows that have a text and that layer 2A did not settle.
LEMMA BatchesPartition ==
    ASSUME NEW rows
    PROVE  /\ UNION BatchesOf(rows) = rows
           /\ \A j \in BatchesOf(rows) : j # {}
           /\ \A j, k \in BatchesOf(rows) : j = k \/ j \cap k = {}
<1> DEFINE B(r) == Cardinality({q \in rows : q < r}) \div BatchSize
<1>1. BatchesOf(rows) = {{r \in rows : B(r) = b} : b \in {B(r) : r \in rows}}
  BY DEF BatchesOf
<1> HIDE DEF B
<1> DEFINE Part(b) == {r \in rows : B(r) = b}
<1>2. \A j : j \in BatchesOf(rows) <=> \E s \in rows : j = Part(B(s))
  BY <1>1
<1>3. \A s \in rows : s \in Part(B(s)) /\ Part(B(s)) \in SUBSET rows
  OBVIOUS
<1>4. \A s, t \in rows : Part(B(s)) = Part(B(t)) \/ Part(B(s)) \cap Part(B(t)) = {}
  <2>1. \A s, t \in rows : B(s) # B(t) => Part(B(s)) \cap Part(B(t)) = {}
    OBVIOUS
  <2>2. QED
    BY <2>1
<1> HIDE DEF Part
<1>5. \A j \in BatchesOf(rows) : j # {} /\ j \in SUBSET rows
  BY <1>2, <1>3
<1>6. \A r \in rows : \E j \in BatchesOf(rows) : r \in j
  BY <1>2, <1>3
<1>7. \A j, k \in BatchesOf(rows) : j = k \/ j \cap k = {}
  BY <1>2, <1>4
<1>8. QED
  BY <1>5, <1>6, <1>7

Asked(c) == {r \in NotFound(c) : Text(r) # None}
LEMMA BatchesOfChunk ==
    ASSUME NEW c
    PROVE  /\ UNION Batches(c) = Asked(c)
           /\ \A j \in Batches(c) : j # {} /\ j \in SUBSET Asked(c)
           /\ \A j, k \in Batches(c) : j = k \/ j \cap k = {}
<1> DEFINE Of(ou) == {r \in Asked(c) : Credits[r].ou = ou}
           All == OUs \cup {None}
<1>1. Batches(c) = UNION {BatchesOf(Of(ou)) : ou \in All}
  <2>1. \A ou : Of(ou) = {r \in NotFound(c) : Text(r) # None /\ Credits[r].ou = ou}
    BY DEF Asked
  <2>2. QED
    BY SMTT(20), <2>1 DEF Batches
<1>2. \A r \in Asked(c) : Credits[r].ou \in All
  BY CreditsAre DEF Asked, NotFound, RowsOf, CreditRow
<1>3. \A ou : /\ UNION BatchesOf(Of(ou)) = Of(ou)
              /\ \A j \in BatchesOf(Of(ou)) : j # {}
              /\ \A j, k \in BatchesOf(Of(ou)) : j = k \/ j \cap k = {}
  BY BatchesPartition
<1>4. \A ou, v : ou # v => Of(ou) \cap Of(v) = {}
  OBVIOUS
<1>5. \A ou : \A j \in BatchesOf(Of(ou)) : j \in SUBSET Of(ou)
  <2> HIDE DEF Of
  <2> QED
    BY <1>3
<1>6. \A r \in Asked(c) : r \in Of(Credits[r].ou)
  OBVIOUS
<1>7. \A ou : Of(ou) \in SUBSET Asked(c)
  OBVIOUS
<1> HIDE DEF Of, All
<1>8. \A j \in Batches(c) : j # {} /\ j \in SUBSET Asked(c)
  BY <1>1, <1>3, <1>5, <1>7
<1>9. \A r \in Asked(c) : \E j \in Batches(c) : r \in j
  BY <1>1, <1>2, <1>3, <1>6
<1>10. ASSUME NEW j \in Batches(c), NEW k \in Batches(c), j # k PROVE j \cap k = {}
  <2>1. PICK ou \in All, v \in All : j \in BatchesOf(Of(ou)) /\ k \in BatchesOf(Of(v))
    BY <1>1
  <2>2. CASE ou = v
    BY <1>3, <1>10, <2>1, <2>2
  <2>3. CASE ou # v
    BY <1>4, <1>5, <2>1, <2>3
  <2>4. QED
    BY <2>2, <2>3
<1>11. QED
  BY <1>8, <1>9, <1>10

AllBatches == UNION {Batches(c) : c \in Chunks}
LEMMA JobsAre ==
    ASSUME NEW c \in Chunks
    PROVE  {j \in AllBatches : j \subseteq RowsOf(c)} = Batches(c)
<1>1. \A d \in Chunks : \A j \in Batches(d) : j # {} /\ j \in SUBSET RowsOf(d)
  BY BatchesOfChunk DEF Asked, NotFound
<1>2. \A d \in Chunks : d # c => RowsOf(c) \cap RowsOf(d) = {}
  BY ChunksPartition
<1>3. ASSUME NEW d \in Chunks, NEW j \in Batches(d), j \subseteq RowsOf(c) PROVE d = c
  BY <1>1, <1>2, <1>3
<1>4. QED
  BY <1>1, <1>3 DEF AllBatches

(***************************************************************************)
(* Buckets.                                                                 *)
(***************************************************************************)
RowsListed(s) == {s[k].at : k \in DOMAIN s}
Distinct(s) == \A k, l \in DOMAIN s : s[k].at = s[l].at => k = l

\* One item for each row of S.
LEMMA Listing ==
    ASSUME NEW S \in SUBSET RowsIn, NEW T, NEW f, \A r \in S : f[r] \in T /\ f[r].at = r
    PROVE  /\ InOrder(f, S) \in Seq(T)
           /\ RowsListed(InOrder(f, S)) = S /\ Distinct(InOrder(f, S))
<1> DEFINE s == InOrder(f, S)
<1>1. S \in SUBSET Nat /\ IsFiniteSet(S)
  <2>1. IsFiniteSet(RowsIn) /\ RowsIn \in SUBSET Nat
    BY CreditsAre
  <2>2. QED
    BY <2>1, FS_Subset
<1>2. /\ s \in Seq({f[r] : r \in S})
      /\ \A k \in DOMAIN s : Nth(S, k) \in S /\ s[k] = f[Nth(S, k)]
      /\ \A k, l \in DOMAIN s : Nth(S, k) = Nth(S, l) => k = l
      /\ \A r \in S : \E k \in DOMAIN s : Nth(S, k) = r
  <2>1. /\ InOrder(f, S) \in Seq({f[r] : r \in S})
        /\ \A k \in DOMAIN InOrder(f, S) : Nth(S, k) \in S /\ InOrder(f, S)[k] = f[Nth(S, k)]
        /\ \A k, l \in DOMAIN InOrder(f, S) : Nth(S, k) = Nth(S, l) => k = l
        /\ \A r \in S : \E k \in DOMAIN InOrder(f, S) : Nth(S, k) = r
    BY ONLY SMTT(20), <1>1, InOrderOf
  <2>2. QED
    BY <2>1
<1> HIDE DEF s
<1>3. {f[r] : r \in S} \subseteq T
  OBVIOUS
<1>4. \A k \in DOMAIN s : s[k].at = Nth(S, k)
  BY <1>2
<1>5. s \in Seq(T)
  BY <1>2, <1>3
<1>6. QED
  BY <1>2, <1>4, <1>5 DEF s, RowsListed, Distinct

LEMMA Joining ==
    ASSUME NEW T, NEW s \in Seq(T), NEW t \in Seq(T)
    PROVE  /\ s \o t \in Seq(T) /\ RowsListed(s \o t) = RowsListed(s) \cup RowsListed(t)
           /\ Distinct(s) /\ Distinct(t) /\ RowsListed(s) \cap RowsListed(t) = {} => Distinct(s \o t)
<1> DEFINE u == s \o t
           m == Len(s)
           n == Len(t)
<1>1. /\ m \in Nat /\ n \in Nat /\ DOMAIN s = 1..m /\ DOMAIN t = 1..n
      /\ u \in Seq(T) /\ Len(u) = m + n /\ DOMAIN u = 1..(m + n)
      /\ \A k \in 1..(m + n) : u[k] = IF k <= m THEN s[k] ELSE t[k - m]
  OBVIOUS
<1> HIDE DEF u, m, n
<1>2. \A k \in DOMAIN u : \/ k \in DOMAIN s /\ u[k] = s[k]
                          \/ k - m \in DOMAIN t /\ k \notin DOMAIN s /\ u[k] = t[k - m]
  BY <1>1
<1>3. \A k \in DOMAIN s : k \in DOMAIN u /\ u[k] = s[k]
  BY <1>1
<1>4. \A k \in DOMAIN t : k + m \in DOMAIN u /\ u[k + m] = t[k]
  BY <1>1
<1>5. RowsListed(u) = RowsListed(s) \cup RowsListed(t)
  BY <1>2, <1>3, <1>4 DEF RowsListed
<1>6. ASSUME Distinct(s), Distinct(t), RowsListed(s) \cap RowsListed(t) = {} PROVE Distinct(u)
  <2>1. \A k \in DOMAIN s, l \in DOMAIN t : s[k].at # t[l].at
    BY <1>6 DEF RowsListed
  <2>2. ASSUME NEW k \in DOMAIN u, NEW l \in DOMAIN u, u[k].at = u[l].at PROVE k = l
    <3>1. k \in Int /\ l \in Int /\ m \in Int
      BY <1>1
    <3>2. CASE k \in DOMAIN s
      BY <1>2, <1>6, <2>1, <2>2, <3>2 DEF Distinct
    <3>3. CASE k \notin DOMAIN s
      <4>1. k - m \in DOMAIN t /\ u[k] = t[k - m]
        BY <1>2, <3>3
      <4>2. l \notin DOMAIN s /\ l - m \in DOMAIN t /\ u[l] = t[l - m]
        BY <1>2, <2>1, <2>2, <4>1
      <4>3. k - m = l - m
        BY <1>6, <2>2, <4>1, <4>2 DEF Distinct
      <4>4. QED
        BY <3>1, <4>3
    <3>4. QED
      BY <3>2, <3>3
  <2>3. QED
    BY <2>2 DEF Distinct
<1>7. QED
  BY <1>1, <1>5, <1>6 DEF u

\* A payment that names only invoices of the report.
Known(report) ==
    {p \in Payment : \A k \in DOMAIN p.invoices :
                        LookupInvoice(report, p.invoices[k], Credits[p.at].ou) # None}

\* A bucket as extraction fills it: no row is in it twice.
Fine(report, b) ==
    /\ b = [identified |-> b.identified, unknown |-> b.unknown]
    /\ b.identified \in Seq(Known(report)) /\ b.unknown \in Seq(NoPayment)
    /\ Distinct(b.identified) /\ Distinct(b.unknown)
    /\ RowsListed(b.identified) \cap RowsListed(b.unknown) = {}

LEMMA HeldAre ==
    ASSUME NEW b
    PROVE  RowsHeld(b) = RowsListed(b.identified) \cup RowsListed(b.unknown)
BY DEF RowsHeld, RowsListed

LEMMA FineIsBucket ==
    ASSUME NEW report, NEW b, Fine(report, b)
    PROVE  b \in Bucket
<1>1. Known(report) \subseteq Payment
  BY DEF Known
<1>2. b.identified \in Seq(Payment)
  BY <1>1 DEF Fine
<1>3. QED
  BY <1>2 DEF Fine, Bucket

LEMMA EmptyFine ==
    ASSUME NEW report
    PROVE  Fine(report, Empty) /\ RowsHeld(Empty) = {}
BY DEF Fine, Empty, RowsHeld, RowsListed, Distinct

LEMMA BothFine ==
    ASSUME NEW report, NEW a, NEW b, Fine(report, a), Fine(report, b),
           RowsHeld(a) \cap RowsHeld(b) = {}
    PROVE  /\ Fine(report, Both(a, b)) /\ RowsHeld(Both(a, b)) = RowsHeld(a) \cup RowsHeld(b)
<1> DEFINE i == a.identified \o b.identified
           u == a.unknown \o b.unknown
           P == Known(report)
<1>1. /\ RowsHeld(a) = RowsListed(a.identified) \cup RowsListed(a.unknown)
      /\ RowsHeld(b) = RowsListed(b.identified) \cup RowsListed(b.unknown)
  BY HeldAre
<1>2. /\ a.identified \in Seq(P) /\ b.identified \in Seq(P)
      /\ a.unknown \in Seq(NoPayment) /\ b.unknown \in Seq(NoPayment)
  BY DEF Fine
<1> HIDE DEF P
<1>3. i \in Seq(P) /\ RowsListed(i) = RowsListed(a.identified) \cup RowsListed(b.identified) /\ Distinct(i)
  BY <1>1, <1>2, Joining DEF Fine
<1>4. u \in Seq(NoPayment) /\ RowsListed(u) = RowsListed(a.unknown) \cup RowsListed(b.unknown) /\ Distinct(u)
  BY <1>1, <1>2, Joining DEF Fine
<1>5. Both(a, b) = [identified |-> i, unknown |-> u]
  BY DEF Both
<1> HIDE DEF i, u
<1>6. Both(a, b).identified = i /\ Both(a, b).unknown = u
  BY <1>5
<1>7. RowsHeld(Both(a, b)) = RowsListed(i) \cup RowsListed(u)
  BY <1>6, HeldAre
<1>8. RowsListed(i) \cap RowsListed(u) = {}
  BY <1>1, <1>3, <1>4 DEF Fine
<1>9. QED
  BY <1>1, <1>3, <1>4, <1>5, <1>6, <1>7, <1>8 DEF Fine, P

(***************************************************************************)
(* What the layers say of a row.                                            *)
(***************************************************************************)
LEMMA ReportCustomers ==
    ASSUME NEW report \in Reporting, NEW k \in DOMAIN report
    PROVE  report[k].customer \in Customers
<1>1. report[k] \in OpenInvoice
  BY DEF Reporting
<1>2. QED
  BY <1>1 DEF OpenInvoice

LEMMA FuzzyType ==
    ASSUME NEW report \in Reporting, NEW text, NEW ou, NEW min
    PROVE  /\ FuzzyCustomer(report, text, min) \in Customers \cup {None}
           /\ FuzzyCustomerInOu(report, text, ou, min) \in Customers \cup {None}
<1>1. \A names : BestMatch(text, names, min) \in names \cup {None}
  BY DEF BestMatch
<1>2. \A k \in DOMAIN report : report[k].customer \in Customers
  BY ReportCustomers
<1>3. \A v : CustomersIn(report, v) \subseteq Customers
  BY <1>2 DEF CustomersIn, InOu
<1>4. QED
  BY <1>1, <1>3 DEF FuzzyCustomer, FuzzyCustomerInOu

LEMMA Layer2AType ==
    ASSUME aging \in Reports, NEW r \in RowsIn
    PROVE  /\ Credits[r] \in CreditRow /\ aging \in Reporting
           /\ Confirmed(r) \in Seq(Numbers)
           /\ \A k \in DOMAIN Confirmed(r) : LookupInvoice(aging, Confirmed(r)[k], Credits[r].ou) # None
           /\ CustomerOf2A(r) \in Customers \cup {None}
           /\ PctOf2A(r) \in 0..100
<1>1. Credits[r] \in CreditRow /\ aging \in Reporting
  BY CreditsAre, ExtractionAssumption DEF Reporting
<1>2. Credits[r].written \in Seq(Numbers) /\ Credits[r].text \in Texts \cup {None}
  BY <1>1 DEF CreditRow
<1>3. /\ Confirmed(r) \in Seq(Numbers)
      /\ \A k \in DOMAIN Confirmed(r) : LookupInvoice(aging, Confirmed(r)[k], Credits[r].ou) # None
  BY <1>2, ConfirmKnows DEF Confirmed
<1>4. CustomerOf2A(r) \in Customers \cup {None}
  BY <1>1, FuzzyType DEF CustomerOf2A
<1>5. PctOf2A(r) \in 0..100
  <2> DEFINE names == IF Credits[r].ou = None THEN UNION {CustomersIn(aging, ou) : ou \in OusOf(aging)}
                      ELSE CustomersIn(aging, Credits[r].ou)
             scores == {Score[Text(r)][c] : c \in names}
  <2>1. CASE Text(r) = None \/ names = {}
    BY <2>1 DEF PctOf2A
  <2>2. CASE ~(Text(r) = None \/ names = {})
    <3>1. \A k \in DOMAIN aging : aging[k].customer \in Customers
      BY <1>1, ReportCustomers
    <3>2. \A v : CustomersIn(aging, v) \subseteq Customers
      BY <3>1 DEF CustomersIn, InOu
    <3>3. names \subseteq Customers /\ names # {}
      BY <2>2, <3>2
    <3>4. Text(r) \in Texts
      BY <1>2, <2>2 DEF Text
    <3> HIDE DEF names
    <3>5. \A c \in names : Score[Text(r)][c] \in 0..100
      BY <3>3, <3>4, RuleAssumption
    <3>6. scores \in SUBSET Nat /\ scores # {} /\ \A k \in scores : k <= 100
      BY <3>3, <3>5
    <3>7. scores \subseteq 0..100
      BY <3>5
    <3> HIDE DEF scores
    <3>8. Max(scores) \in 0..100
      BY <3>6, <3>7, Greatest
    <3>9. QED
      BY <2>2, <3>8 DEF PctOf2A, scores, names
  <2>3. QED
    BY <2>1, <2>2
<1>6. QED
  BY <1>1, <1>3, <1>4, <1>5

LEMMA Identified2AFine ==
    ASSUME aging \in Reports, NEW c
    PROVE  /\ Identified2A(c) \in Seq(Known(aging))
           /\ RowsListed(Identified2A(c)) = Found2A(c) /\ Distinct(Identified2A(c))
<1> DEFINE f == [r \in Found2A(c) |-> Layer2ARowToIdentified(r)]
           P == Known(aging)
<1>1. Found2A(c) \in SUBSET RowsIn
  BY DEF Found2A, RowsOf
<1>2. ASSUME NEW r \in Found2A(c) PROVE f[r] \in P /\ f[r].at = r
  <2>1. r \in RowsIn
    BY <1>1
  <2>2. f[r] = [at |-> r, invoices |-> Confirmed(r), customer |-> CustomerOf2A(r), pct |-> PctOf2A(r),
                confidence |-> None]
    BY DEF Layer2ARowToIdentified
  <2>3. QED
    BY <2>1, <2>2, Layer2AType DEF Known, Payment
<1> HIDE DEF f, P
<1>3. InOrder(f, Found2A(c)) \in Seq(P) /\ RowsListed(InOrder(f, Found2A(c))) = Found2A(c)
      /\ Distinct(InOrder(f, Found2A(c)))
  BY <1>1, <1>2, Listing
<1>4. QED
  BY <1>3 DEF Identified2A, f, P

LEMMA ClassifyFine ==
    ASSUME aging \in Reports, NEW rows \in SUBSET RowsIn, NEW items,
           \A r \in rows : items[r] \in Answers \cup {None} /\ ~Raises(items[r])
    PROVE  Fine(aging, ClassifyRows(rows, items)) /\ RowsHeld(ClassifyRows(rows, items)) = rows
<1> DEFINE known == {r \in rows : Identifies(r, items[r])}
           f == [r \in known |-> IdentifiedPayment(r, items[r])]
           g == [r \in rows \ known |-> UnknownPayment(r, TRUE)]
           P == Known(aging)
<1>1. ASSUME NEW r \in known PROVE f[r] \in P /\ f[r].at = r
  <2> DEFINE answer == items[r]
             customer == CustomerByReport(r, answer)
  <2>1. r \in RowsIn /\ answer \in AiAnswer /\ answer.confidence # -1
    BY ExtractionAssumption DEF Identifies, Raises
  <2>2. answer.invoices \in Seq(Numbers) /\ answer.confidence \in 0..100
    BY <2>1 DEF AiAnswer
  <2>3. f[r] = [at |-> r, invoices |-> ConfirmedByReport(r, answer),
                customer |-> IF customer # None THEN customer ELSE CustomerOf2A(r),
                pct |-> PctOf2A(r), confidence |-> answer.confidence]
    BY DEF IdentifiedPayment
  <2>4. customer \in Customers \cup {None}
    BY <2>1, Layer2AType, FuzzyType DEF CustomerByReport
  <2> HIDE DEF answer, customer
  <2>5. /\ ConfirmedByReport(r, answer) \in Seq(Numbers)
        /\ \A k \in DOMAIN ConfirmedByReport(r, answer) :
              LookupInvoice(aging, ConfirmedByReport(r, answer)[k], Credits[r].ou) # None
    BY <2>2, ConfirmKnows DEF ConfirmedByReport
  <2> DEFINE shown == IF customer # None THEN customer ELSE CustomerOf2A(r)
  <2>6. shown \in Customers \cup {None} /\ PctOf2A(r) \in 0..100
    BY <2>1, <2>4, Layer2AType
  <2> HIDE DEF shown, f
  <2>7. QED
    BY <2>1, <2>2, <2>3, <2>5, <2>6 DEF Known, Payment, shown
<1>2. ASSUME NEW r \in rows \ known PROVE g[r] \in NoPayment /\ g[r].at = r
  BY DEF UnknownPayment, NoPayment
<1>3. known \in SUBSET RowsIn /\ rows \ known \in SUBSET RowsIn
  OBVIOUS
<1>4. ClassifyRows(rows, items) = [identified |-> InOrder(f, known), unknown |-> InOrder(g, rows \ known)]
  BY DEF ClassifyRows
<1> HIDE DEF f, g, P
<1>5. /\ InOrder(f, known) \in Seq(P) /\ RowsListed(InOrder(f, known)) = known
      /\ Distinct(InOrder(f, known))
  <2> HIDE DEF known
  <2> QED
    BY <1>1, <1>3, Listing
<1>6. /\ InOrder(g, rows \ known) \in Seq(NoPayment) /\ RowsListed(InOrder(g, rows \ known)) = rows \ known
      /\ Distinct(InOrder(g, rows \ known))
  <2> HIDE DEF known
  <2> QED
    BY <1>2, <1>3, Listing
<1> DEFINE b == ClassifyRows(rows, items)
<1>7. b.identified = InOrder(f, known) /\ b.unknown = InOrder(g, rows \ known)
  BY <1>4
<1>8. known \cap (rows \ known) = {} /\ known \cup (rows \ known) = rows
  OBVIOUS
<1> HIDE DEF b, known
<1>9. RowsHeld(b) = rows
  BY <1>5, <1>6, <1>7, <1>8, HeldAre
<1>10. Fine(aging, b)
  BY <1>4, <1>5, <1>6, <1>7, <1>8 DEF Fine, P, b
<1>11. QED
  BY <1>9, <1>10 DEF b

LEMMA SkippedFine ==
    ASSUME NEW c
    PROVE  LET list == InOrder([r \in Skipped(c) |-> UnknownPayment(r, FALSE)], Skipped(c))
           IN  list \in Seq(NoPayment) /\ RowsListed(list) = Skipped(c) /\ Distinct(list)
<1> DEFINE f == [r \in Skipped(c) |-> UnknownPayment(r, FALSE)]
<1>1. Skipped(c) \in SUBSET RowsIn
  BY DEF Skipped, NotFound, RowsOf
<1>2. \A r \in Skipped(c) : f[r] \in NoPayment /\ f[r].at = r
  BY <1>1 DEF UnknownPayment, NoPayment
<1> HIDE DEF f
<1>3. QED
  BY <1>1, <1>2, Listing DEF f

(***************************************************************************)
(* Extraction.                                                              *)
(***************************************************************************)
ChunkSteps == {"queued", "asking", "merged", "failed"}
JobSteps == {"waiting", "singly", "done", "raised"}
Job == [step : JobSteps, bucket : Bucket]
ExtractionType ==
    /\ aging \in Reports /\ chunk \in [Chunks -> ChunkSteps]
    /\ job \in [AllBatches -> Job] /\ got \in [Chunks -> Bucket]
    /\ faults \in 0..MaxFaults

\* A batch whose rows are asked one by one has some left; the others keep nothing.
JobFine(j) ==
    /\ Fine(aging, job[j].bucket)
    /\ IF job[j].step = "singly" THEN RowsHeld(job[j].bucket) \subseteq j /\ RowsHeld(job[j].bucket) # j
       ELSE job[j].bucket = Empty

\* A chunk under way holds the rows without a text and those of its finished batches.
Done(c) == UNION {j \in Batches(c) : job[j].step = "done"}
ChunkFine(c) ==
    /\ chunk[c] = "queued" => got[c] = Empty /\ \A j \in Batches(c) : job[j].step = "waiting"
    /\ chunk[c] = "asking" => Fine(aging, got[c]) /\ RowsHeld(got[c]) = Skipped(c) \cup Done(c)
    /\ chunk[c] = "merged" => Fine(aging, got[c]) /\ RowsHeld(got[c]) = RowsOf(c) \ Lost(c)
    /\ chunk[c] = "failed" => got[c] = Empty

ExtractionInv ==
    /\ ExtractionType
    /\ \A j \in AllBatches : JobFine(j)
    /\ \A c \in Chunks : ChunkFine(c)

\* What depends on the report alone stays as it is.
LEMMA ReportStays ==
    ASSUME aging' = aging
    PROVE  /\ AllBatches' = AllBatches
           /\ \A c : Batches(c)' = Batches(c) /\ Skipped(c)' = Skipped(c)
<1>1. \A r : Confirmed(r)' = Confirmed(r)
  BY DEF Confirmed
<1>2. \A c : NotFound(c)' = NotFound(c)
  BY <1>1 DEF NotFound
<1>3. \A c : Skipped(c)' = Skipped(c)
  BY <1>2 DEF Skipped, Text
<1>4. \A c : Batches(c)' = Batches(c)
  BY <1>2 DEF Batches, Text
<1>5. QED
  BY <1>3, <1>4 DEF AllBatches

LEMMA LostIs ==
    ASSUME NEW c \in Chunks
    PROVE  ExtractionType =>
             Lost(c) = IF chunk[c] = "failed" THEN RowsOf(c)
                       ELSE UNION {j \in Batches(c) : job[j].step = "raised"}
<1>1. ExtractionType => Jobs(c) = Batches(c)
  BY JobsAre DEF ExtractionType, Jobs
<1>2. QED
  BY <1>1 DEF Lost

LEMMA BatchesApart ==
    ASSUME NEW c \in Chunks, NEW d \in Chunks, c # d, NEW j \in Batches(c)
    PROVE  j \notin Batches(d)
<1>1. \A e \in Chunks : \A k \in Batches(e) : k # {} /\ k \in SUBSET RowsOf(e)
  BY BatchesOfChunk DEF Asked, NotFound
<1>2. RowsOf(c) \cap RowsOf(d) = {}
  BY ChunksPartition
<1>3. QED
  BY <1>1, <1>2

\* A step of one chunk: the others are as they were.
LEMMA ChunkStep ==
    ASSUME ExtractionInv, NEW c \in Chunks, aging' = aging, faults' \in 0..MaxFaults,
           NEW s \in ChunkSteps, chunk' = [chunk EXCEPT ![c] = s],
           NEW b, Fine(aging, b), got' = [got EXCEPT ![c] = b],
           job' \in [AllBatches -> Job], \A j \in AllBatches : j \notin Batches(c) => job'[j] = job[j],
           \A j \in Batches(c) : JobFine(j)',
           ChunkFine(c)'
    PROVE  ExtractionInv'
<1>1. ExtractionType'
  <2>1. b \in Bucket
    BY FineIsBucket
  <2>2. got' \in [Chunks -> Bucket] /\ chunk' \in [Chunks -> ChunkSteps]
    BY <2>1 DEF ExtractionInv, ExtractionType
  <2>3. QED
    BY <2>2, ReportStays DEF ExtractionInv, ExtractionType
<1>2. ASSUME NEW j \in AllBatches PROVE JobFine(j)'
  <2>1. CASE j \notin Batches(c)
    BY <2>1 DEF JobFine, ExtractionInv
  <2>2. QED
    BY <2>1
<1>3. ASSUME NEW d \in Chunks, d # c PROVE ChunkFine(d)'
  <2>1. chunk'[d] = chunk[d] /\ got'[d] = got[d]
    BY <1>3 DEF ExtractionInv, ExtractionType
  <2>2. \A j \in Batches(d) : job'[j] = job[j]
    BY <1>3, BatchesApart DEF AllBatches
  <2>3. Batches(d)' = Batches(d) /\ Skipped(d)' = Skipped(d)
    BY ReportStays
  <2>4. Done(d)' = Done(d)
    BY <2>2, <2>3 DEF Done
  <2>5. Lost(d)' = Lost(d)
    <3>1. Lost(d) = IF chunk[d] = "failed" THEN RowsOf(d)
                    ELSE UNION {j \in Batches(d) : job[j].step = "raised"}
      BY LostIs DEF ExtractionInv
    <3>2. Jobs(d)' = Batches(d)
      BY <1>1, <2>3, JobsAre, ReportStays DEF ExtractionType, Jobs
    <3>3. Lost(d)' = IF chunk'[d] = "failed" THEN RowsOf(d)
                     ELSE UNION {j \in Batches(d) : job'[j].step = "raised"}
      BY <3>2 DEF Lost
    <3>4. QED
      BY <2>1, <2>2, <3>1, <3>3
  <2>6. ChunkFine(d)
    BY DEF ExtractionInv
  <2>7. QED
    BY <2>1, <2>2, <2>3, <2>4, <2>5, <2>6 DEF ChunkFine
<1>4. QED
  BY <1>1, <1>2, <1>3, ReportStays DEF ExtractionInv

LEMMA ExtractionStarts == InitExtraction => ExtractionInv
<1> SUFFICES ASSUME InitExtraction PROVE ExtractionInv
  OBVIOUS
<1>1. Fine(aging, Empty) /\ RowsHeld(Empty) = {} /\ Empty \in Bucket
  BY EmptyFine, FineIsBucket
<1>2. \A j \in AllBatches : job[j] = [step |-> "waiting", bucket |-> Empty]
  BY DEF InitExtraction, AllBatches
<1>3. ExtractionType
  <2>1. [step |-> "waiting", bucket |-> Empty] \in Job
    BY <1>1 DEF Job, JobSteps
  <2>2. job \in [AllBatches -> Job]
    BY <2>1 DEF InitExtraction, AllBatches
  <2>3. QED
    BY <1>1, <2>2, ExtractionAssumption DEF InitExtraction, ExtractionType, ChunkSteps
<1>4. \A j \in AllBatches : JobFine(j)
  BY <1>1, <1>2 DEF JobFine
<1>5. ASSUME NEW c \in Chunks PROVE ChunkFine(c)
  <2>1. chunk[c] = "queued" /\ got[c] = Empty
    BY DEF InitExtraction
  <2>2. \A j \in Batches(c) : job[j].step = "waiting"
    BY <1>2 DEF AllBatches
  <2>3. QED
    BY <2>1, <2>2 DEF ChunkFine
<1>6. QED
  BY <1>3, <1>4, <1>5 DEF ExtractionInv

LEMMA StartChunkStep ==
    ASSUME ExtractionInv, NEW c \in Chunks, StartChunk(c)
    PROVE  ExtractionInv'
<1> DEFINE list == InOrder([r \in Skipped(c) |-> UnknownPayment(r, FALSE)], Skipped(c))
           b == [identified |-> <<>>, unknown |-> list]
<1>1. list \in Seq(NoPayment) /\ RowsListed(list) = Skipped(c) /\ Distinct(list)
  BY SkippedFine
<1>2. chunk[c] = "queued" /\ got[c] = Empty /\ \A j \in Batches(c) : job[j].step = "waiting"
  BY DEF StartChunk, ExtractionInv, ChunkFine
<1>3. got' = [got EXCEPT ![c] = [got[c] EXCEPT !.unknown = list]]
  BY DEF StartChunk
<1> HIDE DEF list
<1>4. [got[c] EXCEPT !.unknown = list] = b
  BY <1>2 DEF Empty
<1>5. Fine(aging, b) /\ RowsHeld(b) = Skipped(c)
  <2>1. b.identified = <<>> /\ b.unknown = list
    OBVIOUS
  <2>2. RowsListed(<<>>) = {} /\ Distinct(<<>>) /\ <<>> \in Seq(Known(aging))
    BY DEF RowsListed, Distinct
  <2> HIDE DEF b
  <2>3. RowsHeld(b) = Skipped(c)
    BY <1>1, <2>1, <2>2, HeldAre
  <2>4. QED
    BY <1>1, <2>1, <2>2, <2>3 DEF Fine, b
<1> HIDE DEF b
<1>6. aging' = aging /\ job' = job /\ faults' = faults /\ chunk' = [chunk EXCEPT ![c] = "asking"]
  BY DEF StartChunk
<1>7. Batches(c)' = Batches(c) /\ Skipped(c)' = Skipped(c)
  BY <1>6, ReportStays
<1>8. chunk'[c] = "asking" /\ got'[c] = b
  BY <1>3, <1>4, <1>6 DEF ExtractionInv, ExtractionType
<1>9. Done(c)' = {}
  BY <1>2, <1>6, <1>7 DEF Done
<1>10. ChunkFine(c)'
  BY <1>5, <1>6, <1>7, <1>8, <1>9 DEF ChunkFine
<1>11. \A j \in Batches(c) : JobFine(j)'
  BY <1>6 DEF ExtractionInv, JobFine, AllBatches
<1>12. "asking" \in ChunkSteps /\ job' \in [AllBatches -> Job] /\ faults' \in 0..MaxFaults
  BY <1>6 DEF ChunkSteps, ExtractionInv, ExtractionType
<1>13. QED
  BY <1>3, <1>4, <1>5, <1>6, <1>10, <1>11, <1>12, ChunkStep

\* A step of one batch: what it has classified goes to the chunk when it is done.
LEMMA BatchStep ==
    ASSUME ExtractionInv, NEW c \in Chunks, chunk[c] = "asking", UNCHANGED <<aging, chunk, faults>>,
           NEW j \in Batches(c), job[j].step \in {"waiting", "singly"},
           NEW s \in JobSteps, NEW w, Fine(aging, w), job' = [job EXCEPT ![j] = [step |-> s, bucket |-> w]],
           IF s = "singly" THEN RowsHeld(w) \subseteq j /\ RowsHeld(w) # j ELSE w = Empty,
           NEW b, got' = [got EXCEPT ![c] = b],
           IF s = "done" THEN Fine(aging, b) /\ RowsHeld(b) = RowsHeld(got[c]) \cup j ELSE b = got[c]
    PROVE  ExtractionInv'
<1>1. Fine(aging, got[c]) /\ RowsHeld(got[c]) = Skipped(c) \cup Done(c)
  BY DEF ExtractionInv, ChunkFine
<1>2. j \in AllBatches /\ job \in [AllBatches -> Job] /\ chunk \in [Chunks -> ChunkSteps]
      /\ got \in [Chunks -> Bucket] /\ faults \in 0..MaxFaults
  BY DEF AllBatches, ExtractionInv, ExtractionType
<1>3. w \in Bucket /\ [step |-> s, bucket |-> w] \in Job
  BY FineIsBucket DEF Job
<1>4. job' \in [AllBatches -> Job] /\ \A k \in AllBatches : k # j => job'[k] = job[k]
  BY <1>2, <1>3
<1>5. job'[j].step = s /\ job'[j].bucket = w
  BY <1>2
<1>6. ASSUME NEW k \in Batches(c) PROVE JobFine(k)'
  <2>1. k \in AllBatches
    BY DEF AllBatches
  <2>2. CASE k = j
    BY <1>5, <2>2 DEF JobFine
  <2>3. CASE k # j
    <3>1. JobFine(k) /\ job'[k] = job[k]
      BY <1>4, <2>1, <2>3 DEF ExtractionInv
    <3>2. QED
      BY <3>1 DEF JobFine
  <2>4. QED
    BY <2>2, <2>3
<1>7. Batches(c)' = Batches(c) /\ Skipped(c)' = Skipped(c)
  BY ReportStays
<1>8. \A k \in Batches(c) : k # j => job'[k] = job[k]
  BY <1>4 DEF AllBatches
<1>9. Done(c)' = IF s = "done" THEN Done(c) \cup j ELSE Done(c)
  <2>1. \A k \in Batches(c) : job'[k].step = "done"
            <=> job[k].step = "done" \/ (k = j /\ s = "done")
    BY <1>5, <1>8
  <2>2. QED
    BY <1>7, <2>1 DEF Done
<1>10. Fine(aging, b) /\ RowsHeld(b) = Skipped(c) \cup Done(c)'
  BY <1>1, <1>9
<1>11. got'[c] = b /\ chunk' = [chunk EXCEPT ![c] = "asking"] /\ chunk'[c] = "asking"
  BY <1>2
<1>12. ChunkFine(c)'
  BY <1>7, <1>10, <1>11 DEF ChunkFine
<1>13. \A k \in AllBatches : k \notin Batches(c) => job'[k] = job[k]
  BY <1>4
<1>14. "asking" \in ChunkSteps /\ faults' \in 0..MaxFaults /\ aging' = aging
  BY <1>2 DEF ChunkSteps
<1>15. QED
  BY <1>4, <1>6, <1>10, <1>11, <1>12, <1>13, <1>14, ChunkStep

LEMMA AskStep ==
    ASSUME ExtractionInv, NEW c \in Chunks, Ask(c)
    PROVE  ExtractionInv'
<1>1. ExtractionType /\ Jobs(c) = Batches(c)
  BY JobsAre DEF Jobs, ExtractionInv, ExtractionType
<1>2. PICK j \in Batches(c) :
          \/ \E items \in [j -> Answers \cup {None}] : AnswerBatch(c, j, items)
          \/ FailBatch(c, j)
          \/ \E answer \in Answers \cup {None} : AnswerRow(c, j, answer)
  BY <1>1 DEF Ask
<1>3. /\ chunk[c] = "asking" /\ UNCHANGED <<aging, chunk, faults>>
      /\ job[j].step \in {"waiting", "singly"}
  BY <1>2 DEF AnswerBatch, FailBatch, AnswerRow
<1>4. j \in AllBatches /\ job \in [AllBatches -> Job] /\ got \in [Chunks -> Bucket] /\ aging \in Reports
  BY <1>1 DEF AllBatches, ExtractionType
<1>5. job[j] = [step |-> job[j].step, bucket |-> job[j].bucket]
  BY <1>4 DEF Job
<1>6. j # {} /\ j \in SUBSET RowsIn /\ j \cap Skipped(c) = {}
  <2>1. j # {} /\ j \in SUBSET Asked(c)
    BY BatchesOfChunk
  <2>2. QED
    BY <2>1 DEF Asked, Skipped, NotFound, RowsOf
<1>7. Fine(aging, got[c]) /\ RowsHeld(got[c]) \cap j = {}
  <2>1. Fine(aging, got[c]) /\ RowsHeld(got[c]) = Skipped(c) \cup Done(c)
    BY <1>3 DEF ExtractionInv, ChunkFine
  <2>2. \A k \in Batches(c) : job[k].step = "done" => k \cap j = {}
    BY <1>3, BatchesOfChunk
  <2>3. Done(c) \cap j = {}
    BY <2>2 DEF Done
  <2>4. QED
    BY <1>6, <2>1, <2>3
<1>8. got = [got EXCEPT ![c] = got[c]]
  BY <1>4
<1>9. JobFine(j) /\ Fine(aging, Empty) /\ RowsHeld(Empty) = {}
  BY <1>4, EmptyFine DEF ExtractionInv
<1>10. ASSUME job' = [job EXCEPT ![j] = [step |-> "raised", bucket |-> Empty]], got' = got PROVE ExtractionInv'
  <2>1. "raised" \in JobSteps /\ "raised" # "singly" /\ "raised" # "done"
    BY DEF JobSteps
  <2>2. QED
    BY <1>3, <1>8, <1>9, <1>10, <2>1, BatchStep
<1>11. ASSUME NEW items \in [j -> Answers \cup {None}], AnswerBatch(c, j, items) PROVE ExtractionInv'
  <2>1. job[j].step = "waiting" /\ job[j].bucket = Empty
    BY <1>9, <1>11 DEF AnswerBatch, JobFine
  <2>2. CASE \E r \in j : Raises(items[r])
    <3>1. job' = [job EXCEPT ![j] = [step |-> "raised", bucket |-> Empty]] /\ got' = got
      BY <1>4, <1>5, <1>11, <2>1, <2>2 DEF AnswerBatch
    <3>2. QED
      BY <1>10, <3>1
  <2>3. CASE ~\E r \in j : Raises(items[r])
    <3> DEFINE new == ClassifyRows(j, items)
               b == Both(got[c], new)
    <3>1. job' = [job EXCEPT ![j] = [step |-> "done", bucket |-> Empty]] /\ got' = [got EXCEPT ![c] = b]
      BY <1>4, <1>5, <1>11, <2>1, <2>3 DEF AnswerBatch
    <3>2. Fine(aging, new) /\ RowsHeld(new) = j
      BY <1>4, <1>6, <2>3, ClassifyFine
    <3> HIDE DEF new
    <3>3. Fine(aging, b) /\ RowsHeld(b) = RowsHeld(got[c]) \cup j
      BY <1>7, <3>2, BothFine
    <3> HIDE DEF b
    <3>4. "done" \in JobSteps /\ "done" # "singly"
      BY DEF JobSteps
    <3>5. QED
      BY <1>3, <1>9, <3>1, <3>3, <3>4, BatchStep
  <2>4. QED
    BY <2>2, <2>3
<1>12. ASSUME FailBatch(c, j) PROVE ExtractionInv'
  <2>1. job[j].step = "waiting" /\ job[j].bucket = Empty
    BY <1>9, <1>12 DEF FailBatch, JobFine
  <2>2. job' = [job EXCEPT ![j] = [step |-> "singly", bucket |-> Empty]] /\ got' = got
    <3>1. job' = [job EXCEPT ![j] = [job[j] EXCEPT !.step = "singly"]] /\ got' = got
      BY <1>12 DEF FailBatch
    <3>2. [job[j] EXCEPT !.step = "singly"] = [step |-> "singly", bucket |-> Empty]
      BY <1>5, <2>1
    <3>3. QED
      BY <3>1, <3>2
  <2>3. "singly" \in JobSteps /\ "singly" # "done"
    BY DEF JobSteps
  <2>4. QED
    BY <1>3, <1>6, <1>8, <1>9, <2>2, <2>3, BatchStep
<1>13. ASSUME NEW answer \in Answers \cup {None}, AnswerRow(c, j, answer) PROVE ExtractionInv'
  <2> DEFINE old == job[j].bucket
             left == j \ RowsHeld(old)
             r == Min(left)
             items == [q \in {r} |-> answer]
             new == ClassifyRows({r}, items)
             bucket == Both(old, new)
  <2>1. job[j].step = "singly" /\ Fine(aging, old) /\ RowsHeld(old) \subseteq j /\ RowsHeld(old) # j
    BY <1>9, <1>13 DEF AnswerRow, JobFine
  <2>2. r \in left
    <3>1. left # {} /\ left \in SUBSET Nat
      <4> DEFINE held == RowsHeld(old)
      <4>1. held \subseteq j /\ held # j /\ left = j \ held
        BY <2>1
      <4>2. j \in SUBSET Nat
        BY <1>6, CreditsAre
      <4> HIDE DEF held, left
      <4>3. QED
        BY <4>1, <4>2
    <3> HIDE DEF left
    <3>2. QED
      BY <3>1, Least
  <2>3. IF Raises(answer)
        THEN job' = [job EXCEPT ![j] = [step |-> "raised", bucket |-> Empty]] /\ UNCHANGED got
        ELSE IF left = {r}
        THEN /\ job' = [job EXCEPT ![j] = [step |-> "done", bucket |-> Empty]]
             /\ got' = [got EXCEPT ![c] = Both(@, bucket)]
        ELSE job' = [job EXCEPT ![j].bucket = bucket] /\ UNCHANGED got
    BY <1>13 DEF AnswerRow
  <2>4. CASE Raises(answer)
    <3>1. job' = [job EXCEPT ![j] = [step |-> "raised", bucket |-> Empty]] /\ got' = got
      BY <2>3, <2>4
    <3>2. QED
      BY <1>10, <3>1
  <2>5. CASE ~Raises(answer)
    <3>1. Fine(aging, new) /\ RowsHeld(new) = {r}
      <4>1. \A q \in {r} : items[q] = answer
        OBVIOUS
      <4>2. {r} \in SUBSET RowsIn
        BY <1>6, <2>2
      <4> HIDE DEF items, r
      <4>3. QED
        BY <1>4, <2>5, <4>1, <4>2, ClassifyFine
    <3> HIDE DEF new
    <3>2. Fine(aging, bucket) /\ RowsHeld(bucket) = RowsHeld(old) \cup {r}
      <4>1. RowsHeld(old) \cap RowsHeld(new) = {}
        BY <2>2, <3>1
      <4>2. Fine(aging, old) /\ Fine(aging, new)
        BY <2>1, <3>1
      <4> HIDE DEF old, r
      <4>3. /\ Fine(aging, Both(old, new))
            /\ RowsHeld(Both(old, new)) = RowsHeld(old) \cup RowsHeld(new)
        BY <4>1, <4>2, BothFine
      <4>4. QED
        BY <3>1, <4>3
    <3> HIDE DEF bucket, r
    <3>3. CASE left = {r}
      <4> DEFINE b == Both(got[c], bucket)
      <4>1. job' = [job EXCEPT ![j] = [step |-> "done", bucket |-> Empty]] /\ got' = [got EXCEPT ![c] = b]
        BY <2>3, <2>5, <3>3
      <4>2. RowsHeld(bucket) = j
        BY <2>1, <3>2, <3>3
      <4>3. Fine(aging, b) /\ RowsHeld(b) = RowsHeld(got[c]) \cup j
        <5>1. RowsHeld(got[c]) \cap RowsHeld(bucket) = {}
          BY <1>7, <4>2
        <5>2. /\ Fine(aging, Both(got[c], bucket))
              /\ RowsHeld(Both(got[c], bucket)) = RowsHeld(got[c]) \cup RowsHeld(bucket)
          <6> DEFINE g == got[c]
          <6>1. Fine(aging, g) /\ Fine(aging, bucket) /\ RowsHeld(g) \cap RowsHeld(bucket) = {}
            BY <1>7, <3>2, <5>1
          <6> HIDE DEF g
          <6>2. Fine(aging, Both(g, bucket)) /\ RowsHeld(Both(g, bucket)) = RowsHeld(g) \cup RowsHeld(bucket)
            BY <6>1, BothFine
          <6>3. QED
            BY <6>2 DEF g
        <5>3. QED
          BY <4>2, <5>2
      <4> HIDE DEF b
      <4>4. "done" \in JobSteps /\ "done" # "singly"
        BY DEF JobSteps
      <4>5. QED
        BY <1>3, <1>9, <4>1, <4>3, <4>4, BatchStep
    <3>4. CASE left # {r}
      <4>1. job' = [job EXCEPT ![j] = [step |-> "singly", bucket |-> bucket]] /\ got' = got
        BY <1>4, <1>5, <2>1, <2>3, <2>5, <3>4
      <4>2. RowsHeld(bucket) \subseteq j /\ RowsHeld(bucket) # j
        BY <2>1, <2>2, <3>2, <3>4
      <4>3. "singly" \in JobSteps /\ "singly" # "done"
        BY DEF JobSteps
      <4>4. QED
        BY <1>3, <1>8, <3>2, <4>1, <4>2, <4>3, BatchStep
    <3>5. QED
      BY <3>3, <3>4
  <2>6. QED
    BY <2>4, <2>5
<1>14. QED
  BY <1>2, <1>11, <1>12, <1>13

LEMMA MergeChunkStep ==
    ASSUME ExtractionInv, NEW c \in Chunks, MergeChunk(c)
    PROVE  ExtractionInv'
<1> DEFINE a == [identified |-> Identified2A(c), unknown |-> <<>>]
           b == Both(a, got[c])
<1>1. ExtractionType /\ Jobs(c) = Batches(c)
  BY JobsAre DEF Jobs, ExtractionInv, ExtractionType
<1>2. Fine(aging, got[c]) /\ RowsHeld(got[c]) = Skipped(c) \cup Done(c)
  BY DEF MergeChunk, ExtractionInv, ChunkFine
<1>3. Fine(aging, a) /\ RowsHeld(a) = Found2A(c)
  <2>1. a.identified = Identified2A(c) /\ a.unknown = <<>>
    OBVIOUS
  <2>2. RowsListed(<<>>) = {} /\ Distinct(<<>>) /\ <<>> \in Seq(NoPayment)
    BY DEF RowsListed, Distinct
  <2>3. aging \in Reports
    BY <1>1 DEF ExtractionType
  <2>4. /\ Identified2A(c) \in Seq(Known(aging)) /\ RowsListed(Identified2A(c)) = Found2A(c)
        /\ Distinct(Identified2A(c))
    BY <2>3, Identified2AFine
  <2> HIDE DEF a
  <2>5. RowsHeld(a) = Found2A(c)
    BY <2>1, <2>2, <2>4, HeldAre
  <2>6. QED
    BY <2>1, <2>2, <2>4, <2>5 DEF Fine, a
<1>4. Found2A(c) \cap (Skipped(c) \cup Done(c)) = {}
  <2>1. \A j \in Batches(c) : j \in SUBSET Asked(c)
    BY BatchesOfChunk
  <2>2. QED
    BY <2>1 DEF Found2A, Skipped, Done, Asked, NotFound
<1>5. Fine(aging, b) /\ RowsHeld(b) = Found2A(c) \cup Skipped(c) \cup Done(c)
  <2> HIDE DEF a
  <2>1. QED
    BY <1>2, <1>3, <1>4, BothFine
<1>6. got' = [got EXCEPT ![c] = b]
  <2> DEFINE i == got[c].identified
             u == got[c].unknown
             k == Identified2A(c) \o i
  <2>1. got[c] = [identified |-> i, unknown |-> u] /\ u \in Seq(NoPayment)
    BY <1>2 DEF Fine
  <2>2. <<>> \o u = u
    BY <2>1
  <2>3. b = [identified |-> k, unknown |-> u]
    BY <2>2 DEF Both
  <2>4. [got[c] EXCEPT !.identified = k] = b
    <3> HIDE DEF i, u, k, b
    <3>1. QED
      BY <2>1, <2>3
  <2>5. got' = [got EXCEPT ![c] = [got[c] EXCEPT !.identified = Identified2A(c) \o got[c].identified]]
    BY DEF MergeChunk
  <2>6. QED
    BY <2>4, <2>5
<1> HIDE DEF a, b
<1>7. aging' = aging /\ job' = job /\ faults' = faults /\ chunk' = [chunk EXCEPT ![c] = "merged"]
  BY DEF MergeChunk
<1>8. Batches(c)' = Batches(c) /\ Skipped(c)' = Skipped(c)
  BY <1>7, ReportStays
<1>9. chunk'[c] = "merged" /\ got'[c] = b
  BY <1>1, <1>6, <1>7 DEF ExtractionType
<1>10. Lost(c)' = UNION {j \in Batches(c) : job[j].step = "raised"}
  <2>1. Jobs(c)' = Batches(c)
    BY <1>1, <1>7 DEF Jobs
  <2>2. QED
    BY <1>7, <1>9, <2>1 DEF Lost
<1>11. RowsHeld(b) = RowsOf(c) \ Lost(c)'
  <2>1. RowsOf(c) = Found2A(c) \cup Skipped(c) \cup Asked(c) /\ Asked(c) \cap (Found2A(c) \cup Skipped(c)) = {}
    BY DEF Found2A, Skipped, Asked, NotFound
  <2>2. /\ UNION Batches(c) = Asked(c)
        /\ \A j, k \in Batches(c) : j = k \/ j \cap k = {}
    BY BatchesOfChunk
  <2>3. \A j \in Batches(c) : job[j].step \in {"done", "raised"}
    BY <1>1 DEF MergeChunk, Ended
  <2>4. Done(c) = Asked(c) \ Lost(c)'
    <3>1. \A r \in Asked(c) : \E j \in Batches(c) : r \in j
      BY <2>2
    <3>2. ASSUME NEW r \in Asked(c) PROVE r \in Done(c) <=> r \notin Lost(c)'
      <4>1. PICK j \in Batches(c) : r \in j
        BY <3>1
      <4>2. \A k \in Batches(c) : r \in k => k = j
        BY <2>2, <4>1
      <4>3. r \in Done(c) <=> job[j].step = "done"
        BY <4>1, <4>2 DEF Done
      <4>4. r \in Lost(c)' <=> job[j].step = "raised"
        BY <1>10, <4>1, <4>2
      <4>5. QED
        BY <2>3, <4>3, <4>4
    <3>3. Done(c) \subseteq Asked(c)
      BY <2>2 DEF Done
    <3>4. QED
      BY <3>2, <3>3
  <2>5. Lost(c)' \subseteq Asked(c)
    BY <1>10, <2>2
  <2>6. QED
    BY <1>5, <2>1, <2>4, <2>5
<1>12. ChunkFine(c)'
  BY <1>5, <1>7, <1>9, <1>11 DEF ChunkFine
<1>13. \A j \in Batches(c) : JobFine(j)'
  BY <1>7 DEF ExtractionInv, JobFine, AllBatches
<1>14. "merged" \in ChunkSteps /\ job' \in [AllBatches -> Job] /\ faults' \in 0..MaxFaults
  BY <1>1, <1>7 DEF ChunkSteps, ExtractionType
<1>15. QED
  BY <1>5, <1>6, <1>7, <1>12, <1>13, <1>14, ChunkStep

LEMMA FailChunkStep ==
    ASSUME ExtractionInv, NEW c \in Chunks, FailChunk(c)
    PROVE  ExtractionInv'
<1>1. aging' = aging /\ job' = job /\ chunk' = [chunk EXCEPT ![c] = "failed"] /\ got' = [got EXCEPT ![c] = Empty]
  BY DEF FailChunk
<1>2. faults' \in 0..MaxFaults /\ job' \in [AllBatches -> Job] /\ "failed" \in ChunkSteps
  BY <1>1, ExtractionAssumption DEF FailChunk, ExtractionInv, ExtractionType, ChunkSteps
<1>3. chunk'[c] = "failed" /\ got'[c] = Empty
  BY <1>1 DEF ExtractionInv, ExtractionType
<1>4. ChunkFine(c)'
  BY <1>3 DEF ChunkFine
<1>5. \A j \in Batches(c) : JobFine(j)'
  BY <1>1 DEF ExtractionInv, JobFine, AllBatches
<1>6. Fine(aging, Empty)
  BY EmptyFine
<1>7. QED
  BY <1>1, <1>2, <1>4, <1>5, <1>6, ChunkStep

LEMMA ExtractionKept ==
    ASSUME ExtractionInv, [Next]_vars
    PROVE  ExtractionInv' /\ (UNCHANGED extraction \/ \E c \in Chunks : chunk[c] \in {"queued", "asking"})
<1>1. CASE UNCHANGED extraction
  <2>1. AllBatches' = AllBatches /\ \A c : Batches(c)' = Batches(c) /\ Skipped(c)' = Skipped(c)
    BY <1>1, ReportStays DEF extraction
  <2>2. ExtractionType' /\ \A j \in AllBatches : JobFine(j)'
    BY <1>1, <2>1 DEF ExtractionInv, ExtractionType, JobFine, extraction
  <2>3. \A c \in Chunks : Done(c)' = Done(c) /\ Lost(c)' = Lost(c)
    BY <1>1, <2>1 DEF Done, Lost, Jobs, extraction
  <2>4. \A c \in Chunks : ChunkFine(c)'
    BY <1>1, <2>1, <2>3 DEF ExtractionInv, ChunkFine, extraction
  <2>5. QED
    BY <1>1, <2>1, <2>2, <2>4 DEF ExtractionInv
<1>2. ASSUME NEW c \in Chunks, Extract(c) \/ FailChunk(c) PROVE ExtractionInv' /\ chunk[c] \in {"queued", "asking"}
  <2>1. chunk[c] \in {"queued", "asking"}
    BY <1>2 DEF Extract, StartChunk, Ask, AnswerBatch, FailBatch, AnswerRow, MergeChunk, FailChunk
  <2>2. QED
    BY <1>2, <2>1, StartChunkStep, AskStep, MergeChunkStep, FailChunkStep DEF Extract
<1>3. CASE Evaluate
  BY <1>1, <1>3 DEF Evaluate, StartEvaluation, EvaluatePayment, EvaluateUnknown, CommitChunk
<1>4. CASE UNCHANGED vars \/ Finished
  BY <1>1, <1>4 DEF vars, Finished
<1>5. QED
  BY <1>2, <1>3, <1>4 DEF Next

(***************************************************************************)
(* Line items are appended, one by one.                                     *)
(***************************************************************************)
IsSequence == \E S : lines \in Seq(S)

LEMMA LinesAre ==
    ASSUME IsSequence
    PROVE  Len(lines) \in Nat /\ DOMAIN lines = 1..Len(lines)
BY DEF IsSequence

\* The item that a step appends is the only one it adds.
LEMMA Appended ==
    ASSUME IsSequence, NEW x, lines' = Append(lines, x)
    PROVE  /\ IsSequence' /\ Items' = Items \cup {x}
           /\ Len(lines') = Len(lines) + 1 /\ DOMAIN lines' = 1..(Len(lines) + 1)
           /\ \A k \in 1..Len(lines) : lines'[k] = lines[k]
           /\ lines'[Len(lines) + 1] = x
<1>1. PICK S : lines \in Seq(S)
  BY DEF IsSequence
<1>2. lines \in Seq(S \cup {x}) /\ lines' \in Seq(S \cup {x})
  BY <1>1
<1>3. /\ Len(lines') = Len(lines) + 1 /\ Len(lines) \in Nat
      /\ \A k \in 1..Len(lines) : lines'[k] = lines[k]
      /\ lines'[Len(lines) + 1] = x
  BY <1>1, <1>2
<1>4. DOMAIN lines = 1..Len(lines) /\ DOMAIN lines' = 1..(Len(lines) + 1)
  BY <1>1, <1>2, <1>3
<1>5. Items' = Items \cup {x}
  BY <1>3, <1>4 DEF Items
<1>6. QED
  BY <1>2, <1>3, <1>4, <1>5 DEF IsSequence

(***************************************************************************)
(* The rows of the chunks, in the order in which they are evaluated.        *)
(***************************************************************************)
Slots(c) == Len(got[c].identified) + Len(got[c].unknown)
RowAt(c, k) ==
    IF k <= Len(got[c].identified) THEN got[c].identified[k].at
    ELSE got[c].unknown[k - Len(got[c].identified)].at

LEMMA SlotsAre ==
    ASSUME NEW c, Fine(aging, got[c])
    PROVE  /\ Slots(c) \in Nat
           /\ Len(got[c].identified) \in Nat /\ DOMAIN got[c].identified = 1..Len(got[c].identified)
           /\ Len(got[c].unknown) \in Nat /\ DOMAIN got[c].unknown = 1..Len(got[c].unknown)
           /\ \A k, l \in 1..Slots(c) : RowAt(c, k) = RowAt(c, l) => k = l
           /\ {RowAt(c, k) : k \in 1..Slots(c)} = RowsHeld(got[c])
<1> DEFINE s == got[c].identified
           t == got[c].unknown
           m == Len(s)
           n == Len(t)
<1>1. /\ s \in Seq(Known(aging)) /\ t \in Seq(NoPayment) /\ Distinct(s) /\ Distinct(t)
      /\ RowsListed(s) \cap RowsListed(t) = {}
  BY DEF Fine
<1>2. m \in Nat /\ n \in Nat /\ DOMAIN s = 1..m /\ DOMAIN t = 1..n
  BY <1>1
<1>3. Slots(c) = m + n /\ \A k : RowAt(c, k) = IF k <= m THEN s[k].at ELSE t[k - m].at
  BY DEF Slots, RowAt
<1>4. RowsHeld(got[c]) = RowsListed(s) \cup RowsListed(t)
  BY HeldAre
<1> HIDE DEF s, t, m, n
<1>5. \A k \in 1..(m + n) : \/ k \in DOMAIN s /\ RowAt(c, k) = s[k].at
                            \/ k \notin DOMAIN s /\ k - m \in DOMAIN t /\ RowAt(c, k) = t[k - m].at
  BY <1>2, <1>3
<1>6. \A k \in DOMAIN s, l \in DOMAIN t : s[k].at # t[l].at
  BY <1>1 DEF RowsListed
<1>7. ASSUME NEW k \in 1..(m + n), NEW l \in 1..(m + n), RowAt(c, k) = RowAt(c, l) PROVE k = l
  <2>1. CASE k \in DOMAIN s
    BY <1>1, <1>5, <1>6, <1>7, <2>1 DEF Distinct
  <2>2. CASE k \notin DOMAIN s
    <3>1. l \notin DOMAIN s /\ k - m \in DOMAIN t /\ l - m \in DOMAIN t /\ t[k - m].at = t[l - m].at
      BY <1>5, <1>6, <1>7, <2>2
    <3>2. k - m = l - m
      BY <1>1, <3>1 DEF Distinct
    <3>3. QED
      BY <1>2, <3>2
  <2>3. QED
    BY <2>1, <2>2
<1>8. {RowAt(c, k) : k \in 1..(m + n)} = RowsListed(s) \cup RowsListed(t)
  <2>1. \A k \in DOMAIN s : k \in 1..(m + n) /\ RowAt(c, k) = s[k].at
    BY <1>2, <1>3
  <2>2. \A k \in DOMAIN t : k + m \in 1..(m + n) /\ RowAt(c, k + m) = t[k].at
    BY <1>2, <1>3
  <2>3. QED
    BY <1>5, <2>1, <2>2 DEF RowsListed
<1>9. /\ Slots(c) \in Nat /\ \A k, l \in 1..Slots(c) : RowAt(c, k) = RowAt(c, l) => k = l
      /\ {RowAt(c, k) : k \in 1..Slots(c)} = RowsHeld(got[c])
  BY <1>2, <1>3, <1>4, <1>7, <1>8
<1>10. QED
  BY <1>2, <1>9 DEF s, t, m, n

\* A finished chunk holds its rows that are not lost.
LEMMA HeldByChunk ==
    ASSUME ExtractionInv, Extracted, NEW c \in Chunks
    PROVE  /\ Fine(aging, got[c]) /\ RowsHeld(got[c]) = RowsOf(c) \ Lost(c)
           /\ Lost(c) \subseteq RowsOf(c)
<1>1. chunk[c] \in {"merged", "failed"} /\ ChunkFine(c)
  BY DEF Extracted, ExtractionInv
<1>2. Lost(c) = IF chunk[c] = "failed" THEN RowsOf(c)
                ELSE UNION {j \in Batches(c) : job[j].step = "raised"}
  BY LostIs DEF ExtractionInv
<1>3. CASE chunk[c] = "merged"
  <2>1. \A j \in Batches(c) : j \in SUBSET RowsOf(c)
    BY BatchesOfChunk DEF Asked, NotFound
  <2>2. QED
    BY <1>1, <1>2, <1>3, <2>1 DEF ChunkFine
<1>4. CASE chunk[c] = "failed"
  BY <1>1, <1>2, <1>4, EmptyFine DEF ChunkFine
<1>5. QED
  BY <1>1, <1>3, <1>4

(***************************************************************************)
(* The evaluation walks over the chunks, and over the rows of each.         *)
(***************************************************************************)
Statuses == {"extracting", "evaluating", "evaluated", "error"}
HeldBefore(n) == UNION {RowsHeld(got[c]) : c \in 1..(n - 1)}
Walk ==
    /\ IsSequence /\ Distinct(lines)
    /\ status \in Statuses /\ saved \in 0..Len(lines) /\ current \in 1..(ChunkCount + 1)
    /\ IF status = "extracting" THEN lines = <<>> /\ saved = 0 /\ current = 1 ELSE Extracted
    /\ status = "evaluating" =>
          /\ current \in Chunks
          /\ \A k \in (saved + 1)..Len(lines) :
                k - saved <= Slots(current) /\ lines[k].at = RowAt(current, k - saved)
    /\ status = "evaluated" => current = ChunkCount + 1 /\ saved = Len(lines)
    /\ status \in {"evaluating", "evaluated"} =>
          {lines[k].at : k \in 1..saved} = HeldBefore(current)

LEMMA WalkStarts == Init => Walk
<1> SUFFICES ASSUME Init PROVE Walk
  OBVIOUS
<1>1. lines = <<>> /\ lines \in Seq({}) /\ Len(lines) = 0 /\ DOMAIN lines = {}
  BY DEF Init
<1>2. ChunkCount \in Nat
  BY ChunksPartition
<1>3. status = "extracting" /\ saved = 0 /\ current = 1
  BY DEF Init
<1>4. IsSequence /\ Distinct(lines)
  BY <1>1 DEF IsSequence, Distinct
<1>5. QED
  BY <1>1, <1>2, <1>3, <1>4 DEF Walk, Statuses

LEMMA StartEvaluationStep ==
    ASSUME Walk, StartEvaluation
    PROVE  Walk'
<1>1. /\ status = "extracting" /\ lines = <<>> /\ saved = 0 /\ current = 1 /\ Extracted
      /\ status' = IF Chunks = {} THEN "evaluated" ELSE "evaluating"
      /\ UNCHANGED <<extraction, lines, saved, current>>
  BY DEF Walk, StartEvaluation
<1>2. Extracted' /\ IsSequence' /\ Distinct(lines)'
  BY <1>1 DEF Walk, Extracted, IsSequence, Distinct, extraction
<1>3. ChunkCount \in Nat /\ Chunks = 1..ChunkCount /\ Len(lines) = 0
  BY <1>1, ChunksPartition DEF Chunks
<1>4. IF Chunks = {} THEN ChunkCount = 0 ELSE 1 \in Chunks
  BY <1>3
<1>5. HeldBefore(1)' = {}
  BY DEF HeldBefore
<1>6. {lines'[k].at : k \in 1..saved'} = HeldBefore(current)'
  BY <1>1, <1>5
<1>7. QED
  BY <1>1, <1>2, <1>3, <1>4, <1>6 DEF Walk, Statuses

\* The next row of the chunk gets its line item.
LEMMA ItemStep ==
    ASSUME ExtractionInv, Walk, status = "evaluating", UNCHANGED <<extraction, current>>,
           NEW x, lines' = Append(lines, x),
           Len(lines) - saved + 1 <= Slots(current), x.at = RowAt(current, Len(lines) - saved + 1),
           \/ UNCHANGED <<status, saved>>
           \/ status' = "error" /\ saved' = Len(lines')
    PROVE  Walk'
<1> DEFINE n == Len(lines)
<1>1. /\ IsSequence' /\ Len(lines') = n + 1 /\ DOMAIN lines' = 1..(n + 1)
      /\ (\A k \in 1..n : lines'[k] = lines[k]) /\ lines'[n + 1] = x
  BY Appended DEF Walk
<1>2. n \in Nat /\ DOMAIN lines = 1..n /\ saved \in 0..n
  BY LinesAre DEF Walk
<1>3. /\ Extracted /\ current \in Chunks /\ Distinct(lines)
      /\ \A k \in (saved + 1)..n :
            k - saved <= Slots(current) /\ lines[k].at = RowAt(current, k - saved)
      /\ {lines[k].at : k \in 1..saved} = HeldBefore(current)
      /\ current \in 1..(ChunkCount + 1)
  BY DEF Walk
<1>4. /\ Slots(current) \in Nat
      /\ \A k, l \in 1..Slots(current) : RowAt(current, k) = RowAt(current, l) => k = l
      /\ {RowAt(current, k) : k \in 1..Slots(current)} = RowsHeld(got[current])
  BY <1>3, HeldByChunk, SlotsAre
<1> HIDE DEF n
<1>5. n - saved + 1 \in 1..Slots(current)
  BY <1>2, <1>4 DEF n
<1>6. x.at \in RowsOf(current)
  BY <1>3, <1>4, <1>5, HeldByChunk DEF n
<1>7. HeldBefore(current) \cap RowsOf(current) = {}
  <2>1. \A c \in 1..(current - 1) : c \in Chunks /\ c # current
    BY <1>3, ChunksPartition DEF Chunks
  <2>2. \A c \in 1..(current - 1) : RowsHeld(got[c]) \subseteq RowsOf(c) /\ RowsOf(c) \cap RowsOf(current) = {}
    BY <1>3, <2>1, HeldByChunk, ChunksPartition
  <2>3. QED
    BY <2>2 DEF HeldBefore
<1>8. ASSUME NEW k \in 1..n PROVE lines[k].at # x.at
  <2>1. CASE k \in 1..saved
    BY <1>3, <1>6, <1>7, <2>1
  <2>2. CASE k \notin 1..saved
    <3>1. k \in (saved + 1)..n
      BY <1>2, <2>2
    <3>2. k - saved \in 1..Slots(current) /\ lines[k].at = RowAt(current, k - saved)
      BY <1>2, <1>3, <1>4, <3>1
    <3>3. k - saved # n - saved + 1
      BY <1>2, <3>1
    <3>4. QED
      BY <1>4, <1>5, <3>2, <3>3 DEF n
  <2>3. QED
    BY <2>1, <2>2
<1>9. Distinct(lines)'
  <2>1. \A k \in 1..(n + 1) : \/ k \in DOMAIN lines /\ lines'[k] = lines[k] /\ lines[k].at # x.at
                              \/ k = n + 1 /\ lines'[k] = x
    BY <1>1, <1>2, <1>8
  <2>2. ASSUME NEW k \in 1..(n + 1), NEW l \in 1..(n + 1), lines'[k].at = lines'[l].at PROVE k = l
    BY <1>3, <2>1, <2>2 DEF Distinct
  <2>3. QED
    BY <1>1, <2>2 DEF Distinct
<1>10. Extracted' /\ current' = current /\ \A c : Slots(c)' = Slots(c) /\ \A k : RowAt(c, k)' = RowAt(c, k)
  BY <1>3 DEF Extracted, extraction, Slots, RowAt
<1>11. CASE UNCHANGED <<status, saved>>
  <2>1. saved' \in 0..Len(lines')
    BY <1>1, <1>2, <1>11
  <2>2. ASSUME NEW k \in (saved + 1)..(n + 1)
        PROVE  k - saved <= Slots(current) /\ lines'[k].at = RowAt(current, k - saved)
    <3>1. CASE k = n + 1
      <4>1. k - saved = n - saved + 1
        BY <1>2, <3>1
      <4>2. QED
        BY <1>1, <1>5, <3>1, <4>1 DEF n
    <3>2. CASE k # n + 1
      <4>1. k \in (saved + 1)..n /\ k \in 1..n
        BY <1>2, <3>2
      <4>2. QED
        BY <1>1, <1>3, <4>1
    <3>3. QED
      BY <3>1, <3>2
  <2>3. {lines'[k].at : k \in 1..saved'} = HeldBefore(current)'
    <3>1. \A k \in 1..saved : lines'[k] = lines[k]
      BY <1>1, <1>2
    <3>2. HeldBefore(current)' = HeldBefore(current)
      BY DEF HeldBefore, extraction
    <3>3. {lines'[k].at : k \in 1..saved} = {lines[k].at : k \in 1..saved}
      BY <3>1
    <3>4. QED
      BY <1>3, <1>11, <3>2, <3>3
  <2>4. QED
    BY <1>1, <1>3, <1>9, <1>10, <1>11, <2>1, <2>2, <2>3 DEF Walk, Statuses
<1>12. CASE status' = "error" /\ saved' = Len(lines')
  <2>1. saved' \in 0..Len(lines')
    BY <1>1, <1>2, <1>12
  <2>2. QED
    BY <1>1, <1>3, <1>9, <1>10, <1>12, <2>1 DEF Walk, Statuses
<1>13. QED
  BY <1>11, <1>12

LEMMA CommitChunkStep ==
    ASSUME ExtractionInv, Walk, CommitChunk
    PROVE  Walk'
<1> DEFINE n == Len(lines)
<1>1. /\ status = "evaluating" /\ n - saved + 1 > Slots(current)
      /\ saved' = n /\ current' = current + 1 /\ lines' = lines /\ UNCHANGED extraction
      /\ status' = IF current = ChunkCount THEN "evaluated" ELSE status
  BY DEF CommitChunk, Evaluating, Position, Slots
<1>2. n \in Nat /\ DOMAIN lines = 1..n /\ saved \in 0..n /\ ChunkCount \in Nat
  BY LinesAre, ChunksPartition DEF Walk
<1>3. /\ Extracted /\ current \in Chunks /\ IsSequence /\ Distinct(lines)
      /\ \A k \in (saved + 1)..n :
            k - saved <= Slots(current) /\ lines[k].at = RowAt(current, k - saved)
      /\ {lines[k].at : k \in 1..saved} = HeldBefore(current)
  BY <1>1 DEF Walk
<1>4. current \in 1..ChunkCount
  BY <1>3 DEF Chunks
<1>5. Slots(current) \in Nat /\ {RowAt(current, k) : k \in 1..Slots(current)} = RowsHeld(got[current])
  BY <1>3, HeldByChunk, SlotsAre
<1> HIDE DEF n
<1>6. n = saved + Slots(current)
  <2>1. n >= saved + Slots(current)
    BY <1>1, <1>2, <1>5
  <2>2. CASE n = saved
    BY <1>2, <1>5, <2>1, <2>2
  <2>3. CASE n # saved
    <3>1. n \in (saved + 1)..n
      BY <1>2, <2>3
    <3>2. n - saved <= Slots(current)
      BY <1>3, <3>1
    <3>3. QED
      BY <1>2, <1>5, <2>1, <3>2
  <2>4. QED
    BY <2>2, <2>3
<1>7. {lines[k].at : k \in 1..n} = HeldBefore(current) \cup RowsHeld(got[current])
  <2>1. \A k \in 1..n : k \in 1..saved \/ (k - saved \in 1..Slots(current) /\ lines[k].at = RowAt(current, k - saved))
    BY <1>2, <1>3, <1>5, <1>6
  <2>2. \A k \in 1..saved : k \in 1..n
    BY <1>2
  <2>3. \A k \in 1..Slots(current) : k + saved \in 1..n /\ lines[k + saved].at = RowAt(current, k)
    <3> SUFFICES ASSUME NEW k \in 1..Slots(current)
                 PROVE  k + saved \in 1..n /\ lines[k + saved].at = RowAt(current, k)
      OBVIOUS
    <3>1. k + saved \in (saved + 1)..n /\ k + saved \in 1..n /\ (k + saved) - saved = k
      BY <1>2, <1>5, <1>6
    <3>2. QED
      BY <1>3, <3>1
  <2>4. QED
    BY <1>3, <1>5, <2>1, <2>2, <2>3
<1>8. HeldBefore(current)' = HeldBefore(current) \cup RowsHeld(got[current])
  <2>1. \A c : c \in 1..(current' - 1) <=> c \in 1..(current - 1) \/ c = current
    BY <1>1, <1>4
  <2>2. got' = got
    BY <1>1 DEF extraction
  <2>3. HeldBefore(current)' = UNION {RowsHeld(got[c]) : c \in 1..(current' - 1)}
    BY <2>2 DEF HeldBefore
  <2>4. QED
    BY <2>1, <2>3 DEF HeldBefore
<1>9. {lines'[k].at : k \in 1..saved'} = HeldBefore(current)'
  BY <1>1, <1>7, <1>8
<1>10. Extracted' /\ IsSequence' /\ Distinct(lines)'
  BY <1>1, <1>3 DEF Extracted, extraction, IsSequence, Distinct
<1>11. /\ saved' \in 0..Len(lines') /\ current' \in 1..(ChunkCount + 1)
       /\ \A k : k \notin (saved' + 1)..Len(lines')
       /\ IF current = ChunkCount THEN current' = ChunkCount + 1 ELSE current' \in Chunks
  BY <1>1, <1>2, <1>4 DEF n, Chunks
<1>12. QED
  BY <1>1, <1>9, <1>10, <1>11 DEF Walk, Statuses, n

LEMMA WalkKept ==
    ASSUME ExtractionInv, Walk, [Next]_vars
    PROVE  Walk'
<1>1. CASE UNCHANGED vars \/ Finished
  <2>1. UNCHANGED vars
    BY <1>1 DEF Finished
  <2>2. UNCHANGED <<got, chunk, lines, status, saved, current>>
    BY <2>1 DEF vars, extraction, pipeline
  <2>3. /\ Extracted' = Extracted /\ IsSequence' = IsSequence /\ Distinct(lines)' = Distinct(lines)
        /\ Slots(current)' = Slots(current) /\ HeldBefore(current)' = HeldBefore(current)
        /\ \A k : RowAt(current, k)' = RowAt(current, k)
    BY <2>2 DEF Extracted, IsSequence, Distinct, Slots, HeldBefore, RowAt
  <2>4. QED
    BY <2>2, <2>3 DEF Walk
<1>2. ASSUME NEW c \in Chunks, Extract(c) \/ FailChunk(c), UNCHANGED pipeline PROVE Walk'
  <2>1. chunk[c] \in {"queued", "asking"}
    BY <1>2 DEF Extract, StartChunk, Ask, AnswerBatch, FailBatch, AnswerRow, MergeChunk, FailChunk
  <2>2. ~Extracted
    BY <2>1 DEF Extracted
  <2>3. status = "extracting"
    BY <2>2 DEF Walk
  <2>4. status' = "extracting" /\ UNCHANGED <<lines, saved, current>>
    BY <1>2, <2>3 DEF pipeline
  <2>5. IsSequence' /\ Distinct(lines)'
    BY <2>4 DEF Walk, IsSequence, Distinct
  <2>6. QED
    BY <2>3, <2>4, <2>5 DEF Walk
<1>3. CASE StartEvaluation
  BY <1>3, StartEvaluationStep
<1>4. CASE CommitChunk
  BY <1>4, CommitChunkStep
<1>5. ASSUME NEW up, EvaluatePayment(up) PROVE Walk'
  <2>1. status = "evaluating" /\ current \in Chunks /\ Extracted
    BY <1>5 DEF EvaluatePayment, Evaluating, Walk
  <2>2. Slots(current) = Len(got[current].identified) + Len(got[current].unknown)
        /\ Len(got[current].identified) \in Nat /\ Len(got[current].unknown) \in Nat
    BY <2>1, HeldByChunk, SlotsAre DEF Slots
  <2>3. IsSequence /\ saved \in 0..Len(lines)
    BY DEF Walk
  <2>4. Len(lines) - saved + 1 <= Len(got[current].identified)
    BY <1>5 DEF EvaluatePayment, Position
  <2>5. Len(lines) - saved + 1 <= Slots(current)
    <3> DEFINE p == Len(lines) - saved + 1
               m == Len(got[current].identified)
               n == Len(got[current].unknown)
    <3>1. p \in Int /\ p <= m /\ m \in Nat /\ n \in Nat /\ Slots(current) = m + n
      BY <2>2, <2>3, <2>4, LinesAre
    <3> HIDE DEF p, m, n
    <3>2. p <= Slots(current)
      BY <3>1
    <3>3. QED
      BY <3>2 DEF p
  <2>6. PICK x : /\ lines' = Append(lines, x) /\ x.at = got[current].identified[Len(lines) - saved + 1].at
                 /\ \/ UNCHANGED <<status, saved>>
                    \/ status' = "error" /\ saved' = Len(lines')
    BY <1>5 DEF EvaluatePayment, Position, LineItem
  <2>7. x.at = RowAt(current, Len(lines) - saved + 1)
    BY <2>4, <2>6 DEF RowAt
  <2>8. UNCHANGED <<extraction, current>>
    BY <1>5 DEF EvaluatePayment
  <2>9. QED
    BY <2>1, <2>5, <2>6, <2>7, <2>8, ItemStep
<1>6. CASE EvaluateUnknown
  <2>1. status = "evaluating" /\ current \in Chunks /\ Extracted
    BY <1>6 DEF EvaluateUnknown, Evaluating, Walk
  <2> DEFINE m == Len(got[current].identified)
             p == Len(lines) - saved + 1
  <2>2. Slots(current) = m + Len(got[current].unknown) /\ m \in Nat /\ Len(got[current].unknown) \in Nat
        /\ DOMAIN got[current].unknown = 1..Len(got[current].unknown)
    BY <2>1, HeldByChunk, SlotsAre DEF Slots
  <2>3. p \in Int
    <3>1. IsSequence /\ saved \in 0..Len(lines)
      BY DEF Walk
    <3>2. QED
      BY <3>1, LinesAre
  <2>4. p - m \in DOMAIN got[current].unknown
    BY <1>6 DEF EvaluateUnknown, Position
  <2> DEFINE r == got[current].unknown[p - m].at
             x == [at |-> r, row |-> Credits[r], customer |-> None, rule |-> "R8", matched |-> <<>>,
                   target |-> 0, received |-> Credits[r].amount, currency |-> Credits[r].currency,
                   credited |-> NoLeg, ledger |-> NoLeg]
  <2>5. lines' = Append(lines, x) /\ x.at = got[current].unknown[p - m].at
    BY <1>6 DEF EvaluateUnknown, Position
  <2> HIDE DEF x, r
  <2>6. UNCHANGED <<extraction, current, status, saved>>
    BY <1>6 DEF EvaluateUnknown
  <2>7. \A k : RowAt(current, k) = IF k <= m THEN got[current].identified[k].at
                                   ELSE got[current].unknown[k - m].at
    BY DEF RowAt
  <2> HIDE DEF m
  <2>8. p <= Slots(current) /\ ~(p <= m)
    BY <2>2, <2>3, <2>4
  <2>9. x.at = RowAt(current, p)
    BY <2>5, <2>7, <2>8
  <2>10. QED
    BY <2>1, <2>5, <2>6, <2>8, <2>9, ItemStep
<1>7. QED
  BY <1>1, <1>2, <1>3, <1>4, <1>5, <1>6 DEF Next, Evaluate

\* At the end, the rows that have an item are those that no failure lost.
LEMMA AllRowsWalked ==
    ASSUME ExtractionInv, Walk
    PROVE  EveryRowOnce
<1>1. \A k, l \in DOMAIN lines : lines[k].at = lines[l].at => k = l
  BY DEF Walk, Distinct
<1>2. ASSUME status = "evaluated" PROVE {x.at : x \in Items} = RowsIn \ UNION {Lost(c) : c \in Chunks}
  <2>1. /\ Extracted /\ current = ChunkCount + 1 /\ saved = Len(lines)
        /\ {lines[k].at : k \in 1..saved} = HeldBefore(current)
    BY <1>2 DEF Walk
  <2>2. Len(lines) \in Nat /\ DOMAIN lines = 1..Len(lines)
    BY LinesAre DEF Walk
  <2>3. {x.at : x \in Items} = HeldBefore(current)
    BY <2>1, <2>2 DEF Items
  <2>4. 1..(current - 1) = Chunks
    BY <2>1, ChunksPartition DEF Chunks
  <2>5. HeldBefore(current) = UNION {RowsHeld(got[c]) : c \in Chunks}
    BY <2>4 DEF HeldBefore
  <2>6. \A c \in Chunks : RowsHeld(got[c]) = RowsOf(c) \ Lost(c) /\ Lost(c) \subseteq RowsOf(c)
    BY <2>1, HeldByChunk
  <2>7. /\ \A c \in Chunks : RowsOf(c) \subseteq RowsIn
        /\ \A r \in RowsIn : \E c \in Chunks : r \in RowsOf(c)
        /\ \A c, d \in Chunks : c # d => RowsOf(c) \cap RowsOf(d) = {}
    BY ChunksPartition DEF RowsOf
  <2>8. ASSUME NEW r
        PROVE  r \in UNION {RowsHeld(got[c]) : c \in Chunks} <=> r \in RowsIn \ UNION {Lost(c) : c \in Chunks}
    <3>1. ASSUME NEW c \in Chunks, r \in RowsHeld(got[c]) PROVE r \in RowsIn \ UNION {Lost(d) : d \in Chunks}
      <4>1. \A d \in Chunks : r \notin Lost(d)
        BY <2>6, <2>7, <3>1
      <4>2. QED
        BY <2>6, <2>7, <3>1, <4>1
    <3>2. ASSUME r \in RowsIn, \A d \in Chunks : r \notin Lost(d) PROVE \E c \in Chunks : r \in RowsHeld(got[c])
      BY <2>6, <2>7, <3>2
    <3>3. QED
      BY <3>1, <3>2
  <2>9. QED
    BY <2>3, <2>5, <2>8
<1>3. QED
  BY <1>1, <1>2 DEF EveryRowOnce

(***************************************************************************)
(* Rates.                                                                   *)
(***************************************************************************)
Rated(rate) == rate \in Rate \cup {None}
CacheRated(cache) == \A k \in DOMAIN cache : Rated(cache[k].rate)

LEMMA StaticRated ==
    ASSUME NEW from, NEW to
    PROVE  Rated(LookupStatic(from, to))
<1> DEFINE Positive == [num : Nat \ {0}, den : Nat \ {0}]
<1>1. \A pair \in DOMAIN StaticMap : StaticMap[pair] \in Positive
  BY RuleAssumption
<1>2. ASSUME NEW num \in Nat \ {0}, NEW den \in Nat \ {0}
      PROVE  OfScale(num, den) \in Rate
  <2> DEFINE r == [num |-> num, den |-> den]
  <2>1. r \in Rate /\ RateScale \in Nat \ {0}
    BY RuleAssumption DEF Rate
  <2>2. Converted(RateScale, r) \in Int /\ Converted(RateScale, r) >= 0
    BY <2>1, ConvertedInt
  <2>3. Converted(RateScale, r) = Rounded(RateScale * num, den)
    BY DEF Converted
  <2>4. QED
    BY <2>1, <2>2, <2>3 DEF OfScale, Rate
<1>3. \A a, b \in Nat \ {0} : a * b \in Nat \ {0}
  OBVIOUS
<1>4. CASE <<from, to>> \in DOMAIN StaticMap
  BY <1>1, <1>4 DEF LookupStatic, Rated, Rate
<1>5. CASE <<from, to>> \notin DOMAIN StaticMap /\ <<to, from>> \in DOMAIN StaticMap
  <2> DEFINE p == StaticMap[<<to, from>>]
  <2>1. LookupStatic(from, to) = OfScale(p.den, p.num)
    BY <1>5 DEF LookupStatic
  <2>2. p.num \in Nat \ {0} /\ p.den \in Nat \ {0}
    BY <1>1, <1>5
  <2> HIDE DEF p
  <2>3. QED
    BY <1>2, <2>1, <2>2 DEF Rated
<1>6. CASE <<from, to>> \notin DOMAIN StaticMap /\ <<to, from>> \notin DOMAIN StaticMap
  <2> DEFINE p == StaticMap[<<from, Usd>>]
             q == StaticMap[<<Usd, to>>]
  <2>1. CASE <<from, Usd>> \in DOMAIN StaticMap /\ <<Usd, to>> \in DOMAIN StaticMap
    <3>1. LookupStatic(from, to) = OfScale(p.num * q.num, p.den * q.den)
      BY <1>6, <2>1 DEF LookupStatic
    <3>2. p.num \in Nat \ {0} /\ q.num \in Nat \ {0} /\ p.den \in Nat \ {0} /\ q.den \in Nat \ {0}
      BY <1>1, <2>1
    <3> HIDE DEF p, q
    <3>3. p.num * q.num \in Nat \ {0} /\ p.den * q.den \in Nat \ {0}
      BY <1>3, <3>2
    <3>4. QED
      BY <1>2, <3>1, <3>3 DEF Rated
  <2>2. CASE ~(<<from, Usd>> \in DOMAIN StaticMap /\ <<Usd, to>> \in DOMAIN StaticMap)
    BY <1>6, <2>2 DEF LookupStatic, Rated
  <2>3. QED
    BY <2>1, <2>2
<1>7. QED
  BY <1>4, <1>5, <1>6

LEMMA LegRated ==
    ASSUME NEW cache, CacheRated(cache), NEW from, NEW to, NEW date, NEW up, NEW again
    PROVE  /\ Rated(Leg(cache, from, to, date, up, again).rate)
           /\ CacheRated(Leg(cache, from, to, date, up, again).cache)
<1> DEFINE leg == Leg(cache, from, to, date, up, again)
           answer == GetRate(cache, from, to, date, up)
<1>1. CASE from = to \/ None \in {from, to}
  BY <1>1 DEF Leg, Rated
<1>2. CASE ~(from = to \/ None \in {from, to})
  <2>1. leg.cache = Caching(cache, from, to, date, answer) /\ leg.rate = answer.rate
    BY <1>2 DEF Leg
  <2>2. Rated(answer.rate)
    <3>1. Rated(FetchFromOracle(<<from, to>>, up))
      BY RuleAssumption DEF FetchFromOracle, Rated, Rate
    <3>2. Rated(RateWithSource(from, to, up).rate)
      BY <3>1, StaticRated DEF RateWithSource, NoRate, Rated
    <3>3. QED
      BY <3>2 DEF GetRate, CacheRated
  <2> HIDE DEF answer
  <2>3. /\ DOMAIN leg.cache = DOMAIN cache \cup {<<from, to, date>>}
        /\ \A k \in DOMAIN leg.cache : leg.cache[k] = IF k = <<from, to, date>> THEN answer ELSE cache[k]
    BY <2>1 DEF Caching
  <2> HIDE DEF leg
  <2>4. QED
    BY <2>1, <2>2, <2>3 DEF CacheRated, leg
<1>3. QED
  BY <1>1, <1>2

(***************************************************************************)
(* One payment is evaluated.                                                *)
(***************************************************************************)
InputOf(payment, up) == RuleInput(Credits[payment.at], payment, aging, remittances, fx, up)

LEMMA InputIs ==
    ASSUME aging \in Reports, remittances \in Remittances, CacheRated(fx),
           NEW payment \in Known(aging), NEW up, NEW i, i = InputOf(payment, up)
    PROVE  /\ i.row = Credits[payment.at] /\ i.row \in CreditRow
           /\ i.crossOu = IsCrossOu(aging, payment.customer, i.row.ou)
           /\ i.remittance = RemittanceView(remittances, i.row, payment.customer)
           /\ i.extracted = payment.invoices /\ i.extracted \in Seq(Numbers)
           /\ Candidates(i) \in Seq(RemittanceLine)
           /\ Received(i) \in Int /\ (i.row.amount >= 0 => Received(i) >= 0)
           /\ CacheRated(i.cache)
<1> DEFINE row == Credits[payment.at]
           view == RemittanceView(remittances, row, payment.customer)
           known == IF row.ou = None THEN None ELSE FunctionalOf[row.ou]
           functional == IF known = None THEN row.currency ELSE known
<1>1. /\ i.row = row /\ i.crossOu = IsCrossOu(aging, payment.customer, row.ou)
      /\ i.remittance = view /\ i.extracted = payment.invoices
      /\ i.credited = Leg(fx, row.currency, i.currency, row.date, up[1], up[2])
      /\ i.cache = Leg(i.credited.cache, i.currency, functional, row.date, up[3], up[4]).cache
  BY DEF RuleInput, InputOf
<1>2. payment.at \in RowsIn /\ payment.invoices \in Seq(Numbers)
  BY DEF Known, Payment
<1>3. row \in CreditRow
  BY <1>2, CreditsAre
<1> HIDE DEF row, functional
<1>4. view.lines \in Seq(RemittanceLine)
  <2> DEFINE matches == {m \in remittances : Matches(m, row)}
             m == CHOOSE x \in matches : TRUE
  <2>1. CASE matches = {}
    BY <2>1 DEF RemittanceView, NoRemittance
  <2>2. CASE matches # {} /\ Cardinality(matches) > 1
    BY <2>2 DEF RemittanceView, NoRemittance
  <2>3. CASE matches # {} /\ ~(Cardinality(matches) > 1)
    <3>1. view.lines = m.lines
      BY <2>3 DEF RemittanceView
    <3>2. m \in matches
      BY <2>3
    <3>3. m \in Remittance
      BY <3>2, RemittanceAssumption
    <3>4. QED
      BY <3>1, <3>3 DEF Remittance
  <2>4. QED
    BY <2>1, <2>2, <2>3
<1> HIDE DEF view
<1>5. Candidates(i) \in Seq(RemittanceLine)
  <2>1. CASE i.remittance.found
    BY <1>1, <1>4, <2>1 DEF Candidates
  <2>2. CASE ~i.remittance.found
    <3> DEFINE s == payment.invoices
               all == [k \in DOMAIN s |-> [number |-> s[k], paid |-> None]]
    <3>1. Candidates(i) = all
      BY <1>1, <2>2 DEF Candidates
    <3>2. \A k \in DOMAIN s : [number |-> s[k], paid |-> None] \in RemittanceLine
      BY <1>2 DEF RemittanceLine
    <3>3. DOMAIN s = 1..Len(s) /\ Len(s) \in Nat
      BY <1>2
    <3>4. all \in Seq(RemittanceLine)
      BY <3>2, <3>3
    <3>5. QED
      BY <3>1, <3>4
  <2>3. QED
    BY <2>1, <2>2
<1>6. Rated(i.credited.rate) /\ CacheRated(i.credited.cache) /\ CacheRated(i.cache)
  <2>1. Rated(i.credited.rate) /\ CacheRated(i.credited.cache)
    BY <1>1, LegRated
  <2>2. QED
    BY <1>1, <2>1, LegRated
<1>7. row.amount \in Int
  BY <1>3 DEF CreditRow
<1>8. Received(i) \in Int /\ (row.amount >= 0 => Received(i) >= 0)
  BY <1>1, <1>6, <1>7, ConvertedInt DEF Received, Rated
<1>9. QED
  BY <1>1, <1>2, <1>3, <1>5, <1>6, <1>8 DEF row, view

(***************************************************************************)
(* What a line item shows.                                                  *)
(***************************************************************************)
OnlyCredits == TolerancePct < 100 /\ \A r \in RowsIn : Credits[r].amount >= 0
Sound(x) ==
    /\ x.target # 0 => /\ x.target > 0 /\ x.received <= x.target
                       /\ 100 * (x.target - x.received) <= TolerancePct * x.target
    /\ x.credited.needed => x.credited.rate # None
    /\ ~IsCrossOu(aging, x.customer, x.row.ou)
Referenced(x) ==
    LeftToSplit(x) /\ (\A k \in DOMAIN x.matched : x.matched[k].stated # 0)
        => References(x) = ReceiptOf(x).amount
ItemFine(x) ==
    /\ x.rule \in Rules /\ x.received \in Int /\ x.target \in Int
    /\ x.rule = "R4" => RemittanceView(remittances, x.row, x.customer).found
    /\ PassedValidation(x.rule) => Referenced(x) /\ (OnlyCredits => Sound(x))
    /\ InBands(x) /\ ~InDoubt(x) => Classify(x.target, x.received) = x.rule

LEMMA EvaluatedIsFine ==
    ASSUME aging \in Reports, remittances \in Remittances, CacheRated(fx),
           NEW payment \in Known(aging), NEW up, NEW i, i = InputOf(payment, up),
           NEW drift \in {-1, 0, 1}, NEW x, x = LineItem(i, payment, EvaluateRow(i, aging, drift))
    PROVE  ItemFine(x)
<1> DEFINE found == Resolved(i, aging)
           target == Outstanding(found, DOMAIN found)
           rule == FirstRule(RuleTable(i, aging, found, target, drift))
           view == RemittanceView(remittances, x.row, x.customer)
<1>1. /\ i.row = Credits[payment.at] /\ i.row \in CreditRow
      /\ i.crossOu = IsCrossOu(aging, payment.customer, i.row.ou)
      /\ i.remittance = RemittanceView(remittances, i.row, payment.customer)
      /\ i.extracted = payment.invoices /\ i.extracted \in Seq(Numbers)
      /\ Candidates(i) \in Seq(RemittanceLine)
      /\ Received(i) \in Int /\ (i.row.amount >= 0 => Received(i) >= 0)
  BY InputIs
<1>2. /\ x.rule = rule /\ x.row = i.row /\ x.customer = payment.customer /\ x.received = Received(i)
      /\ x.credited.needed = i.credited.needed /\ x.credited.rate = i.credited.rate
  BY DEF LineItem, EvaluateRow, Stamp
<1>3. rule \in Bands => x.target = target /\ x.matched = Split(found, Received(i))
  BY DEF LineItem, EvaluateRow, Bands
<1>4. aging \in Reporting
  BY ExtractionAssumption DEF Reporting
<1>5. /\ found \in Seq(Line)
      /\ found = <<>> <=> \A k \in DOMAIN Candidates(i) :
                              LookupInvoice(aging, Candidates(i)[k].number, i.row.ou) = None
      /\ \A k \in DOMAIN found :
            /\ LastOf(Candidates(i), found[k].number) \in DOMAIN Candidates(i)
            /\ found[k].stated = Candidates(i)[LastOf(Candidates(i), found[k].number)].paid
  BY <1>1, <1>4, ResolvedIs
<1> HIDE DEF found
<1>6. target \in Int /\ x.target \in Int
  <2>1. target \in Int
    BY <1>5, OutstandingInt
  <2>2. x.target = target \/ x.target = 0
    BY DEF LineItem, EvaluateRow, found
  <2>3. QED
    BY <2>1, <2>2
<1> HIDE DEF target
<1>7. /\ rule \in Rules
      /\ rule = "R4" => Candidates(i) # <<>> /\ found = <<>>
      /\ rule \in Bands => /\ rule = BandOf(target, Received(i), drift)
                           /\ found # <<>> /\ ~DividesByZero(found)
                           /\ ~i.crossOu
                           /\ i.credited.needed => i.credited.rate # None
  BY RuleIs
<1> HIDE DEF rule
<1>8. PassedValidation(rule) => rule \in {"R9a", "R9b"} /\ rule \in Bands
  BY <1>7 DEF PassedValidation, Category, Bands, Rules
<1>9. ASSUME x.rule = "R4" PROVE view.found
  <2> SUFFICES ASSUME ~i.remittance.found PROVE FALSE
    BY <1>1, <1>2
  <2>1. Candidates(i) = [k \in DOMAIN i.extracted |-> [number |-> i.extracted[k], paid |-> None]]
    BY DEF Candidates
  <2>2. Candidates(i) # <<>> /\ found = <<>>
    BY <1>2, <1>7, <1>9
  <2>3. DOMAIN Candidates(i) # {}
    BY <1>1, <2>2
  <2>4. PICK k \in DOMAIN i.extracted : TRUE
    BY <2>1, <2>3
  <2>5. LookupInvoice(aging, Candidates(i)[k].number, i.row.ou) = None
    BY <1>5, <2>1, <2>2
  <2>6. LookupInvoice(aging, payment.invoices[k], Credits[payment.at].ou) # None
    BY <1>1, <2>4 DEF Known
  <2>7. QED
    BY <1>1, <2>1, <2>5, <2>6
<1>10. ASSUME rule \in {"R9a", "R9b"}, LeftToSplit(x), \A k \in DOMAIN x.matched : x.matched[k].stated # 0
       PROVE  References(x) = ReceiptOf(x).amount
  <2> DEFINE matched == Split(found, Received(i))
             stated == [k \in DOMAIN matched |-> matched[k].stated]
  <2>1. x.matched = matched /\ found # <<>> /\ ~DividesByZero(found)
    BY <1>3, <1>7, <1>10 DEF Bands
  <2>2. /\ DOMAIN matched = DOMAIN found /\ Len(matched) = Len(found)
        /\ \A k \in DOMAIN found : matched[k].number = found[k].number
    BY <1>5, SplitKeeps
  <2>3. Unstated(found) # {} \/ Len(found) = 1
    <3>1. CASE ~view.found
      <4>1. ~i.remittance.found
        BY <1>1, <1>2, <3>1
      <4>2. Candidates(i) = [k \in DOMAIN i.extracted |-> [number |-> i.extracted[k], paid |-> None]]
        BY <4>1 DEF Candidates
      <4>3. \A k \in DOMAIN found : found[k].stated = None
        BY <1>5, <4>2
      <4>4. DOMAIN found # {}
        BY <1>5, <2>1
      <4>5. QED
        BY <4>3, <4>4 DEF Unstated
    <3>2. CASE Len(x.matched) = 1
      BY <2>1, <2>2, <3>2
    <3>3. CASE \E k \in DOMAIN x.matched : view.lines[LastOf(view.lines, x.matched[k].number)].paid = None
      <4>1. i.remittance = view
        BY <1>1, <1>2
      <4>2. CASE view.found
        <5>1. Candidates(i) = view.lines
          BY <4>1, <4>2 DEF Candidates
        <5>2. PICK k \in DOMAIN x.matched : view.lines[LastOf(view.lines, x.matched[k].number)].paid = None
          BY <3>3
        <5>3. k \in DOMAIN found /\ x.matched[k].number = found[k].number
          BY <2>1, <2>2
        <5>4. found[k].stated = None
          BY <1>5, <5>1, <5>2, <5>3
        <5>5. QED
          BY <5>3, <5>4 DEF Unstated
      <4>3. QED
        BY <3>1, <4>2
    <3>4. QED
      BY <1>10, <3>1, <3>2, <3>3 DEF LeftToSplit, LastOf
  <2>4. /\ \A k \in DOMAIN matched : stated[k] \in Int
        /\ SumFunctionOnSet(stated, DOMAIN matched) = Received(i)
    BY <1>1, <1>5, <2>1, <2>3, SplitAddsUp
  <2> DEFINE amounts == [k \in DOMAIN x.matched |-> ReferencesOf(x)[k].amount]
  <2> HIDE DEF matched
  <2>5. \A k \in DOMAIN matched : matched[k].stated = stated[k] /\ stated[k] \notin {None, 0}
    BY <1>10, <2>1, <2>4, RuleAssumption
  <2>6. \A k \in DOMAIN matched : amounts[k] = stated[k]
    BY <2>1, <2>5 DEF ReferencesOf
  <2>7. IsFiniteSet(DOMAIN matched)
    <3>1. DOMAIN found = 1..Len(found) /\ Len(found) \in Nat
      BY <1>5
    <3>2. IsFiniteSet(1..Len(found))
      BY <3>1, FS_Interval
    <3>3. QED
      BY <2>2, <3>1, <3>2
  <2> HIDE DEF stated, amounts
  <2>8. SumFunctionOnSet(amounts, DOMAIN matched) = Received(i)
    BY <2>4, <2>6, <2>7, SumSame
  <2>9. References(x) = Received(i)
    BY <2>1, <2>8 DEF References, amounts
  <2>10. ReceiptOf(x).amount = Received(i)
    BY <1>2 DEF ReceiptOf, Received
  <2>11. QED
    BY <2>9, <2>10
<1>11. ASSUME rule \in {"R9a", "R9b"}, OnlyCredits PROVE Sound(x)
  <2>1. rule \in Bands /\ x.target = target
    BY <1>3, <1>11 DEF Bands
  <2>2. Received(i) \in Nat
    BY <1>1, <1>11 DEF OnlyCredits, Known, Payment
  <2>3. target # 0 => /\ target > 0 /\ Received(i) <= target
                      /\ 100 * (target - Received(i)) <= TolerancePct * target
    BY <1>6, <1>7, <1>11, <2>1, <2>2, BandIsSound DEF OnlyCredits
  <2>4. QED
    BY <1>1, <1>2, <1>7, <2>1, <2>3 DEF Sound
<1>12. ASSUME InBands(x), ~InDoubt(x) PROVE Classify(x.target, x.received) = x.rule
  <2>1. rule \in Bands
    BY <1>2, <1>12 DEF InBands, Bands
  <2>2. x.target = target
    BY <1>3, <2>1
  <2>3. target # 0 => /\ ShortfallPct(target, Received(i)) # 0
                      /\ ~Between(ShortfallPct(target, Received(i)), 100 * TolerancePct,
                                  100 * DefaultTolerancePct)
    BY <1>2, <1>12, <2>2 DEF InDoubt
  <2>4. QED
    BY <1>1, <1>2, <1>6, <1>7, <2>1, <2>2, <2>3, HandLikeBand
<1>13. QED
  BY <1>1, <1>2, <1>6, <1>7, <1>8, <1>9, <1>10, <1>11, <1>12 DEF ItemFine, Referenced

(***************************************************************************)
(* Every step that adds a line item: an evaluated payment, or an unknown    *)
(* row.                                                                     *)
(***************************************************************************)
Unknown(x) ==
    /\ x.rule = "R8" /\ x.received \in Int /\ x.target \in Int /\ ~x.credited.needed
AppendsUnknown == \E x : lines' = Append(lines, x) /\ Unknown(x) /\ UNCHANGED fx
AppendsEvaluated(payment, up, drift) ==
    /\ lines' = Append(lines, LineItem(InputOf(payment, up), payment,
                                       EvaluateRow(InputOf(payment, up), aging, drift)))
    /\ fx' = InputOf(payment, up).cache

LEMMA LinesSteps ==
    ASSUME ExtractionInv, Walk, [Next]_vars
    PROVE  /\ UNCHANGED <<aging, remittances>>
           /\ \/ UNCHANGED <<lines, fx>>
              \/ AppendsUnknown
              \/ \E payment \in Known(aging) : \E up : \E drift \in {-1, 0, 1} :
                    AppendsEvaluated(payment, up, drift)
<1>1. ASSUME NEW c \in Chunks, Extract(c), UNCHANGED pipeline
      PROVE  UNCHANGED <<aging, remittances, lines, fx>>
  BY <1>1 DEF Extract, Ask, StartChunk, AnswerBatch, FailBatch, AnswerRow, MergeChunk, pipeline
<1>2. ASSUME NEW c \in Chunks, FailChunk(c), UNCHANGED pipeline
      PROVE  UNCHANGED <<aging, remittances, lines, fx>>
  BY <1>2 DEF FailChunk, pipeline
<1>3. ASSUME StartEvaluation \/ CommitChunk
      PROVE  UNCHANGED <<aging, remittances, lines, fx>>
  BY <1>3 DEF StartEvaluation, CommitChunk, extraction
<1>4. ASSUME Evaluating
      PROVE  /\ Position \in Nat \ {0}
             /\ current \in Chunks /\ Fine(aging, got[current])
  <2>1. IsSequence /\ saved \in 0..Len(lines) /\ Extracted /\ current \in Chunks
    BY <1>4 DEF Evaluating, Walk
  <2>2. QED
    BY <2>1, LinesAre, HeldByChunk DEF Position
<1>5. ASSUME NEW up, EvaluatePayment(up)
      PROVE  /\ UNCHANGED <<aging, remittances>>
             /\ \E payment \in Known(aging) : \E drift \in {-1, 0, 1} : AppendsEvaluated(payment, up, drift)
  <2> DEFINE payment == got[current].identified[Position]
             i == InputOf(payment, up)
  <2>1. PICK drift \in Drifts(Resolved(i, aging)) : AppendsEvaluated(payment, up, drift)
    BY <1>5 DEF EvaluatePayment, AppendsEvaluated, InputOf
  <2>2. drift \in {-1, 0, 1}
    BY DEF Drifts
  <2>3. UNCHANGED <<aging, remittances>>
    BY <1>5 DEF EvaluatePayment, extraction
  <2>4. payment \in Known(aging)
    <3>1. Position \in Nat \ {0} /\ Fine(aging, got[current]) /\ Position <= Len(got[current].identified)
      BY <1>4, <1>5 DEF EvaluatePayment
    <3>2. got[current].identified \in Seq(Known(aging))
      BY <3>1 DEF Fine
    <3>3. QED
      BY <3>1, <3>2
  <2> HIDE DEF payment
  <2>5. QED
    BY <2>1, <2>2, <2>3, <2>4
<1>6. ASSUME EvaluateUnknown
      PROVE  UNCHANGED <<aging, remittances, fx>> /\ AppendsUnknown
  <2>1. UNCHANGED <<aging, remittances, fx>>
    BY <1>6 DEF EvaluateUnknown, extraction
  <2> DEFINE k == Position - Len(got[current].identified)
             at == got[current].unknown[k].at
             x == [at |-> at, row |-> Credits[at], customer |-> None, rule |-> "R8", matched |-> <<>>,
                   target |-> 0, received |-> Credits[at].amount, currency |-> Credits[at].currency,
                   credited |-> NoLeg, ledger |-> NoLeg]
  <2>2. lines' = Append(lines, x)
    BY <1>6 DEF EvaluateUnknown
  <2>3. at \in RowsIn
    <3>1. k \in DOMAIN got[current].unknown /\ Fine(aging, got[current])
      BY <1>4, <1>6 DEF EvaluateUnknown
    <3>2. got[current].unknown[k] \in NoPayment
      BY <3>1 DEF Fine
    <3>3. QED
      BY <3>2 DEF NoPayment
  <2> HIDE DEF at
  <2>4. Credits[at].amount \in Int
    BY <2>3, CreditsAre DEF CreditRow
  <2>5. Unknown(x)
    BY <2>4 DEF Unknown, NoLeg
  <2> HIDE DEF x
  <2>6. QED
    BY <2>1, <2>2, <2>5 DEF AppendsUnknown
<1>7. ASSUME UNCHANGED vars
      PROVE  UNCHANGED <<aging, remittances, lines, fx>>
  BY <1>7 DEF vars, extraction, pipeline
<1>8. QED
  BY <1>1, <1>2, <1>3, <1>5, <1>6, <1>7 DEF Next, Evaluate, Finished

(***************************************************************************)
(* The invariant.                                                           *)
(***************************************************************************)
ItemsFine == \A x \in Items : ItemFine(x)
PipelineInv ==
    /\ ExtractionInv /\ Walk
    /\ remittances \in Remittances /\ CacheRated(fx) /\ ItemsFine

LEMMA PipelineStarts == Init => PipelineInv
<1> SUFFICES ASSUME Init PROVE PipelineInv
  OBVIOUS
<1>1. ExtractionInv /\ Walk /\ remittances \in Remittances
  BY ExtractionStarts, WalkStarts DEF Init
<1>2. fx = <<>> /\ Items = {}
  BY DEF Init, Items
<1>3. QED
  BY <1>1, <1>2 DEF PipelineInv, CacheRated, ItemsFine

LEMMA PipelineKept ==
    ASSUME PipelineInv, [Next]_vars
    PROVE  PipelineInv'
<1>1. ExtractionInv' /\ Walk'
  BY ExtractionKept, WalkKept DEF PipelineInv
<1>2. /\ aging' = aging /\ remittances' = remittances /\ aging \in Reports /\ remittances \in Remittances
      /\ CacheRated(fx) /\ IsSequence
  BY LinesSteps DEF PipelineInv, ExtractionInv, ExtractionType, Walk
<1>3. ASSUME NEW x PROVE ItemFine(x)' <=> ItemFine(x)
  <2>1. Sound(x)' <=> Sound(x)
    BY <1>2 DEF Sound
  <2>2. LeftToSplit(x)' <=> LeftToSplit(x)
    BY <1>2 DEF LeftToSplit
  <2>3. Referenced(x)' <=> Referenced(x)
    BY <2>2 DEF Referenced
  <2>4. QED
    BY <1>2, <2>1, <2>3 DEF ItemFine
<1>4. CASE UNCHANGED <<lines, fx>>
  <2>1. Items' = Items
    BY <1>4 DEF Items
  <2>2. QED
    BY <1>1, <1>2, <1>3, <1>4, <2>1 DEF PipelineInv, ItemsFine, CacheRated
<1>5. ASSUME NEW x, lines' = Append(lines, x), ItemFine(x), CacheRated(fx') PROVE PipelineInv'
  <2>1. Items' = Items \cup {x}
    BY <1>2, <1>5, Appended
  <2>2. ItemsFine'
    BY <1>3, <1>5, <2>1 DEF PipelineInv, ItemsFine
  <2>3. QED
    BY <1>1, <1>2, <1>5, <2>2 DEF PipelineInv
<1>6. CASE AppendsUnknown
  <2>1. PICK x : lines' = Append(lines, x) /\ Unknown(x) /\ UNCHANGED fx
    BY <1>6 DEF AppendsUnknown
  <2>2. ItemFine(x)
    BY <2>1 DEF Unknown, ItemFine, Rules, InBands, PassedValidation, Category
  <2>3. QED
    BY <1>2, <1>5, <2>1, <2>2
<1>7. ASSUME NEW payment \in Known(aging), NEW up, NEW drift \in {-1, 0, 1}, AppendsEvaluated(payment, up, drift)
      PROVE  PipelineInv'
  <2> DEFINE i == InputOf(payment, up)
             x == LineItem(i, payment, EvaluateRow(i, aging, drift))
  <2>1. ItemFine(x)
    BY <1>2, EvaluatedIsFine
  <2>2. lines' = Append(lines, x) /\ fx' = i.cache
    BY <1>7 DEF AppendsEvaluated
  <2>3. CacheRated(i.cache)
    BY <1>2, InputIs
  <2> HIDE DEF x, i
  <2>4. QED
    BY <1>5, <2>1, <2>2, <2>3
<1>8. QED
  BY <1>4, <1>6, <1>7, LinesSteps DEF PipelineInv

\* The inductive invariant of a run: every row is in one bucket or waiting for an answer,
\* the line items of the chunk being evaluated follow its buckets in order, and each line
\* item keeps what evaluate_row established of it.
THEOREM PipelineInvariant == Spec => []PipelineInv
<1>1. Init => PipelineInv
  BY PipelineStarts
<1>2. PipelineInv /\ [Next]_vars => PipelineInv'
  BY PipelineKept
<1>3. QED
  BY <1>1, <1>2, PTL DEF Spec

\* The run's state keeps its shape: every received and target amount is a whole number
\* of hundredths, whatever is converted, split and rounded, and every rule is one that
\* evaluate_row can end with.
THEOREM TypeOKAlways == Spec => []TypeOK
<1>1. PipelineInv => TypeOK
  <2> SUFFICES ASSUME PipelineInv PROVE TypeOK
    OBVIOUS
  <2>1. ExtractionType /\ Walk /\ remittances \in Remittances /\ ItemsFine
    BY DEF PipelineInv, ExtractionInv
  <2>2. \A j \in DOMAIN job : job[j].step \in JobSteps /\ job[j].bucket \in Bucket
    BY <2>1 DEF ExtractionType, Job
  <2>3. ASSUME NEW k \in DOMAIN lines
        PROVE  lines[k].rule \in Rules /\ lines[k].received \in Int /\ lines[k].target \in Int
    BY <2>1 DEF ItemsFine, Items, ItemFine
  <2>4. QED
    BY <2>1, <2>2, <2>3 DEF TypeOK, ExtractionType, ChunkSteps, JobSteps, Walk, Statuses, Rules
<1>2. QED
  BY <1>1, PipelineInvariant, PTL

\* Whatever the model answers, leaves out or fails to answer and in whatever order
\* batches and chunks end, every row of the run becomes one line item, and only the
\* rows of a batch or chunk that raised have none (layer_2b_ai.py, merger.py).
THEOREM EveryRowOnceAlways == Spec => []EveryRowOnce
<1>1. PipelineInv => EveryRowOnce
  BY AllRowsWalked DEF PipelineInv
<1>2. QED
  BY <1>1, PipelineInvariant, PTL

\* A number that the report does not know, read from the row or said by the model,
\* reaches no line item: "invoice not in aging" is only said of a remittance's.
THEOREM UnknownInvoiceIsRemittedAlways == Spec => []UnknownInvoiceIsRemitted
<1>1. PipelineInv => UnknownInvoiceIsRemitted
  BY DEF PipelineInv, ItemsFine, ItemFine, UnknownInvoiceIsRemitted
<1>2. QED
  BY <1>1, PipelineInvariant, PTL

\* However the shares of a payment are rounded, the references of a row that may be
\* posted add up to the amount of its receipt (evaluator.py, fusion_client.py).
THEOREM ReferencesAddUpAlways == Spec => []ReferencesAddUp
<1>1. PipelineInv => ReferencesAddUp
  BY DEF PipelineInv, ItemsFine, ItemFine, Referenced, ReferencesAddUp, Postable
<1>2. QED
  BY <1>1, PipelineInvariant, PTL

\* Whatever tolerance the engine is configured with, a mapping by hand is classified as the
\* engine classified the row, for every pair of amounts, of either sign, whose shortfall
\* neither rounds to nothing nor lies between that tolerance and the constant 12 % of the
\* mapping by hand (manual_mapping.py _classify, evaluator.py).
THEOREM HandAgreesAlways == Spec => []HandAgrees
<1>1. PipelineInv => HandAgrees
  BY DEF PipelineInv, ItemsFine, ItemFine, HandAgrees
<1>2. QED
  BY <1>1, PipelineInvariant, PTL

\* In a run of credits only, and with a tolerance below 100 %, whatever remittances and
\* rates it meets: a row that may be posted pays no more than its invoices leave open
\* and no less than the tolerance, has been converted if it had to be, and is not of
\* another unit's customer (evaluator.py, the order of R13, R14 and R9).
THEOREM PostableIsSoundOfCredits ==
    ASSUME TolerancePct < 100, \A r \in RowsIn : Credits[r].amount >= 0
    PROVE  Spec => []PostableIsSound
<1>1. OnlyCredits
  BY DEF OnlyCredits
<1>2. PipelineInv => PostableIsSound
  BY <1>1 DEF PipelineInv, ItemsFine, ItemFine, Sound, PostableIsSound, Postable
<1>3. QED
  BY <1>2, PipelineInvariant, PTL

(***************************************************************************)
(* One rate for a pair and a day.                                           *)
(***************************************************************************)
Key(x) == <<x.row.currency, x.currency, x.row.date>>
RatesKept ==
    \A x \in Items : x.credited.needed => /\ Key(x) \in DOMAIN fx
                                          /\ fx[Key(x)].rate = x.credited.rate

Keeps(old, new) == \A k \in DOMAIN old : k \in DOMAIN new /\ new[k] = old[k]
Records(leg, key) == leg.needed => key \in DOMAIN leg.cache /\ leg.cache[key].rate = leg.rate

\* A conversion leaves what is cached as it is, and caches its own answer.
LEMMA LegKeeps ==
    ASSUME NEW cache, NEW from, NEW to, NEW date, NEW up, NEW again
    PROVE  /\ Keeps(cache, Leg(cache, from, to, date, up, again).cache)
           /\ Records(Leg(cache, from, to, date, up, again), <<from, to, date>>)
<1> DEFINE leg == Leg(cache, from, to, date, up, again)
           key == <<from, to, date>>
           answer == GetRate(cache, from, to, date, up)
<1>1. CASE from = to \/ None \in {from, to}
  BY <1>1 DEF Leg, Keeps, Records
<1>2. CASE ~(from = to \/ None \in {from, to})
  <2>1. leg.cache = Caching(cache, from, to, date, answer) /\ leg.rate = answer.rate
    BY <1>2 DEF Leg
  <2>2. /\ DOMAIN leg.cache = DOMAIN cache \cup {key}
        /\ \A k \in DOMAIN leg.cache : leg.cache[k] = IF k = key THEN answer ELSE cache[k]
    BY <2>1 DEF Caching
  <2>3. key \in DOMAIN cache => answer = cache[key]
    BY DEF GetRate
  <2> HIDE DEF answer, leg
  <2>4. Keeps(cache, leg.cache) /\ Records(leg, key)
    BY <2>1, <2>2, <2>3 DEF Keeps, Records
  <2>5. QED
    BY <2>4 DEF leg
<1>3. QED
  BY <1>1, <1>2

\* However often Oracle fails and recovers during a run, its rows of one day and the
\* same two currencies are converted at one rate: the cache keeps failures too.
THEOREM SameRateAlways == Spec => []SameRate
<1> DEFINE IInv == PipelineInv /\ RatesKept
<1>1. Init => IInv
  <2>1. ASSUME Init PROVE Items = {}
    BY <2>1 DEF Init, Items
  <2>2. QED
    BY <2>1, PipelineStarts DEF RatesKept
<1>2. IInv /\ [Next]_vars => IInv'
  <2> SUFFICES ASSUME PipelineInv, RatesKept, [Next]_vars PROVE RatesKept'
    BY PipelineKept
  <2>1. ExtractionInv /\ Walk /\ IsSequence
    BY DEF PipelineInv, Walk
  <2>2. CASE UNCHANGED <<lines, fx>>
    BY <2>2 DEF RatesKept, Items, Key
  <2>3. ASSUME NEW x, lines' = Append(lines, x),
               \A k \in DOMAIN fx : k \in DOMAIN fx' /\ fx'[k] = fx[k],
               x.credited.needed => Key(x) \in DOMAIN fx' /\ fx'[Key(x)].rate = x.credited.rate
        PROVE  RatesKept'
    <3>1. Items' = Items \cup {x}
      BY <2>1, <2>3, Appended
    <3>2. ASSUME NEW y \in Items', y.credited.needed
          PROVE  Key(y) \in DOMAIN fx' /\ fx'[Key(y)].rate = y.credited.rate
      BY <2>3, <3>1, <3>2 DEF RatesKept
    <3>3. QED
      BY <3>1, <3>2 DEF RatesKept, Key
  <2>4. ASSUME NEW payment, NEW up, NEW drift \in {-1, 0, 1}, AppendsEvaluated(payment, up, drift)
        PROVE  RatesKept'
    <3> DEFINE row == Credits[payment.at]
               i == InputOf(payment, up)
               x == LineItem(i, payment, EvaluateRow(i, aging, drift))
               known == IF row.ou = None THEN None ELSE FunctionalOf[row.ou]
               functional == IF known = None THEN row.currency ELSE known
    <3>1. /\ i.row = row
          /\ i.credited = Leg(fx, row.currency, i.currency, row.date, up[1], up[2])
          /\ i.cache = Leg(i.credited.cache, i.currency, functional, row.date, up[3], up[4]).cache
      BY DEF RuleInput, InputOf
    <3>2. /\ x.row = row /\ x.currency = i.currency
          /\ x.credited.needed = i.credited.needed /\ x.credited.rate = i.credited.rate
      BY <3>1 DEF LineItem, Stamp
    <3>3. lines' = Append(lines, x) /\ fx' = i.cache
      BY <2>4 DEF AppendsEvaluated
    <3> HIDE DEF functional, row, x, i
    <3> DEFINE first == Leg(fx, row.currency, i.currency, row.date, up[1], up[2])
               second == Leg(first.cache, i.currency, functional, row.date, up[3], up[4])
    <3>4. Keeps(fx, first.cache) /\ Records(first, <<row.currency, i.currency, row.date>>)
      BY LegKeeps
    <3>5. Keeps(first.cache, second.cache)
      BY LegKeeps
    <3>6. i.credited = first /\ fx' = second.cache
      BY <3>1, <3>3
    <3> HIDE DEF first, second
    <3>7. \A k \in DOMAIN fx : k \in DOMAIN fx' /\ fx'[k] = fx[k]
      BY <3>4, <3>5, <3>6 DEF Keeps
    <3>8. x.credited.needed => Key(x) \in DOMAIN fx' /\ fx'[Key(x)].rate = x.credited.rate
      BY <3>2, <3>4, <3>5, <3>6 DEF Key, Keeps, Records
    <3>9. QED
      BY <2>3, <3>3, <3>7, <3>8
  <2>5. ASSUME NEW x, Unknown(x), lines' = Append(lines, x), UNCHANGED fx
        PROVE  RatesKept'
    BY <2>3, <2>5 DEF Unknown
  <2>6. QED
    BY <2>1, <2>2, <2>4, <2>5, LinesSteps DEF AppendsUnknown
<1>3. IInv => SameRate
  BY DEF RatesKept, SameRate, Key
<1>4. QED
  BY <1>1, <1>2, <1>3, PTL DEF Spec
=============================================================================
