----------------------------- MODULE RuleEngine -----------------------------
(***************************************************************************)
(* The decision on one credit row: aging lookups, business unit of the      *)
(* customer, exchange rates, remittance, split over invoices, rule table,   *)
(* the same classification by hand, and the receipt built from the row.     *)
(*                                                                         *)
(* Sources: app/aging/aging_map.py, app/rule_engine/ou_resolver.py,         *)
(* fx_service.py, remittance_lookup.py, evaluator.py, the rule input in     *)
(* orchestrator.py, _classify in app/hitl/manual_mapping.py, the payloads   *)
(* of app/oracle/fusion_client.py.                                          *)
(*                                                                         *)
(* Pure operators.  Amounts are whole hundredths.  A similarity is a table, *)
(* a rate a quotient [num, den].                                            *)
(***************************************************************************)
EXTENDS Integers, Sequences, FiniteSets, FiniteSetsExt, Functions

CONSTANTS
    Customers,      \* customer names of the aging report
    Texts,          \* names and narratives to compare with them
    Score,          \* token_sort_ratio of a text and a customer
    Numbers,        \* invoice numbers
    BaseOf,         \* a number without its trailing letters
    OUs,            \* business units
    Currencies,
    Usd,            \* the bridge currency of the static map
    FunctionalOf,   \* ledger currency of a business unit; None if it is not onboarded
    OracleRate,     \* rates that Oracle GL has, by pair
    StaticMap,      \* the hardcoded rates, by pair
    RateScale,      \* 10^6: the static rates that are computed have six decimals
    CustomerLimit,  \* the default limit of customers_for_ou
    TolerancePct,   \* SHORT_PAYMENT_TOLERANCE_PCT
    FuzzyMinPct,    \* CUSTOMER_FUZZY_MATCH_MIN_PCT
    None

ASSUME RuleAssumption ==
    /\ Customers \subseteq Texts /\ None \notin Texts \cup Numbers \cup OUs \cup Currencies \cup Int
    /\ Score \in [Texts -> [Customers -> 0..100]]
    /\ BaseOf \in [Numbers -> Numbers]
    /\ FunctionalOf \in [OUs -> Currencies \cup {None}]
    /\ OracleRate \in [DOMAIN OracleRate -> [num : Nat \ {0}, den : Nat \ {0}]]
    /\ StaticMap \in [DOMAIN StaticMap -> [num : Nat \ {0}, den : Nat \ {0}]]
    /\ CustomerLimit \in Nat /\ RateScale \in Nat \ {0} /\ TolerancePct \in 0..100 /\ FuzzyMinPct \in 0..100

CreditRow == [text : Texts \cup {None}, written : Seq(Numbers), ou : OUs \cup {None},
              currency : Currencies, amount : Int, date : Int \cup {None}]
OpenInvoice == [number : Numbers, customer : Customers, ou : OUs, currency : Currencies, amount : Int]
RemittanceLine == [number : Numbers, paid : Int \cup {None}]
Remittance == [currency : Currencies, amount : Int, customer : Texts \cup {None},
               date : Int \cup {None}, lines : Seq(RemittanceLine)]

-----------------------------------------------------------------------------
\* The values of f at the numbers of S, by ascending number: a list filtered in order
\* (SelectSeq and SortSeq have no definition that a proof could use).
Nth(S, k) == CHOOSE r \in S : Cardinality({q \in S : q < r}) = k - 1
InOrder(f, S) == [k \in 1..Cardinality(S) |-> f[Nth(S, k)]]

(***************************************************************************)
(* AgingMap: the report as a sequence of open invoices.                     *)
(***************************************************************************)
LookupInvoice(aging, number, ou) ==
    LET With(n) == {k \in DOMAIN aging : aging[k].number = n}
        candidates == IF With(number) # {} THEN With(number) ELSE With(BaseOf[number])
        own == {k \in candidates : aging[k].ou = ou}
    IN IF candidates = {} THEN None ELSE aging[Min(IF own # {} THEN own ELSE candidates)]

\* The numbers that the report knows.
Confirm(aging, numbers, ou) ==
    InOrder(numbers, {k \in DOMAIN numbers : LookupInvoice(aging, numbers[k], ou) # None})

InOu(aging, ou) == {k \in DOMAIN aging : aging[k].ou = ou}
CustomersIn(aging, ou) == {aging[k].customer : k \in InOu(aging, ou)}
OusOf(aging) == {aging[k].ou : k \in DOMAIN aging}

\* customers_for_ou: the names in the order of the report, cut off at the limit.
CustomersForOu(aging, ou, limit) ==
    LET NamesUpTo(k) == {aging[j].customer : j \in {i \in InOu(aging, ou) : i <= k}}
    IN {aging[k].customer : k \in {i \in InOu(aging, ou) : Cardinality(NamesUpTo(i)) <= limit}}

BestMatch(text, names, min) ==
    LET best == {c \in names : Score[text][c] >= min
                                 /\ \A d \in names : Score[text][c] >= Score[text][d]}
    IN IF best = {} THEN None ELSE CHOOSE c \in best : TRUE

FuzzyCustomer(aging, text, min) ==
    BestMatch(text, UNION {CustomersIn(aging, ou) : ou \in OusOf(aging)}, min)
FuzzyCustomerInOu(aging, text, ou, min) == BestMatch(text, CustomersIn(aging, ou), min)

-----------------------------------------------------------------------------
(***************************************************************************)
(* ou_resolver: the units with open invoices of the customer.               *)
(***************************************************************************)
CustomerOus(aging, customer) ==
    {ou \in OusOf(aging) :
        \E c \in CustomersForOu(aging, ou, CustomerLimit) : Score[customer][c] >= 60}

IsCrossOu(aging, customer, ou) ==
    /\ customer # None
    /\ CustomerOus(aging, customer) # {}
    /\ ou \notin CustomerOus(aging, customer)

-----------------------------------------------------------------------------
(***************************************************************************)
(* FxService: a cache by pair and date for the run, Oracle, the static map. *)
(***************************************************************************)
\* round(n / d), halves up.
Rounded(n, d) == IF d > 0 THEN (2 * n + d) \div (2 * d) ELSE (-2 * n - d) \div (-2 * d)
Converted(amount, rate) == Rounded(amount * rate.num, rate.den)

FetchFromOracle(pair, up) ==
    IF up /\ pair \in DOMAIN OracleRate THEN OracleRate[pair] ELSE None

\* The pair, its inverse, or by way of the dollar, the latter two rounded.
OfScale(num, den) == [num |-> Rounded(RateScale * num, den), den |-> RateScale]
LookupStatic(from, to) ==
    LET Known(a, b) == <<a, b>> \in DOMAIN StaticMap
        Via == <<StaticMap[<<from, Usd>>], StaticMap[<<Usd, to>>]>>
    IN IF Known(from, to) THEN StaticMap[<<from, to>>]
       ELSE IF Known(to, from)
            THEN OfScale(StaticMap[<<to, from>>].den, StaticMap[<<to, from>>].num)
       ELSE IF Known(from, Usd) /\ Known(Usd, to)
            THEN OfScale(Via[1].num * Via[2].num, Via[1].den * Via[2].den)
       ELSE None

NoRate == [rate |-> None, source |-> "none"]
RateWithSource(from, to, up) ==
    LET live == FetchFromOracle(<<from, to>>, up)
        static == LookupStatic(from, to)
    IN IF live # None THEN [rate |-> live, source |-> "oracle_gl"]
       ELSE IF static # None THEN [rate |-> static, source |-> "static_map"]
       ELSE NoRate

GetRate(cache, from, to, date, up) ==
    IF <<from, to, date>> \in DOMAIN cache THEN cache[<<from, to, date>>]
    ELSE RateWithSource(from, to, up)

\* Mutant: only what Oracle answered is kept.
CachingLive(cache, from, to, date, answer) ==
    [k \in DOMAIN cache \cup (IF answer.source = "oracle_gl" THEN {<<from, to, date>>} ELSE {}) |->
        IF k = <<from, to, date>> THEN answer ELSE cache[k]]

\* A failure is kept like a rate.
Caching(cache, from, to, date, answer) ==
    [k \in DOMAIN cache \cup {<<from, to, date>>} |->
        IF k = <<from, to, date>> THEN answer ELSE cache[k]]

\* One leg of the conversion: whether it is needed, its rate, and the source
\* stamped on the row, which comes from a second call to Oracle.
Leg(cache, from, to, date, up, again) ==
    IF from = to \/ None \in {from, to} THEN [needed |-> FALSE, rate |-> None, source |-> "none",
                                              origin |-> "none", cache |-> cache]
    ELSE LET answer == GetRate(cache, from, to, date, up)
         IN [needed |-> TRUE, rate |-> answer.rate, origin |-> answer.source,
             source |-> IF answer.rate = None THEN "none"
                        ELSE IF FetchFromOracle(<<from, to>>, again) # None THEN "oracle_gl"
                        ELSE "static_map",
             cache |-> Caching(cache, from, to, date, answer)]

-----------------------------------------------------------------------------
(***************************************************************************)
(* remittance_lookup: amount within 2 %, date within 10 days.               *)
(***************************************************************************)
Distance(a, b) == IF a > b THEN a - b ELSE b - a
Matches(m, row) ==
    /\ m.currency = row.currency
    /\ m.amount # 0 /\ 100 * Distance(m.amount, row.amount) <= 2 * m.amount
    /\ None \notin {m.date, row.date} => Distance(m.date, row.date) <= 10

NoRemittance == [found |-> FALSE, ambiguous |-> FALSE, conflict |-> FALSE, lines |-> <<>>]
RemittanceView(remittances, row, customer) ==
    LET matches == {m \in remittances : Matches(m, row)}
        m == CHOOSE x \in matches : TRUE
    IN IF matches = {} THEN NoRemittance
       ELSE IF Cardinality(matches) > 1 THEN [NoRemittance EXCEPT !.found = TRUE, !.ambiguous = TRUE]
       ELSE [found |-> TRUE, ambiguous |-> FALSE, lines |-> m.lines,
             conflict |-> None \notin {customer, m.customer} /\ Score[m.customer][customer] < 50]

-----------------------------------------------------------------------------
(***************************************************************************)
(* _build_rule_input, second pass.  up: the answers of Oracle to the calls. *)
(***************************************************************************)
NumbersOf(lines) == [k \in DOMAIN lines |-> lines[k].number]

\* The first invoice that resolves names the currency of all.
InvoiceCurrency(aging, row, payment, view) ==
    LET candidates == IF view.lines # <<>> THEN NumbersOf(view.lines) ELSE payment.invoices
        Found(k) == LookupInvoice(aging, candidates[k], row.ou)
        resolving == {k \in DOMAIN candidates : Found(k) # None}
    IN IF resolving = {} THEN row.currency ELSE Found(Min(resolving)).currency

RuleInput(row, payment, aging, remittances, cache, up) ==
    LET view == RemittanceView(remittances, row, payment.customer)
        currency == InvoiceCurrency(aging, row, payment, view)
        known == IF row.ou = None THEN None ELSE FunctionalOf[row.ou]
        functional == IF known = None THEN row.currency ELSE known
        credited == Leg(cache, row.currency, currency, row.date, up[1], up[2])
        ledger == Leg(credited.cache, currency, functional, row.date, up[3], up[4])
    IN [row |-> row, remittance |-> view, extracted |-> payment.invoices,
        customer |-> payment.customer, currency |-> currency,
        credited |-> credited, ledger |-> ledger, cache |-> ledger.cache,
        pct |-> IF payment.customer # None /\ payment.confidence # None
                THEN payment.confidence ELSE payment.pct,
        crossOu |-> IsCrossOu(aging, payment.customer, row.ou)]

-----------------------------------------------------------------------------
(***************************************************************************)
(* _resolve_matched_invoices: the remittance's list before the extraction's *)
(* and the amount received split over what is not stated.                   *)
(***************************************************************************)
Candidates(i) ==
    IF i.remittance.found THEN i.remittance.lines
    ELSE [k \in DOMAIN i.extracted |-> [number |-> i.extracted[k], paid |-> None]]

Received(i) ==
    IF i.credited.needed /\ i.credited.rate # None THEN Converted(i.row.amount, i.credited.rate)
    ELSE i.row.amount

\* A number that is listed twice is stated by its last line.
Resolved(i, aging) ==
    LET all == Candidates(i)
        Found(c) == LookupInvoice(aging, c.number, i.row.ou)
        Last(n) == Max({k \in DOMAIN all : all[k].number = n})
        hits == InOrder(all, {k \in DOMAIN all : Found(all[k]) # None})
    IN [k \in DOMAIN hits |-> [number |-> hits[k].number, invoice |-> Found(hits[k]),
                               stated |-> all[Last(hits[k].number)].paid]]

Unstated(lines) == {k \in DOMAIN lines : lines[k].stated = None}
Outstanding(lines, ks) == SumFunctionOnSet([k \in ks |-> lines[k].invoice.amount], ks)
StatedTotal(lines, ks) == SumFunctionOnSet([k \in ks |-> lines[k].stated], ks)

\* The weights are quotients of the outstanding total of two or more lines.
DividesByZero(lines) ==
    Len(lines) > 1 /\ Cardinality(Unstated(lines)) > 1 /\ Outstanding(lines, Unstated(lines)) = 0

\* Mutant: the last of several shares is rounded too, and absorbs nothing.
SplitRounded(lines, received) ==
    LET open == Unstated(lines)
        rest == received - StatedTotal(lines, DOMAIN lines \ open)
        Share(k) == IF open = {k} THEN rest
                    ELSE Rounded(rest * lines[k].invoice.amount, Outstanding(lines, open))
    IN IF Len(lines) = 1 THEN [lines EXCEPT ![1].stated = received]
       ELSE [k \in DOMAIN lines |-> IF k \in open THEN [lines[k] EXCEPT !.stated = Share(k)]
                                    ELSE lines[k]]

Split(lines, received) ==
    LET open == Unstated(lines)
        rest == received - StatedTotal(lines, DOMAIN lines \ open)
        others == open \ {Max(open)}
        share == [k \in others |-> Rounded(rest * lines[k].invoice.amount, Outstanding(lines, open))]
        Stated(k) == IF k \in others THEN share[k] ELSE rest - SumFunctionOnSet(share, others)
    IN IF Len(lines) = 1 THEN [lines EXCEPT ![1].stated = received]
       ELSE [k \in DOMAIN lines |-> IF k \in open THEN [lines[k] EXCEPT !.stated = Stated(k)]
                                    ELSE lines[k]]

-----------------------------------------------------------------------------
(***************************************************************************)
(* evaluate_row.  The sum of several floats may be off in the last place:   *)
(* a drift of -1 or 1 thousandth of a hundredth.                            *)
(***************************************************************************)
Drifts(lines) == IF Len(lines) > 1 THEN {-1, 0, 1} ELSE {0}
Gap(target, received, drift) == 1000 * (target - received) + drift
Negative(gap, target) == IF target > 0 THEN gap < 0 ELSE target < 0 /\ gap > 0
Within(gap, target, pct) ==
    IF target > 0 THEN gap <= 10 * pct * target ELSE gap >= 10 * pct * target

\* Mutant: the sign of the shortfall is not looked at.
BandOfSize(target, received, drift) ==
    LET gap == Gap(target, received, drift)
    IN IF gap = 0 THEN "R9a"
       ELSE IF target # 0 /\ Within(gap, target, TolerancePct) THEN "R9b" ELSE "R9c"

BandOf(target, received, drift) ==
    LET gap == Gap(target, received, drift)
    IN IF target = 0 THEN "R9a"
       ELSE IF Negative(gap, target) THEN "R11"
       ELSE IF gap = 0 THEN "R9a"
       ELSE IF Within(gap, target, TolerancePct) THEN "R9b"
       ELSE "R9c"

\* The rules in the order of the code.  R0, R5 and R6 are never reached: their
\* inputs are constants of the orchestrator.  "raises" is the division by zero.
RuleTable(i, aging, lines, target, drift) ==
    LET customerFound == i.pct >= FuzzyMinPct
        invoiceFound == i.extracted # <<>> \/ i.remittance.lines # <<>>
        candidates == Candidates(i)
    IN <<[rule |-> "R1", when |-> i.remittance.found /\ i.remittance.conflict],
         [rule |-> "R3", when |-> i.remittance.ambiguous],
         [rule |-> "R4", when |-> candidates # <<>> /\ lines = <<>>],
         [rule |-> "R14", when |-> customerFound /\ ~invoiceFound /\ i.crossOu],
         [rule |-> "R7", when |-> customerFound /\ ~invoiceFound /\ ~i.remittance.found],
         [rule |-> "R8", when |-> lines = <<>>],
         [rule |-> "raises", when |-> DividesByZero(lines)],
         [rule |-> "R13", when |-> i.credited.needed /\ i.credited.rate = None],
         [rule |-> "R14", when |-> i.crossOu],
         [rule |-> BandOf(target, Received(i), drift), when |-> TRUE]>>

FirstRule(table) == table[Min({k \in DOMAIN table : table[k].when})].rule

EvaluateRow(i, aging, drift) ==
    LET lines == Resolved(i, aging)
        target == Outstanding(lines, DOMAIN lines)
        rule == FirstRule(RuleTable(i, aging, lines, target, drift))
        used == rule \in {"R13", "R11", "R9a", "R9b", "R9c"} \/ (rule = "R14" /\ lines # <<>>)
    IN [rule |-> rule, received |-> Received(i), target |-> IF used THEN target ELSE 0,
        matched |-> IF used THEN Split(lines, Received(i)) ELSE <<>>]

Category(rule) ==
    CASE rule = "R9a" -> "ready_to_post"
      [] rule = "R9b" -> "acceptable_short_payment"
      [] rule = "R7"  -> "needs_remittance"
      [] rule \in {"R8", "raises"} -> "unidentified"
      [] OTHER        -> "conflict_exception"
PassedValidation(rule) == Category(rule) \in {"ready_to_post", "acceptable_short_payment"}

-----------------------------------------------------------------------------
(***************************************************************************)
(* _classify: the bands of a mapping by hand, on the rounded percentage and *)
(* with a tolerance of its own.                                             *)
(***************************************************************************)
DefaultTolerancePct == 12
ShortfallPct(target, received) ==
    IF target = 0 THEN 0 ELSE Rounded(10000 * (target - received), target)
Classify(target, received) ==
    LET pct == ShortfallPct(target, received)
    IN IF pct < 0 THEN "R11"
       ELSE IF pct = 0 THEN "R9a"
       ELSE IF pct <= 100 * DefaultTolerancePct THEN "R9b" ELSE "R9c"

\* From one of two limits to the other.
Between(n, a, b) == (a <= n /\ n <= b) \/ (b <= n /\ n <= a)

(***************************************************************************)
(* build_receipt_creation_payload and build_remittance_reference_payloads.  *)
(***************************************************************************)
ReceiptOf(item) ==
    [currency |-> item.currency,
     amount |-> IF item.credited.needed /\ item.credited.rate # None
                THEN Converted(item.row.amount, item.credited.rate) ELSE item.row.amount,
     rate |-> IF item.ledger.needed THEN item.ledger.rate ELSE None]

\* A stated amount of zero is replaced by the outstanding amount.
ReferencesOf(item) ==
    [k \in DOMAIN item.matched |->
        [number |-> item.matched[k].number,
         amount |-> IF item.matched[k].stated \in {None, 0} THEN item.matched[k].invoice.amount
                    ELSE item.matched[k].stated]]
=============================================================================
