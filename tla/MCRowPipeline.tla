--------------------------- MODULE MCRowPipeline ---------------------------
(***************************************************************************)
(* Instances of RowPipeline.  Amounts are hundredths, dates days.           *)
(***************************************************************************)
EXTENDS RowPipeline, TLC

TwoCustomers == {"c1", "c2"}
SomeTexts == {"c1", "c2", "like c1", "like c2"}
Similarity ==
    "c1" :> ("c1" :> 100 @@ "c2" :> 20) @@ "c2" :> ("c1" :> 20 @@ "c2" :> 100) @@
    "like c1" :> ("c1" :> 70 @@ "c2" :> 30) @@ "like c2" :> ("c1" :> 20 @@ "c2" :> 45)

SomeNumbers == {"i1", "i1A", "i2", "i3", "i9"}
WithoutLetters == [n \in SomeNumbers |-> IF n = "i1A" THEN "i1" ELSE n]
TwoOus == {"o1", "o2"}
ThreeCurrencies == {"usd", "eur", "inr"}
LedgerOf == "o1" :> "usd" @@ "o2" :> "eur"
Oracle == <<"eur", "usd">> :> [num |-> 11, den |-> 10] @@ <<"inr", "usd">> :> [num |-> 1, den |-> 4]
Static == <<"usd", "eur">> :> [num |-> 9, den |-> 10]

Open(number, customer, ou, amount, currency) ==
    [number |-> number, customer |-> customer, ou |-> ou, amount |-> amount, currency |-> currency]
Report == <<Open("i1", "c1", "o1", 7500, "usd"), Open("i2", "c1", "o1", 2500, "usd"),
            Open("i3", "c2", "o2", 20000, "eur"), Open("i2", "c2", "o2", 30000, "eur")>>
Settled == <<Open("i1", "c1", "o1", 0, "usd"), Open("i2", "c1", "o1", 0, "usd"),
             Open("i3", "c2", "o2", 20000, "eur")>>
\* The customer is the first of o2 and the second of o1.
Widespread == <<Open("i3", "c2", "o1", 20000, "usd"), Open("i1", "c1", "o1", 7500, "usd"),
                Open("i2", "c1", "o2", 2500, "eur")>>
OneReport == {Report}
TwoReports == {Report, Settled}
WidespreadReport == {Widespread}

Credit(text, written, ou, currency, amount) ==
    [text |-> text, written |-> written, ou |-> ou, currency |-> currency, amount |-> amount,
     date |-> 1]
\* Two chunks: a row of layer 2A with a batch of two; a batch of one, a row
\* without a text.
FiveCredits ==
    <<Credit("like c1", <<"i1", "i2">>, "o1", "eur", 9082),
      Credit("like c2", <<"i9">>, "o1", "eur", 6818),
      Credit("like c1", <<>>, "o1", "inr", 40000),
      Credit("like c2", <<>>, "o2", "usd", 33375),
      Credit(None, <<>>, "o2", "usd", 100)>>
Says(customer, inList, invoices, confidence) ==
    [customer |-> customer, inList |-> inList, invoices |-> invoices, confidence |-> confidence]
FourAnswers == {Says("c1", TRUE, <<"i1">>, 90), Says("c2", FALSE, <<"i9">>, 60),
                Says(None, FALSE, <<"i1A", "i2">>, 30), Says("c1", TRUE, <<"i1">>, -1)}

Advice(currency, amount, customer, invoices) ==
    [currency |-> currency, amount |-> amount, customer |-> customer, date |-> 1,
     lines |-> invoices]
Pays(number, paid) == [number |-> number, paid |-> paid]
NoAdvice == {}
\* For the first four credits: stated in part, two that match, stated in full,
\* an invoice that is not open.
SomeAdvice ==
    {Advice("eur", 9082, "c1", <<Pays("i1", 9990), Pays("i2", None)>>),
     Advice("eur", 6818, "c1", <<>>), Advice("eur", 6820, None, <<Pays("i1", None)>>),
     Advice("inr", 40000, "c1", <<Pays("i1", 7500), Pays("i2", 2400)>>),
     Advice("usd", 33375, "c2", <<Pays("i9", None)>>)}
TwoAdvices == {NoAdvice, SomeAdvice}
=============================================================================
