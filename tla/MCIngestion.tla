---------------------------- MODULE MCIngestion ----------------------------
(* Small instances of Ingestion for TLC. *)
EXTENDS Ingestion, TLC

CONSTANTS c1, c2, c3, n1, n2, a1, a2, r1, r2, b1, b2, p1, p2, u1, u2

line(number, row) == [number |-> number, row |-> row]

\* Two overlapping statements of a1, and one whose recipe maps no account number.
Overlapping == c1 :> <<line(a1, r1), line(a1, r2)>> @@ c2 :> <<line(a1, r2)>>
                 @@ c3 :> <<line(NoNumber, r2)>>
\* One file with the rows of two accounts, alike in all that the row hash covers.
TwoAccounts == c1 :> <<line(a1, r1), line(a2, r1)>>

\* A statement of a1; a statement of which no account number is parsed.
OneRow == c1 :> <<line(a1, r1)>> @@ c2 :> <<line(a1, r2)>>
NoAccount == c1 :> <<line(NoNumber, r1)>>

InBoth == [c \in Contents |-> Numbers]
OnlyA1 == [c \in Contents |-> {a1}]
OneBank == [n \in Numbers |-> b1]
OtherBank == [n \in Numbers |-> b2]
OwnDigits == [n \in Numbers |-> n]
SameDigits == [n \in Numbers |-> "0001"]

RequestSymmetry == Permutations(Requests)
=============================================================================
