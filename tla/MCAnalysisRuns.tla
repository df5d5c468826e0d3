--------------------------- MODULE MCAnalysisRuns ---------------------------
(* Small instances of AnalysisRuns for TLC. *)
EXTENDS AnalysisRuns, TLC

CONSTANTS r1, r2, f1, f2, a1, a2, l1, l2

\* One file with two lines.
OneFile == f1 :> a1
TwoLines == f1 :> {l1, l2}
\* f1 and f2 are statements of the same account: f2 repeats the lines of f1.
SharedAccount == f1 :> a1 @@ f2 :> a1
RepeatedLines == f1 :> {l1} @@ f2 :> {l1, l2}
\* f1 and f2 are statements of two accounts.
OwnAccounts == f1 :> a1 @@ f2 :> a2
OwnLines == f1 :> {l1} @@ f2 :> {l2}

OneSet == {{f1}}
EachFile == {{f1}, {f2}}
OneOrBoth == {{f1}, {f1, f2}}
RunSymmetry == Permutations({r1, r2})

NoFaults == [k \in Faults |-> 0]
AnyFault == [k \in Faults |-> 1]
OneOf(kinds) == [k \in Faults |-> IF k \in kinds THEN 1 ELSE 0]
RaiseOrCrash == OneOf({"raise", "crash"})
OnlyRaise == OneOf({"raise"})
OnlyDb == OneOf({"db"})
OnlyCrash == OneOf({"crash"})
=============================================================================
