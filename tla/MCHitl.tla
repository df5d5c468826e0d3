------------------------------- MODULE MCHitl -------------------------------
(* Small instances of Hitl for TLC. *)
EXTENDS Hitl, TLC

CONSTANTS s1, s2, i1, i2

Decisions == {"approve", "reject", "map", "recheck"}
WithRetry == Decisions \cup {"retry"}
Everything == WithRetry \cup {"abort"}
ApproveOnly == {"approve"}
RecheckOnly == {"recheck"}
ApproveAndReject == {"approve", "reject"}
ApproveAndMap == {"approve", "map"}
MapAndRecheck == {"map", "recheck"}
MapAndReject == {"map", "reject"}
ApproveRejectRetry == {"approve", "reject", "retry"}
ApproveMapRetry == {"approve", "map", "retry"}

VersionedOnly == {TRUE}
AnyAnswer == {"created", "refused", "lost"}
Answered == {"created", "refused"}
Reliable == {"created"}
SpocSymmetry == Permutations({s1, s2})
InvoiceSymmetry == Permutations({i1, i2})
BothSymmetry == SpocSymmetry \cup InvoiceSymmetry
=============================================================================
