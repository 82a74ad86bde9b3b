-------------------------- MODULE MCEvidenceLedger --------------------------
(* Small instances of the evidence ledger for TLC. *)
EXTENDS EvidenceLedger

CONSTANTS e1, d1, d2, c1, m1

OneSensed == {e1}
OneDerived == {d1}
TwoDerived == {d1, d2}
OneChild == {c1}
OneMemory == {m1}
None == {}

=============================================================================
