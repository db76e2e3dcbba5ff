------------------------------ MODULE MCLedger ------------------------------
(* Small instances of Ledger for TLC: two artifacts, one of them shared by *)
(* both rounds; the rounds differ in hashed and in unhashed fields.        *)
EXTENDS Ledger

CONSTANTS c1, b1, b2, m1

MCCommitters == {c1}
MCBlobs == {b1, b2}
MCHashedFields == {{b1}, {b1, b2}}
MCMetas == {m1}
MCRoot(hashed) == hashed
MCArtifacts(hashed) == hashed
MCContents == [hashed : MCHashedFields, meta : MCMetas]

=============================================================================
