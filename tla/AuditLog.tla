------------------------------ MODULE AuditLog ------------------------------
(***************************************************************************)
(* What the ledger promises its readers, with the files left out: the      *)
(* rounds that were committed form one sequence that only grows at its     *)
(* end, every record knows its place in it, and every record names the     *)
(* root of the one before it.                                              *)
(***************************************************************************)
EXTENDS Naturals, Sequences

CONSTANTS
    Contents,   \* what a round can ask the ledger to record
    Root(_),    \* the Merkle root over the fields that leaves cover
    Genesis     \* the root that precedes the first round (64 zeros)

VARIABLE log    \* the committed records, oldest first

(* The record the ledger files under `height` for `content`. Its root      *)
(* depends on the hashed fields and on nothing else: not on the height,    *)
(* the predecessor or the fields that no leaf covers.                      *)
RecordOf(content, height, prev) ==
    [content |-> content, height |-> height, prev |-> prev,
     root |-> Root(content.hashed)]

LogHead(records) ==
    IF records = << >> THEN Genesis ELSE records[Len(records)].root

-----------------------------------------------------------------------------

Init == log = << >>

Commit(content) ==
    log' = Append(log, RecordOf(content, Len(log) + 1, LogHead(log)))

Next == \E content \in Contents : Commit(content)

Spec == Init /\ [][Next]_log

=============================================================================
