--------------------------- MODULE MCLedgerEdits ---------------------------
(* One committer and no other faults; the same round can be committed      *)
(* twice. The records are real ones: roots are Merkle roots, and an edit   *)
(* of a record's hashed fields can turn them into any others. The rounds   *)
(* have 5 and 6 leaves, the records they are edited into have 3 to 7.      *)
EXTENDS LedgerEdits, TLC

CONSTANTS c1, m1, m2, t1, v1, w1, w2, none

(* Digests are numbers: two C sources, a translation, a reproducer.        *)
MCBlobs == 1 .. 4

M == INSTANCE Merkle WITH
         Hotkeys <- 1 .. 2, Tasks <- {t1}, Sources <- {1, 2},
         Rusts <- {3}, NoRust <- none, Verdicts <- {v1},
         Inputs <- {4}, Scores <- {w1, w2}

(* Hits are on the one translation there is: at most two reproducers.      *)
MCHashedFields == {f \in M!Fields : \A r \in f.reps : r[1] = 1}

RootTable ==
    << >> @@ [f \in MCHashedFields |-> M!MerkleRoot(M!LeavesOf(f))]
MCRoot(hashed) == RootTable[hashed]
MCArtifacts(hashed) == M!DigestsOf(hashed)

answer == [rust |-> 3, verdict |-> v1]
silence == [rust |-> none, verdict |-> v1]

MCCommitters == {c1}
MCMetas == {m1, m2}
MCContents ==
    {[hashed |-> [task |-> t1, c |-> 1, subs |-> <<answer>>,
                  reps |-> {<<1, 2, 4>>}, scores |-> w1], meta |-> m1],
     [hashed |-> [task |-> t1, c |-> 2, subs |-> <<answer, silence>>,
                  reps |-> {<<1, 2, 4>>}, scores |-> w2], meta |-> m2]}

=============================================================================
