------------------------------- MODULE Merkle -------------------------------
(***************************************************************************)
(* leaves_of() and merkle_root() of neurons/ledger.py: the order of a      *)
(* record's leaves, the loop that folds them, level by level, into one     *)
(* root, and the digests that verify() looks up.  Hashing is the pair      *)
(* constructor: SHA-256 is taken to be injective, so two roots are equal   *)
(* exactly if the trees are.                                               *)
(***************************************************************************)
EXTENDS Naturals, Sequences, SequencesExt

CONSTANTS
    Hotkeys,     \* miners' hotkeys, as numbers: they are sorted as strings
    Tasks,       \* {task, constants, hidden_tests}
    Sources,     \* digests of C sources
    Rusts,       \* digests of Rust sources
    NoRust,      \* rust_sha256 of a miner that returned nothing: None
    Verdicts,    \* the rest of a submission's entry
    Inputs,      \* digests of reproducers, as numbers
    Scores       \* {scores, weights}

(* The hashed fields of a round record. Submissions are keyed by hotkey and *)
(* reproducers by translator, breaker and input.                           *)
Reproducers == Hotkeys \X Hotkeys \X Inputs
Entries == [rust : Rusts \union {NoRust}, verdict : Verdicts]
Submissions == UNION {[submitters -> Entries] : submitters \in SUBSET Hotkeys}
Fields == [task : Tasks, c : Sources, subs : Submissions,
           reps : SUBSET Reproducers, scores : Scores]

(* What verify() fetches: "digests", without the None's.                   *)
DigestsOf(rec) ==
    LET rusts == {rec.subs[h].rust : h \in DOMAIN rec.subs} \ {NoRust}
    IN  {rec.c} \union rusts \union {r[3] : r \in rec.reps}

KeyBefore(r, s) ==
    \/ r[1] < s[1]
    \/ r[1] = s[1] /\ r[2] < s[2]
    \/ r[1] = s[1] /\ r[2] = s[2] /\ r[3] < s[3]

(* Faulty: a submission's leaf leaves its hotkey out. *)
LeavesOf_Anonymous(rec) ==
    LET subs == SetToSortSeq(DOMAIN rec.subs, <)
        reps == SetToSortSeq(rec.reps, KeyBefore)
    IN  << <<"task", rec.task>>, <<"c", rec.c>> >>
        \o [i \in 1 .. Len(subs) |-> <<"sub", rec.subs[subs[i]]>>]
        \o [i \in 1 .. Len(reps) |-> <<"rep", reps[i]>>]
        \o << <<"scores", rec.scores>> >>

(* Each leaf hashes an object whose keys no other kind of leaf has.        *)
LeavesOf(rec) ==
    LET subs == SetToSortSeq(DOMAIN rec.subs, <)
        reps == SetToSortSeq(rec.reps, KeyBefore)
    IN  << <<"task", rec.task>>, <<"c", rec.c>> >>
        \o [i \in 1 .. Len(subs) |-> <<"sub", subs[i], rec.subs[subs[i]]>>]
        \o [i \in 1 .. Len(reps) |-> <<"rep", reps[i]>>]
        \o << <<"scores", rec.scores>> >>

Hash(left, right) == <<"hash", left, right>>

(* Faulty: the odd node at the end of a level is dropped. *)
Fold_DropOdd(level) ==
    [i \in 1 .. (Len(level) \div 2) |-> Hash(level[2 * i - 1], level[2 * i])]

(* One turn of the while loop: the last node of an odd level is doubled.   *)
Fold(level) ==
    LET even == IF Len(level) % 2 = 1 THEN Append(level, Last(level)) ELSE level
    IN  [i \in 1 .. (Len(even) \div 2) |-> Hash(even[2 * i - 1], even[2 * i])]

RECURSIVE MerkleRoot(_)
MerkleRoot(level) ==
    IF Len(level) = 1 THEN level[1] ELSE MerkleRoot(Fold(level))

=============================================================================
