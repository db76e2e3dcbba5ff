------------------------------ MODULE DiffFuzz ------------------------------
(***************************************************************************)
(* LocalDiff of neurons/difffuzz.py: one C program, the oracle and the     *)
(* sanitizer build made from it, one candidate at a time, and the results  *)
(* of the executions it remembers.  Both miners drive it (modules Breaker  *)
(* and Translator).  Programs are given by what they truly do; what        *)
(* LocalDiff knows of them is what its executions report: a launch may     *)
(* fail, and a program that is not done in time be killed, for reasons of  *)
(* the miner's own machine.                                                *)
(***************************************************************************)
EXTENDS Naturals, FiniteSets

CONSTANTS
    Inputs,     \* byte strings the programs may be run on
    NoBinary,   \* r_bin is None
    MaxLate     \* bound: inputs with a late execution in the cache

ASSUME MaxLateAssumption == MaxLate \in Nat

VARIABLES
    ub,         \* inputs on which the C program has undefined behaviour
    crash,      \* inputs on which it crashes or hangs, whatever the build
    oracle,     \* what build_c left behind
    built,      \* the inputs on which the candidate that was built last
                \* differs from the C program, or NoBinary
    clean,      \* cached executions of the sanitizer build: was it clean?
    ref,        \* cached executions of the oracle, and
    cand        \* of the candidate: how they compare with what C truly does

program == <<ub, crash>>
cache == <<clean, ref, cand>>
diffVars == <<program, oracle, built, cache>>

Nothing == [i \in {} |-> FALSE]

(* gcc failed; it built the oracle only; it built the sanitizer build too. *)
Oracles == {"none", "plain", "sanitized"}

Valid(i) == i \notin ub \union crash

(* Without a sanitizer build the oracle stands in for it.                  *)
BuildOracle(left) ==
    /\ oracle' = left
    /\ built' = NoBinary
    /\ clean' = Nothing /\ ref' = Nothing /\ cand' = Nothing

(* Faulty: the results of the candidate before are kept. *)
BuildRust_KeepCache(result) ==
    /\ built' = result
    /\ UNCHANGED cache

(* A candidate that does not compile replaces the one before, too. What is *)
(* cached of the two C builds stays.                                       *)
BuildRust(result) ==
    /\ built' = result
    /\ cand' = Nothing
    /\ UNCHANGED <<clean, ref>>

(* Faulty: a launch failure counts as a clean exit. *)
Screened_LostIsClean(memory, batch, lost) ==
    [i \in DOMAIN memory \union batch |->
        IF i \in DOMAIN memory THEN memory[i]
        ELSE i \in lost \/ IF oracle = "sanitized" THEN Valid(i) ELSE i \notin crash]

(* Faulty: the oracle screens, although there is a sanitizer build. *)
Screened_Plain(memory, batch, lost) ==
    [i \in DOMAIN memory \union batch |->
        IF i \in DOMAIN memory THEN memory[i]
        ELSE i \notin lost /\ i \notin crash]

(* is_clean: what `memory` becomes when a batch is screened and the        *)
(* launches in `lost` fail, or are late: those inputs are remembered as    *)
(* not clean.                                                              *)
Screened(memory, batch, lost) ==
    [i \in DOMAIN memory \union batch |->
        IF i \in DOMAIN memory THEN memory[i]
        ELSE /\ i \notin lost
             /\ IF oracle = "sanitized" THEN Valid(i) ELSE i \notin crash]

(* What _exec() remembers of a program that differs from C on `differing`: *)
(* a late execution is cached as exit -9; one that was not launched is     *)
(* forgotten, with that of the other program.                              *)
Executed(memory, differing, batch, lost, slow) ==
    [i \in (DOMAIN memory \union batch) \ lost |->
        CASE i \in DOMAIN memory -> memory[i]
          [] i \in slow \ DOMAIN memory -> "late"
          [] i \in differing \ (slow \union DOMAIN memory) -> "differs"
          [] OTHER -> "same"]

(* compare(): the two programs are run on what is not cached.              *)
RefAfter(batch, mishap) == Executed(ref, {}, batch, mishap.lost, mishap.ref)
CandAfter(batch, mishap) == Executed(cand, built, batch, mishap.lost, mishap.cand)

(* A late execution agrees with none in output and exit code.              *)
HitsIn(c, r, batch) ==
    {i \in batch \intersect DOMAIN r : c[i] = "late" \/ r[i] # "same"}

(* Inputs on which one of the two programs was late.                       *)
Late == {i \in DOMAIN ref : ref[i] = "late"} \union {i \in DOMAIN cand : cand[i] = "late"}

(* What may go wrong in a comparison: either launch of an input fails, or  *)
(* one of the two programs is late.                                        *)
Mishaps(batch) ==
    LET new == batch \ DOMAIN cand
    IN  {m \in [lost : SUBSET new, ref : SUBSET (new \ DOMAIN ref), cand : SUBSET new] :
            /\ m.lost \intersect (m.ref \union m.cand) = {}
            /\ Cardinality(Late \union m.ref \union m.cand) <= MaxLate}

(* What is cached is not launched.                                         *)
Losses(memory, batch) == SUBSET (batch \ DOMAIN memory)

DiffTypeOK ==
    /\ ub \subseteq Inputs /\ crash \subseteq Inputs
    /\ oracle \in Oracles
    /\ built \in (SUBSET Inputs) \union {NoBinary}
    /\ DOMAIN clean \subseteq Inputs
    /\ \A i \in DOMAIN clean : clean[i] \in BOOLEAN
    /\ DOMAIN cand \subseteq DOMAIN ref /\ DOMAIN ref \subseteq Inputs
    /\ \A i \in DOMAIN ref : ref[i] \in {"same", "late"}
    /\ \A i \in DOMAIN cand : cand[i] \in {"same", "differs", "late"}

=============================================================================
