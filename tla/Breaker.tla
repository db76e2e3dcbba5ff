------------------------------ MODULE Breaker ------------------------------
(***************************************************************************)
(* One challenge of the breaker miner: attack() of                         *)
(* neurons/miner_breaker.py with the hunt of LocalDiff.fuzz() and the      *)
(* shrinking of LocalDiff.minimize() in neurons/difffuzz.py.  Seeds,       *)
(* hypotheses and mutants are any inputs; time may run out between any two *)
(* batches and between any two trials of the minimizer.                    *)
(***************************************************************************)
EXTENDS DiffFuzz, Sequences

CONSTANTS
    Length,      \* of each input; inputs are numbers, shorter ones first
    Seeds,       \* the boundary and base seeds among the inputs
    Count,       \* num_inputs_requested
    NoInput

ASSUME InputsAssumption == Inputs \subseteq Nat /\ IsFiniteSet(Inputs)
ASSUME LengthAssumption == Length \in [Inputs -> Nat]
ASSUME SeedsAssumption == Seeds \subseteq Inputs
ASSUME CountAssumption == Count \in Nat

VARIABLES
    candidate,   \* the Rust code of the challenge: the inputs it differs on,
                 \* or NoBinary if there is none or it does not compile
    pc,          \* the step that comes next
    seen,        \* inputs probed in this hunt
    pending,     \* clean hits of the last batch that absorb() has still to take
    cur,         \* what the minimizer has shrunk the hit at hand to
    found,       \* the reproducers
    answer       \* the inputs submitted

vars == <<diffVars, candidate, pc, seen, pending, cur, found, answer>>

Init ==
    /\ ub \in SUBSET Inputs /\ crash \in SUBSET Inputs
    /\ candidate \in (SUBSET Inputs) \union {NoBinary}
    /\ oracle = "none" /\ built = NoBinary
    /\ clean = Nothing /\ ref = Nothing /\ cand = Nothing
    /\ pc = "start"
    /\ seen = {} /\ pending = {} /\ cur = NoInput
    /\ found = {} /\ answer = << >>

(* LocalDiff(c_code): without an oracle there is nothing to hunt.          *)
Start(left) ==
    /\ pc = "start"
    /\ BuildOracle(left)
    /\ pc' = IF left = "none" THEN "fill" ELSE "build"
    /\ UNCHANGED <<program, candidate, seen, pending, cur, found, answer>>

Build ==
    /\ pc = "build"
    /\ BuildRust(candidate)
    /\ pc' = IF candidate = NoBinary THEN "fill" ELSE "hunt"
    /\ UNCHANGED <<program, oracle, candidate, seen, pending, cur, found, answer>>

(* Faulty: hits are kept without a look at the sanitizer build. *)
Clear_Unscreened(hits, known) == hits

Clear(hits, known) == {i \in hits : known[i]}

(* absorb(): an input is probed once in a hunt, also when its launch       *)
(* failed; its hits are screened at once.                                  *)
Absorb(fresh, mishap, unclean) ==
    LET hits == HitsIn(RefAfter(fresh, mishap), CandAfter(fresh, mishap), fresh)
        known == Screened(clean, hits, unclean)
    IN  /\ seen' = seen \union fresh
        /\ ref' = RefAfter(fresh, mishap)
        /\ cand' = CandAfter(fresh, mishap)
        /\ unclean \subseteq hits
        /\ clean' = known
        /\ pending' = Clear(hits, known)

(* Seeds, or mutate() on any parents: it may make any input of any other.  *)
Batches == SUBSET Inputs

Probe(batch) ==
    /\ pc = "hunt"
    /\ pending = {} /\ cur = NoInput
    /\ Cardinality(found) < Count
    /\ batch \ seen # {}
    /\ \E mishap \in Mishaps(batch \ seen), unclean \in Losses(clean, batch \ seen) :
          Absorb(batch \ seen, mishap, unclean)
    /\ UNCHANGED <<program, oracle, built, candidate, pc, cur, found, answer>>

(* The budget is nearly spent, or there is nothing to shrink.              *)
KeepHit(i) ==
    /\ cur = NoInput
    /\ i \in pending
    /\ pending' = pending \ {i}
    /\ found' = found \union {i}
    /\ UNCHANGED <<diffVars, candidate, pc, seen, cur, answer>>

MinimizeStart(i) ==
    /\ cur = NoInput
    /\ i \in pending
    /\ Length[i] > 1
    /\ pending' = pending \ {i}
    /\ cur' = i
    /\ UNCHANGED <<diffVars, candidate, pc, seen, found, answer>>

(* Faulty: a trial need not be clean, as long as it still diverges. *)
StillBad_AnyCrash(trial, known) == TRUE

(* What is not clean is not compared.                                      *)
StillBad(trial, known) == known[trial]

(* One trial: a chunk is cut out.                                          *)
Trial(trial) ==
    /\ cur # NoInput
    /\ Length[trial] < Length[cur]
    /\ \E unclean \in Losses(clean, {trial}) :
         /\ clean' = Screened(clean, {trial}, unclean)
         /\ IF StillBad(trial, clean')
            THEN \E mishap \in Mishaps({trial}) :
                   /\ ref' = RefAfter({trial}, mishap)
                   /\ cand' = CandAfter({trial}, mishap)
                   /\ cur' = IF HitsIn(ref', cand', {trial}) # {} THEN trial ELSE cur
            ELSE UNCHANGED <<ref, cand, cur>>
    /\ UNCHANGED <<program, oracle, built, candidate, pc, seen, pending, found, answer>>

MinimizeEnd ==
    /\ cur # NoInput
    /\ found' = found \union {cur}
    /\ cur' = NoInput
    /\ UNCHANGED <<diffVars, candidate, pc, seen, pending, answer>>

(* The deadline has passed, or enough was found.                           *)
HuntEnd ==
    /\ pc = "hunt"
    /\ pending = {} /\ cur = NoInput
    /\ pc' = "fill"
    /\ UNCHANGED <<diffVars, candidate, seen, pending, cur, found, answer>>

(* The inputs of S, smallest first.                                        *)
Sorted(S) ==
    CHOOSE s \in [1 .. Cardinality(S) -> S] : \A i, j \in DOMAIN s : i < j => s[i] < s[j]

Upto(n, s) == SubSeq(s, 1, IF n < Len(s) THEN n ELSE Len(s))

(* The first few seeds, shortest first.                                    *)
Probes == LET few == Upto(3 * Count, Sorted(Seeds)) IN {few[k] : k \in DOMAIN few}

(* Faulty: reproducers may turn up again among the probes. *)
Submission_Repeats(known) ==
    LET hits == Upto(Count, Sorted(found))
        fill == {i \in Probes : known[i]}
    IN  hits \o Upto(Count - Len(hits), Sorted(fill))

(* Reproducers first, smallest first, then clean probes in the free slots. *)
Submission(known) ==
    LET hits == Upto(Count, Sorted(found))
        fill == {i \in Probes : known[i]} \ {hits[k] : k \in DOMAIN hits}
    IN  hits \o Upto(Count - Len(hits), Sorted(fill))

(* The probes are screened unless they are not needed.                     *)
FillUp ==
    /\ pc = "fill"
    /\ oracle # "none"
    /\ IF Cardinality(found) < Count
       THEN \E unclean \in Losses(clean, Probes) :
                /\ clean' = Screened(clean, Probes, unclean)
                /\ answer' = Submission(clean')
       ELSE /\ answer' = Upto(Count, Sorted(found))
            /\ UNCHANGED clean
    /\ pc' = "done"
    /\ UNCHANGED <<program, oracle, built, ref, cand, candidate, seen, pending, cur, found>>

(* Without an oracle the probes go out as they are.                        *)
FillUpBlind ==
    /\ pc = "fill"
    /\ oracle = "none"
    /\ answer' = Upto(Count, Sorted(Seeds))
    /\ pc' = "done"
    /\ UNCHANGED <<diffVars, candidate, seen, pending, cur, found>>

Next ==
    \/ \E left \in Oracles : Start(left)
    \/ Build
    \/ \E batch \in Batches : Probe(batch)
    \/ \E i \in Inputs : KeepHit(i) \/ MinimizeStart(i) \/ Trial(i)
    \/ MinimizeEnd
    \/ HuntEnd
    \/ FillUp
    \/ FillUpBlind

Spec == Init /\ [][Next]_vars

-----------------------------------------------------------------------------
(* Properties.                                                             *)

(* Seed, mutant or shrunk from either, after whatever failed to launch: a  *)
(* reproducer is an input on which this candidate does differ from C,      *)
(* unless one of the two was late on it, and, where the sanitizers could   *)
(* be built, one without undefined behaviour ("so it cannot be UB          *)
(* farming").                                                              *)
HitsAreReal ==
    \A i \in found \union pending \union ({cur} \ {NoInput}) :
        /\ i \in candidate \union Late
        /\ i \notin crash
        /\ oracle = "sanitized" => Valid(i)

(* "Only sanitizer-clean, minimized reproducers are submitted, ranked      *)
(* smallest first", and the inputs that fill the answer up are clean too:  *)
(* none of them is charged for. The answer holds no input twice and leaves *)
(* out no reproducer it has room for.                                      *)
AnswerFits ==
    pc = "done" =>
        LET sent == {answer[k] : k \in DOMAIN answer}
        IN  /\ Len(answer) <= Count /\ Cardinality(sent) = Len(answer)
            /\ \A i \in found : i \in sent \/ \A j \in sent : j \in found /\ j < i
            /\ found # {} => answer[1] \in found
            /\ oracle = "sanitized" => \A i \in sent : Valid(i)

=============================================================================
