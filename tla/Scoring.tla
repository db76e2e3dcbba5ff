------------------------------ MODULE Scoring ------------------------------
(***************************************************************************)
(* score_round of neurons/scoring.py: breaker inputs are screened on the   *)
(* sanitizer build of the C source, the clean ones are run against every   *)
(* candidate, a broken candidate forfeits its score and half of it goes to *)
(* the breakers that broke it, and invalid inputs are charged for.         *)
(* What the sandbox answers is chosen freely; scores are integers counted  *)
(* in units of the last digit kept, and shares of a bounty in parts of it. *)
(***************************************************************************)
EXTENDS Rounding, FiniteSets, Functions

CONSTANTS
    Translators, Breakers,   \* hotkeys; a miner may play both roles
    Inputs,                  \* inputs a breaker can submit
    Oversize,                \* those longer than MAX_INPUT_SIZE
    HiddenTests,             \* hidden tests of a round
    Penalty,                 \* invalid_penalty, in units
    Parts                    \* parts of a unit a bounty is split into

ASSUME MinersAssumption == IsFiniteSet(Translators) /\ IsFiniteSet(Breakers)
ASSUME InputsAssumption == IsFiniteSet(Inputs)
ASSUME ScoresAssumption == HiddenTests \in Nat /\ Penalty \in Nat
ASSUME PartsAssumption ==
    /\ Parts \in Nat \ {0}
    /\ \A n \in 1 .. Cardinality(Breakers) : Parts % (2 * n) = 0
ASSUME OversizeAssumption == Oversize \subseteq Inputs

Hotkeys == Translators \union Breakers

VARIABLES
    phase,      \* the step of score_round that comes next
    pre,        \* pre_t of each translator
    submitted,  \* each breaker's inputs, without duplicates
    valid,      \* valid_inputs_by_breaker
    infra,      \* inputs whose screening failed on our side
    built,      \* whether the sanitizer build of the C source succeeded
    invalid,    \* invalid_count_by_breaker
    broke,      \* broke[t][b]: inputs of b on which t diverges from C
    owed,       \* breaker_bounties, in parts
    tscore,     \* final_translator_scores
    bscore,     \* final_breaker_scores
    rscore      \* round_scores

screen == <<valid, infra, built, invalid>>
vars == <<phase, pre, submitted, screen, broke, owed, tscore, bscore, rscore>>

(* calculate_translator_pre_score; `gated` includes the size limit.        *)
PreScore(passed, total, compiled, gated, up) ==
    IF ~ compiled \/ ~ gated \/ total = 0 THEN 0
    ELSE Rounded(Scale * passed * passed * passed, total * total * total, up)

(* Executions that never launched are taken off the total.                 *)
PreScores ==
    {PreScore(run[1], run[2], compiled, gated, up) :
        run \in {r \in (0 .. HiddenTests) \X (0 .. HiddenTests) : r[1] <= r[2]},
        compiled \in BOOLEAN, gated \in BOOLEAN, up \in BOOLEAN}

Init ==
    /\ phase = "screen"
    /\ pre \in [Translators -> PreScores]
    /\ submitted \in [Breakers -> SUBSET Inputs]
    /\ valid = [b \in Breakers |-> {}]
    /\ infra = [b \in Breakers |-> {}]
    /\ built = TRUE
    /\ invalid = [b \in Breakers |-> 0]
    /\ broke = [t \in Translators |-> [b \in Breakers |-> {}]]
    /\ owed = [b \in Breakers |-> 0]
    /\ tscore = [t \in Translators |-> 0]
    /\ bscore = [b \in Breakers |-> 0]
    /\ rscore = [h \in Hotkeys |-> 0]

-----------------------------------------------------------------------------

(* Faulty: a failure of our own harness counts against the breaker. *)
Charged_Infra(b, clean, failed) == submitted[b] \ clean

(* The inputs that cost a breaker: the oversize ones, which the sandbox    *)
(* never sees, and what the sandbox found neither clean nor ours to blame. *)
Charged(b, clean, failed) == submitted[b] \ (clean \union failed)

(* run_sanitizer_precheck finds some inputs clean and fails to run some.   *)
Screen(clean, failed) ==
    /\ phase = "screen"
    /\ \A b \in Breakers :
         /\ clean[b] \union failed[b] \subseteq submitted[b] \ Oversize
         /\ clean[b] \intersect failed[b] = {}
    /\ valid' = clean
    /\ infra' = failed
    /\ invalid' = [b \in Breakers |-> Cardinality(Charged(b, clean[b], failed[b]))]
    /\ phase' = "challenge"
    /\ UNCHANGED <<pre, submitted, built, broke, owed, tscore, bscore, rscore>>

(* The sanitizer build fails: no result of it is clean, none infra_error.  *)
ScreenBuildFails ==
    /\ phase = "screen"
    /\ built' = FALSE
    /\ invalid' = [b \in Breakers |-> Cardinality(Charged(b, {}, {}))]
    /\ phase' = "challenge"
    /\ UNCHANGED <<pre, submitted, valid, infra, broke, owed, tscore, bscore, rscore>>

(* Faulty: candidates are run on everything a breaker submitted. *)
RunOn_Submitted(t, b) == IF pre[t] > 0 THEN submitted[b] ELSE {}

(* A candidate without a score is not run.                                 *)
RunOn(t, b) == IF pre[t] > 0 THEN valid[b] ELSE {}

(* compile_and_test of one candidate on each breaker's valid inputs: it    *)
(* reports the ones on which the outputs differ, or none at all if either  *)
(* side does not build.                                                    *)
Challenge(t, diverging) ==
    /\ phase = "challenge"
    /\ \A b \in Breakers : diverging[b] \subseteq RunOn(t, b)
    /\ broke' = [broke EXCEPT ![t] = diverging]
    /\ UNCHANGED <<phase, pre, submitted, screen, owed, tscore, bscore, rscore>>

ChallengeDone ==
    /\ phase = "challenge"
    /\ phase' = "bounty"
    /\ UNCHANGED <<pre, submitted, screen, broke, owed, tscore, bscore, rscore>>

(* breaker_hits: who broke t.                                              *)
HitsOn(t) == {b \in Breakers : broke[t][b] # {}}

(* Faulty: the bounty is split by divergences instead of by breakers. *)
Share_PerDivergence(t) ==
    (pre[t] * Parts) \div (2 * Cardinality(UNION {broke[t][b] : b \in HitsOn(t)}))

(* Half of what t forfeits, split evenly.                                  *)
Share(t) == (pre[t] * Parts) \div (2 * Cardinality(HitsOn(t)))

Broken == {t \in Translators : pre[t] > 0 /\ HitsOn(t) # {}}

(* Faulty: a broken translator keeps the half that is not paid out. *)
Kept_Half(t) == IF t \in Broken THEN pre[t] \div 2 ELSE pre[t]

Kept(t) == IF t \in Broken THEN 0 ELSE pre[t]

Shares == [t \in Broken |-> Share(t)]

Bounties ==
    /\ phase = "bounty"
    /\ tscore' = [t \in Translators |-> Kept(t)]
    /\ owed' = [b \in Breakers |-> SumFunctionOnSet(Shares, {t \in Broken : b \in HitsOn(t)})]
    /\ phase' = "penalty"
    /\ UNCHANGED <<pre, submitted, screen, broke, bscore, rscore>>

(* Faulty: no floor at zero. *)
Net_NoFloor(b) == owed[b] - invalid[b] * Penalty * Parts

(* What is left of a breaker's bounties after its invalid inputs, in parts.*)
Net(b) ==
    LET net == owed[b] - invalid[b] * Penalty * Parts
    IN  IF net > 0 THEN net ELSE 0

Penalties(up) ==
    /\ phase = "penalty"
    /\ bscore' = [b \in Breakers |-> Rounded(Net(b), Parts, up[b])]
    /\ phase' = "aggregate"
    /\ UNCHANGED <<pre, submitted, screen, broke, owed, tscore, rscore>>

(* A miner that plays both roles gets the sum.                             *)
Aggregate ==
    /\ phase = "aggregate"
    /\ rscore' = [h \in Hotkeys |->
                    (IF h \in Translators THEN tscore[h] ELSE 0)
                    + (IF h \in Breakers THEN bscore[h] ELSE 0)]
    /\ phase' = "done"
    /\ UNCHANGED <<pre, submitted, screen, broke, owed, tscore, bscore>>

Next ==
    \/ \E clean, failed \in [Breakers -> SUBSET (Inputs \ Oversize)] : Screen(clean, failed)
    \/ ScreenBuildFails
    \/ \E t \in Translators, diverging \in [Breakers -> SUBSET (Inputs \ Oversize)] :
          Challenge(t, diverging)
    \/ ChallengeDone
    \/ Bounties
    \/ \E up \in [Breakers -> BOOLEAN] : Penalties(up)
    \/ Aggregate

Spec == Init /\ [][Next]_vars

-----------------------------------------------------------------------------
(* Properties.                                                             *)

(* "The 50% Anti-Collusion Breaker Bounty rule": the bounties of a round   *)
(* are exactly half of what the broken translators forfeit, however many   *)
(* breakers broke them and with however many inputs.                       *)
BountiesAreHalf ==
    phase \in {"penalty", "aggregate", "done"} =>
        2 * SumFunction(owed) = Parts * SumFunctionOnSet(pre, Broken)

(* Why the rule is there: any group of miners, whatever roles they play,   *)
(* ends a round with no more than its unbroken translators' scores and     *)
(* half of the scores it took part in breaking. So a translator and        *)
(* breakers of one owner never gain by breaking each other (the last term  *)
(* is the rounding, half a unit per breaker).                              *)
CollusionNeverPays ==
    phase = "done" =>
        \A group \in SUBSET Hotkeys :
            2 * SumFunctionOnSet(rscore, group) <=
                2 * SumFunctionOnSet(pre, (group \intersect Translators) \ Broken)
                + SumFunctionOnSet(pre, {t \in Broken : HitsOn(t) \intersect group # {}})
                + Cardinality(group \intersect Breakers)

(* "Sanitizer-verified validity": a breaker is paid only if an input of    *)
(* its own that the sanitizer found clean broke some candidate.            *)
PaidForCleanInputs ==
    phase = "done" =>
        \A b \in Breakers :
            bscore[b] > 0 => \E t \in Broken : broke[t][b] \intersect valid[b] # {}

(* "our harness failed, not the breaker: neither credit nor penalty": a    *)
(* breaker whose inputs cost it nothing gets its bounties in full,         *)
(* whatever we failed to screen; and if the sanitizer build itself fails,  *)
(* which charges every breaker for everything, the round still takes       *)
(* nothing from anyone, also from a miner that plays both roles.           *)
NotOurFault ==
    phase = "done" =>
        /\ \A b \in Breakers :
             submitted[b] = valid[b] \union infra[b] =>
                2 * bscore[b] * Parts + Parts >= 2 * owed[b]
        /\ ~ built => \A h \in Hotkeys :
                         rscore[h] = IF h \in Translators THEN pre[h] ELSE 0

=============================================================================
