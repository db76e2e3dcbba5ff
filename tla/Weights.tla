------------------------------ MODULE Weights ------------------------------
(***************************************************************************)
(* update_ema_weights of neurons/scoring.py and the state the validator    *)
(* keeps for it across rounds (Validator.ema_scores): the moving average   *)
(* of each miner's round scores and the weights normalised from it.        *)
(* Averages and weights are counted in units of the last digit kept.       *)
(***************************************************************************)
EXTENDS Rounding, FiniteSets, Functions

CONSTANTS
    Neurons,    \* hotkeys of the miners
    Scores,     \* round scores a miner can get
    MaxScore    \* the largest of them

ASSUME RoundScoresAssumption == MaxScore \in Nat /\ Scores \subseteq 0 .. MaxScore
ASSUME NeuronsAssumption == IsFiniteSet(Neurons)

VARIABLES
    ema,       \* ema_scores; a miner that is not in the dict has 0.0
    scored,    \* the scores of the last round, of the miners in it
    weights    \* the weights of the last round

emaVars == <<ema, scored, weights>>

Nobody == [h \in {} |-> 0]   \* the empty dict

EmaInit ==
    /\ ema = [h \in Neurons |-> 0]
    /\ scored = Nobody
    /\ weights = Nobody

(* Faulty: weighs the new score with 1 instead of alpha. *)
Averaged_FullScore(was, score, up) == Rounded(9 * was + 10 * score, 10, up)

(* round((1 - alpha) * prev + alpha * score, 6) with alpha = 0.1           *)
Averaged(was, score, up) == Rounded(9 * was + score, 10, up)

(* Faulty: divides by the sum over every miner ever seen. *)
WeightsOf_AllTime(average, miners, up) ==
    LET total == SumFunctionOnSet(average, Neurons)
    IN  [h \in miners |->
           IF total > 0 THEN Rounded(Scale * average[h], total, up[h]) ELSE 0]

(* Each average over the sum of the round's, rounded one by one.           *)
WeightsOf(average, miners, up) ==
    LET total == SumFunctionOnSet(average, miners)
    IN  [h \in miners |->
           IF total > 0 THEN Rounded(Scale * average[h], total, up[h]) ELSE 0]

(* Faulty: normalises the scores of the round instead of the averages. *)
Round_ScoreWeights(miners, score, up) ==
    /\ ema' = [h \in Neurons |-> IF h \in miners
                                 THEN Averaged(ema[h], score[h], up[h])
                                 ELSE ema[h]]
    /\ scored' = score
    /\ weights' = WeightsOf(score, miners, up)

(* One round: its miners are the ones whose axons were queried.            *)
Round(miners, score, up) ==
    /\ ema' = [h \in Neurons |-> IF h \in miners
                                 THEN Averaged(ema[h], score[h], up[h])
                                 ELSE ema[h]]
    /\ scored' = score
    /\ weights' = WeightsOf(ema', miners, up)

(* The averages live in the validator's memory only.                       *)
Restart ==
    /\ ema' = [h \in Neurons |-> 0]
    /\ scored' = Nobody
    /\ weights' = Nobody

SomeRound ==
    \E miners \in SUBSET Neurons :
        \E score \in [miners -> Scores], up \in [Neurons -> BOOLEAN] :
            Round(miners, score, up)

EmaNext == SomeRound \/ Restart

EmaSpec == EmaInit /\ [][EmaNext]_emaVars

(* Validator.run starts round after round.                                 *)
EmaFairSpec == EmaSpec /\ WF_emaVars(SomeRound)

-----------------------------------------------------------------------------
(* Properties.                                                             *)

(* A round moves a miner's average towards its score and never past it; a  *)
(* miner that was not in the round keeps its average.                      *)
NoOvershoot ==
    [][\A h \in Neurons :
         \/ scored' = Nobody
         \/ h \notin DOMAIN scored' /\ ema'[h] = ema[h]
         \/ /\ h \in DOMAIN scored'
            /\ \/ ema[h] <= ema'[h] /\ ema'[h] <= scored'[h]
               \/ scored'[h] <= ema'[h] /\ ema'[h] <= ema[h]]_emaVars

(* The weights of a round add up to 1.0 but for the rounding of each, or   *)
(* are all 0.0: normalisation is over the miners of the round.             *)
WeightsAddUp ==
    LET sum == SumFunction(weights)
        off == IF sum > Scale THEN sum - Scale ELSE Scale - sum
    IN  \/ \A h \in DOMAIN weights : weights[h] = 0 /\ ema[h] = 0
        \/ 2 * off <= Cardinality(DOMAIN weights)

(* A better average never gets a smaller weight, whatever the rounding.    *)
WeightsInOrder ==
    \A g, h \in DOMAIN weights : ema[g] > ema[h] => weights[g] >= weights[h]

(* A miner that goes on scoring nothing loses its average down to the      *)
(* point, 5 units of the last digit, where rounding holds it.              *)
Forgets ==
    \A h \in Neurons :
        <>[](h \in DOMAIN scored /\ scored[h] = 0) => <>[](ema[h] <= 5)

=============================================================================
