--------------------------- MODULE ScoringProofs ---------------------------
(***************************************************************************)
(* Proofs about neurons/scoring.py: the moving averages and the weights of *)
(* update_ema_weights (module Weights) and the split of bounties of        *)
(* score_round (module Scoring), for any miners, inputs, scores and scale. *)
(***************************************************************************)
EXTENDS Weights, Scoring, FoldProofs

(* A rounded quotient is off by half at most.                              *)
LEMMA RoundedBounds ==
    ASSUME NEW num \in Nat, NEW den \in Nat \ {0}, NEW up \in BOOLEAN
    PROVE  /\ Rounded(num, den, up) \in Nat
           /\ 2 * den * Rounded(num, den, up) <= 2 * num + den
           /\ 2 * num <= 2 * den * Rounded(num, den, up) + den
<1> DEFINE q == num \div den
           m == num % den
           r == Rounded(num, den, up)
<1>1. q \in Nat /\ m \in 0 .. (den - 1) /\ num = den * q + m
  OBVIOUS
<1>2. r = IF 2 * m > den \/ (2 * m = den /\ up) THEN q + 1 ELSE q
  BY DEF Rounded
<1> HIDE DEF q, m, r
<1>3. CASE r = q /\ 2 * m <= den
  <2>1. 2 * den * r = 2 * (den * q)
    BY <1>1, <1>3
  <2>2. den * q \in Nat
    BY <1>1
  <2>. QED
    BY <1>1, <1>3, <2>1, <2>2 DEF r
<1>4. CASE r = q + 1 /\ 2 * m >= den
  <2>1. 2 * den * r = 2 * (den * q) + 2 * den
    BY <1>1, <1>4
  <2>2. den * q \in Nat
    BY <1>1
  <2>. QED
    BY <1>1, <1>4, <2>1, <2>2 DEF r
<1>. QED
  BY <1>1, <1>2, <1>3, <1>4

(* Rounding to a tenth never leaves the interval the exact value lies in.  *)
LEMMA RoundedTenth ==
    ASSUME NEW num \in Nat, NEW up \in BOOLEAN
    PROVE  /\ Rounded(num, 10, up) \in Nat
           /\ 10 * Rounded(num, 10, up) <= num + 5
           /\ num <= 10 * Rounded(num, 10, up) + 5
  BY DEF Rounded

(* One average lies between the one before and the score.                  *)
LEMMA AveragedBetween ==
    ASSUME NEW was \in Nat, NEW score \in Nat, NEW up \in BOOLEAN
    PROVE  /\ Averaged(was, score, up) \in Nat
           /\ \/ was <= Averaged(was, score, up) /\ Averaged(was, score, up) <= score
              \/ score <= Averaged(was, score, up) /\ Averaged(was, score, up) <= was
<1> DEFINE now == Averaged(was, score, up)
<1>1. 9 * was + score \in Nat
  OBVIOUS
<1>2. /\ now \in Nat
      /\ 10 * now <= 9 * was + score + 5
      /\ 9 * was + score <= 10 * now + 5
  BY <1>1, RoundedTenth DEF Averaged
<1> HIDE DEF now
<1>3. \/ was <= now /\ now <= score
      \/ score <= now /\ now <= was
  BY <1>2
<1>. QED
  BY <1>2, <1>3 DEF now

(* Above 5 units, the average of a miner that scores nothing falls.        *)
LEMMA AveragedFalls ==
    ASSUME NEW was \in Nat, NEW up \in BOOLEAN, was > 5
    PROVE  Averaged(was, 0, up) < was
<1>1. 9 * was + 0 \in Nat
  OBVIOUS
<1>2. 10 * Averaged(was, 0, up) <= 9 * was + 0 + 5
  BY <1>1, RoundedTenth DEF Averaged
<1>3. Averaged(was, 0, up) \in Nat
  BY <1>1, RoundedTenth DEF Averaged
<1>. QED
  BY <1>2, <1>3

-----------------------------------------------------------------------------

EmaInv == ema \in [Neurons -> 0 .. MaxScore]

LEMMA RoundKeepsEma ==
    ASSUME EmaInv, NEW miners \in SUBSET Neurons, NEW score \in [miners -> Scores],
           NEW up \in [Neurons -> BOOLEAN], Round(miners, score, up)
    PROVE  /\ EmaInv'
           /\ \A h \in Neurons :
                \/ h \notin miners /\ ema'[h] = ema[h]
                \/ /\ h \in miners
                   /\ \/ ema[h] <= ema'[h] /\ ema'[h] <= score[h]
                      \/ score[h] <= ema'[h] /\ ema'[h] <= ema[h]
<1>1. ASSUME NEW h \in Neurons
      PROVE  /\ ema'[h] \in 0 .. MaxScore
             /\ \/ h \notin miners /\ ema'[h] = ema[h]
                \/ /\ h \in miners
                   /\ \/ ema[h] <= ema'[h] /\ ema'[h] <= score[h]
                      \/ score[h] <= ema'[h] /\ ema'[h] <= ema[h]
  <2>1. ema[h] \in 0 .. MaxScore /\ up[h] \in BOOLEAN
    BY DEF EmaInv
  <2>2. CASE h \notin miners
    BY <2>1, <2>2 DEF Round
  <2>3. CASE h \in miners
    <3>1. score[h] \in 0 .. MaxScore
      BY <2>3, RoundScoresAssumption
    <3>2. ema[h] \in Nat /\ score[h] \in Nat
      BY <2>1, <3>1, RoundScoresAssumption
    <3>3. ema'[h] = Averaged(ema[h], score[h], up[h])
      BY <2>3 DEF Round
    <3>4. /\ ema'[h] \in Nat
          /\ \/ ema[h] <= ema'[h] /\ ema'[h] <= score[h]
             \/ score[h] <= ema'[h] /\ ema'[h] <= ema[h]
      BY <2>1, <3>2, <3>3, AveragedBetween
    <3>. QED
      BY <2>1, <2>3, <3>1, <3>4, RoundScoresAssumption
  <2>. QED
    BY <2>2, <2>3
<1>2. ema' = [h \in Neurons |-> ema'[h]]
  BY DEF Round
<1>. QED
  BY <1>1, <1>2 DEF EmaInv

LEMMA EmaInvariance == EmaSpec => []EmaInv
<1>1. EmaInit => EmaInv
  BY RoundScoresAssumption DEF EmaInit, EmaInv
<1>2. EmaInv /\ [EmaNext]_emaVars => EmaInv'
  <2> SUFFICES ASSUME EmaInv, [EmaNext]_emaVars PROVE EmaInv'
    OBVIOUS
  <2>1. CASE SomeRound
    BY <2>1, RoundKeepsEma DEF SomeRound
  <2>2. CASE Restart
    BY <2>2, RoundScoresAssumption DEF Restart, EmaInv
  <2>3. CASE UNCHANGED emaVars
    BY <2>3 DEF emaVars, EmaInv
  <2>. QED
    BY <2>1, <2>2, <2>3 DEF EmaNext
<1>. QED
  BY <1>1, <1>2, PTL DEF EmaSpec

(* Whatever scores the rounds give, whoever is absent and however ties are *)
(* rounded, a round moves each of its miners' averages towards the score   *)
(* it gave, never past it, and touches no other average.                   *)
THEOREM EmaNeverOvershoots == EmaSpec => NoOvershoot
<1> DEFINE Moves ==
      \A h \in Neurons :
         \/ scored' = Nobody
         \/ h \notin DOMAIN scored' /\ ema'[h] = ema[h]
         \/ /\ h \in DOMAIN scored'
            /\ \/ ema[h] <= ema'[h] /\ ema'[h] <= scored'[h]
               \/ scored'[h] <= ema'[h] /\ ema'[h] <= ema[h]
<1>1. EmaInv /\ [EmaNext]_emaVars => [Moves]_emaVars
  <2> SUFFICES ASSUME EmaInv, EmaNext PROVE Moves
    OBVIOUS
  <2>1. CASE SomeRound
    <3>1. PICK miners \in SUBSET Neurons :
            \E score \in [miners -> Scores], up \in [Neurons -> BOOLEAN] :
              Round(miners, score, up)
      BY <2>1 DEF SomeRound
    <3>2. PICK score \in [miners -> Scores], up \in [Neurons -> BOOLEAN] :
            Round(miners, score, up)
      BY <3>1
    <3>3. scored' = score /\ DOMAIN scored' = miners
      BY <3>2 DEF Round
    <3>. QED
      BY <3>2, <3>3, RoundKeepsEma
  <2>2. CASE Restart
    BY <2>2 DEF Restart
  <2>. QED
    BY <2>1, <2>2 DEF EmaNext
<1>. QED
  BY <1>1, EmaInvariance, PTL DEF EmaSpec, NoOvershoot

-----------------------------------------------------------------------------
(* The weights are those of the averages, for some miners and ties.        *)
WeightsInv ==
    /\ EmaInv
    /\ \E miners \in SUBSET Neurons, up \in [Neurons -> BOOLEAN] :
         weights = WeightsOf(ema, miners, up)

LEMMA WeightsInvariance == EmaSpec => []WeightsInv
<1>1. EmaInit => WeightsInv
  <2> SUFFICES ASSUME EmaInit PROVE WeightsInv
    OBVIOUS
  <2>1. EmaInv
    BY RoundScoresAssumption DEF EmaInit, EmaInv
  <2>2. weights = WeightsOf(ema, {}, [h \in Neurons |-> TRUE])
    BY DEF EmaInit, Nobody, WeightsOf
  <2>. QED
    BY <2>1, <2>2 DEF WeightsInv
<1>2. WeightsInv /\ [EmaNext]_emaVars => WeightsInv'
  <2> SUFFICES ASSUME WeightsInv, [EmaNext]_emaVars PROVE WeightsInv'
    OBVIOUS
  <2>1. EmaInv
    BY DEF WeightsInv
  <2>2. CASE SomeRound
    <3>1. PICK miners \in SUBSET Neurons :
            \E score \in [miners -> Scores], up \in [Neurons -> BOOLEAN] :
              Round(miners, score, up)
      BY <2>2 DEF SomeRound
    <3>2. PICK score \in [miners -> Scores], up \in [Neurons -> BOOLEAN] :
            Round(miners, score, up)
      BY <3>1
    <3>3. EmaInv'
      BY <2>1, <3>2, RoundKeepsEma
    <3>4. weights' = WeightsOf(ema', miners, up)
      BY <3>2 DEF Round
    <3>. QED
      BY <3>3, <3>4 DEF WeightsInv, WeightsOf
  <2>3. CASE Restart
    <3>1. EmaInv'
      BY <2>3, RoundScoresAssumption DEF Restart, EmaInv
    <3> DEFINE ties == [h \in Neurons |-> TRUE]
    <3>2. weights' = WeightsOf(ema', {}, ties)
      BY <2>3 DEF Restart, Nobody, WeightsOf
    <3>3. {} \in SUBSET Neurons /\ ties \in [Neurons -> BOOLEAN]
      OBVIOUS
    <3> HIDE DEF ties
    <3>. QED
      BY <3>1, <3>2, <3>3 DEF WeightsInv, WeightsOf
  <2>4. CASE UNCHANGED emaVars
    BY <2>4 DEF emaVars, WeightsInv, EmaInv, WeightsOf
  <2>. QED
    BY <2>2, <2>3, <2>4 DEF EmaNext
<1>. QED
  BY <1>1, <1>2, PTL DEF EmaSpec

(* What normalisation does to a round's averages.                          *)
LEMMA WeightsOfBounds ==
    ASSUME NEW average \in [Neurons -> Nat], NEW miners \in SUBSET Neurons,
           NEW up \in [Neurons -> BOOLEAN]
    PROVE  LET total == SumFunctionOnSet(average, miners)
               w     == WeightsOf(average, miners, up)
           IN  /\ total \in Nat
               /\ DOMAIN w = miners
               /\ total = 0 => \A h \in miners : average[h] = 0 /\ w[h] = 0
               /\ total # 0 => \A h \in miners :
                    /\ w[h] \in Nat
                    /\ 2 * total * w[h] <= 2 * (Scale * average[h]) + total
                    /\ 2 * (Scale * average[h]) <= 2 * total * w[h] + total
<1> DEFINE total == SumFunctionOnSet(average, miners)
           w     == WeightsOf(average, miners, up)
<1>1. IsFiniteSet(miners)
  BY NeuronsAssumption, FS_Subset
<1>2. total \in Nat /\ \A h \in miners : average[h] <= total
  BY <1>1, SumNat
<1>3. /\ DOMAIN w = miners
      /\ \A h \in miners :
           w[h] = IF total > 0 THEN Rounded(Scale * average[h], total, up[h]) ELSE 0
  BY DEF WeightsOf
<1> HIDE DEF total, w
<1>4. ASSUME total = 0, NEW h \in miners PROVE average[h] = 0 /\ w[h] = 0
  BY <1>2, <1>3, <1>4
<1>5. ASSUME total # 0, NEW h \in miners
      PROVE  /\ w[h] \in Nat
             /\ 2 * total * w[h] <= 2 * (Scale * average[h]) + total
             /\ 2 * (Scale * average[h]) <= 2 * total * w[h] + total
  <2>1. Scale * average[h] \in Nat /\ total \in Nat \ {0} /\ up[h] \in BOOLEAN
    BY <1>2, <1>5, ScaleAssumption
  <2>2. w[h] = Rounded(Scale * average[h], total, up[h])
    BY <1>3, <2>1
  <2>. QED
    BY <2>1, <2>2, RoundedBounds
<1>. QED
  BY <1>2, <1>3, <1>4, <1>5 DEF total, w

(* However scores, absences and ties fall, a round never turns the order   *)
(* of two averages around in the weights it submits.                       *)
THEOREM WeightsFollowAverages == EmaSpec => []WeightsInOrder
<1>1. WeightsInv => WeightsInOrder
  <2> SUFFICES ASSUME WeightsInv, NEW g \in DOMAIN weights, NEW h \in DOMAIN weights,
                      ema[g] > ema[h]
               PROVE  weights[g] >= weights[h]
    BY DEF WeightsInOrder
  <2>1. PICK miners \in SUBSET Neurons, up \in [Neurons -> BOOLEAN] :
          weights = WeightsOf(ema, miners, up)
    BY DEF WeightsInv
  <2>2. ema \in [Neurons -> Nat]
    BY RoundScoresAssumption DEF WeightsInv, EmaInv
  <2> DEFINE total == SumFunctionOnSet(ema, miners)
  <2>3. /\ total \in Nat
        /\ DOMAIN weights = miners
        /\ total = 0 => \A i \in miners : ema[i] = 0 /\ weights[i] = 0
        /\ total # 0 => \A i \in miners :
             /\ weights[i] \in Nat
             /\ 2 * total * weights[i] <= 2 * (Scale * ema[i]) + total
             /\ 2 * (Scale * ema[i]) <= 2 * total * weights[i] + total
    BY <2>1, <2>2, WeightsOfBounds
  <2> HIDE DEF total
  <2>4. g \in miners /\ h \in miners /\ ema[g] \in Nat /\ ema[h] \in Nat
    BY <2>2, <2>3
  <2>5. total # 0
    BY <2>3, <2>4
  <2>6. Scale * ema[g] \in Nat /\ Scale * ema[h] \in Nat /\ Scale * ema[h] < Scale * ema[g]
    BY <2>4, ScaleAssumption
  <2>7. /\ weights[g] \in Nat /\ weights[h] \in Nat
        /\ 2 * total * weights[h] < 2 * total * (weights[g] + 1)
    BY <2>3, <2>4, <2>5, <2>6
  <2>. QED
    BY <2>3, <2>5, <2>7
<1>. QED
  BY <1>1, WeightsInvariance, PTL

(* The weights of a round add up to 1.0, but for half a unit per miner, or *)
(* nobody in it has an average and all of them are 0.0.                    *)
THEOREM WeightsNormalised == EmaSpec => []WeightsAddUp
<1>1. WeightsInv => WeightsAddUp
  <2> SUFFICES ASSUME WeightsInv PROVE WeightsAddUp
    OBVIOUS
  <2>1. PICK miners \in SUBSET Neurons, up \in [Neurons -> BOOLEAN] :
          weights = WeightsOf(ema, miners, up)
    BY DEF WeightsInv
  <2>2. ema \in [Neurons -> Nat] /\ IsFiniteSet(miners)
    BY RoundScoresAssumption, NeuronsAssumption, FS_Subset DEF WeightsInv, EmaInv
  <2> DEFINE total == SumFunctionOnSet(ema, miners)
             sum   == SumFunctionOnSet(weights, miners)
             n     == Cardinality(miners)
  <2>3. /\ total \in Nat
        /\ DOMAIN weights = miners
        /\ total = 0 => \A i \in miners : ema[i] = 0 /\ weights[i] = 0
        /\ total # 0 => \A i \in miners :
             /\ weights[i] \in Nat
             /\ 2 * total * weights[i] <= 2 * (Scale * ema[i]) + total
             /\ 2 * (Scale * ema[i]) <= 2 * total * weights[i] + total
    BY <2>1, <2>2, WeightsOfBounds
  <2>4. CASE total = 0
    BY <2>3, <2>4 DEF WeightsAddUp
  <2>5. CASE total # 0
    <3> DEFINE half   == [i \in miners |-> total]
               exact  == [i \in miners |-> (2 * Scale) * ema[i]]
               actual == [i \in miners |-> (2 * total) * weights[i]]
               over   == [i \in miners |-> total + (2 * Scale) * ema[i]]
               above  == [i \in miners |-> total + (2 * total) * weights[i]]
    <3>1. /\ sum \in Nat /\ n \in Nat
          /\ SumFunctionOnSet(half, miners) = n * total
      <4>1. sum \in Nat
        BY <2>2, <2>3, <2>5, SumNat
      <4>2. n \in Nat
        BY <2>2, FS_CardinalityType
      <4>3. SumFunctionOnSet(half, miners) = n * total
        BY <2>2, <2>3, SumConst
      <4>. QED
        BY <4>1, <4>2, <4>3
    <3>2. SumFunctionOnSet(exact, miners) = (2 * Scale) * total
      BY <2>2, ScaleAssumption, SumTimes
    <3>3. SumFunctionOnSet(actual, miners) = (2 * total) * sum
      BY <2>2, <2>3, <2>5, SumTimes
    <3>4. SumFunctionOnSet(over, miners) = n * total + (2 * Scale) * total
      BY <2>2, <2>3, <3>1, ScaleAssumption, SumLinear
    <3>5. SumFunctionOnSet(above, miners) = n * total + (2 * total) * sum
      BY <2>2, <2>3, <2>5, <3>1, SumLinear
    <3>6. SumFunctionOnSet(actual, miners) <= SumFunctionOnSet(over, miners)
      BY <2>2, <2>3, <2>5, ScaleAssumption, SumLeq
    <3>7. SumFunctionOnSet(exact, miners) <= SumFunctionOnSet(above, miners)
      BY <2>2, <2>3, <2>5, ScaleAssumption, SumLeq
    <3>8. /\ (2 * total) * sum <= n * total + (2 * Scale) * total
          /\ (2 * Scale) * total <= n * total + (2 * total) * sum
      <4> HIDE DEF total, sum, n, half, exact, actual, over, above
      <4>. QED
        BY <2>3, <3>1, <3>2, <3>3, <3>4, <3>5, <3>6, <3>7, ScaleAssumption
    <3> HIDE DEF total, sum, n
    <3>9. 2 * sum <= n + 2 * Scale /\ 2 * Scale <= n + 2 * sum
      BY <2>3, <2>5, <3>1, <3>8, ScaleAssumption
    <3>10. SumFunction(weights) = sum /\ Cardinality(DOMAIN weights) = n
      BY <2>3 DEF SumFunction, sum, n
    <3>. QED
      BY <3>1, <3>9, <3>10, ScaleAssumption DEF WeightsAddUp
  <2>. QED
    BY <2>4, <2>5
<1>. QED
  BY <1>1, WeightsInvariance, PTL

-----------------------------------------------------------------------------
(* The rest is about Scoring.  One invariant per step of score_round says  *)
(* what the steps before it have left behind.                              *)

TypeInv ==
    /\ phase \in {"screen", "challenge", "bounty", "penalty", "aggregate", "done"}
    /\ pre \in [Translators -> Nat]
    /\ submitted \in [Breakers -> SUBSET Inputs]
    /\ valid \in [Breakers -> SUBSET Inputs]
    /\ infra \in [Breakers -> SUBSET Inputs]
    /\ built \in BOOLEAN
    /\ broke \in [Translators -> [Breakers -> SUBSET Inputs]]

(* Until the screening nothing is valid; after it a breaker is charged for *)
(* what is neither clean nor ours, and nothing is clean without a build.   *)
ScreenInv ==
    /\ phase = "screen" => built
    /\ phase = "screen" \/ ~ built => \A b \in Breakers : valid[b] = {} /\ infra[b] = {}
    /\ phase # "screen" => \A b \in Breakers :
         invalid[b] = Cardinality(Charged(b, valid[b], infra[b]))

(* Candidates diverge on inputs they were run on.                          *)
ChallengeInv ==
    \A t \in Translators, b \in Breakers : broke[t][b] \subseteq RunOn(t, b)

BountyInv ==
    phase \in {"penalty", "aggregate", "done"} =>
        /\ tscore = [t \in Translators |-> Kept(t)]
        /\ owed = [b \in Breakers |->
                     SumFunctionOnSet(Shares, {t \in Broken : b \in HitsOn(t)})]

PenaltyInv ==
    phase \in {"aggregate", "done"} =>
        \A b \in Breakers : \E up \in BOOLEAN : bscore[b] = Rounded(Net(b), Parts, up)

AggregateInv ==
    phase = "done" =>
        rscore = [h \in Hotkeys |-> (IF h \in Translators THEN tscore[h] ELSE 0)
                                    + (IF h \in Breakers THEN bscore[h] ELSE 0)]

ScoringInv ==
    /\ TypeInv
    /\ ScreenInv
    /\ ChallengeInv
    /\ BountyInv
    /\ PenaltyInv
    /\ AggregateInv

(* A score is never negative.                                              *)
LEMMA PreScoresNat == PreScores \subseteq Nat
<1> SUFFICES ASSUME NEW run \in (0 .. HiddenTests) \X (0 .. HiddenTests),
                    NEW compiled \in BOOLEAN, NEW gated \in BOOLEAN, NEW up \in BOOLEAN
             PROVE  PreScore(run[1], run[2], compiled, gated, up) \in Nat
  BY DEF PreScores
<1>1. run[1] \in Nat /\ run[2] \in Nat
  BY ScoresAssumption
<1>2. CASE ~ compiled \/ ~ gated \/ run[2] = 0
  BY <1>2 DEF PreScore
<1>3. CASE ~ (~ compiled \/ ~ gated \/ run[2] = 0)
  <2> DEFINE num == Scale * run[1] * run[1] * run[1]
             den == run[2] * run[2] * run[2]
  <2>1. num \in Nat /\ den \in Nat \ {0}
    <3>1. run[1] * run[1] \in Nat /\ run[2] * run[2] \in Nat \ {0}
      BY <1>1, <1>3
    <3>2. run[1] * run[1] * run[1] \in Nat
      BY <1>1, <3>1
    <3>. QED
      BY <1>1, <1>3, <3>1, <3>2, ScaleAssumption
  <2>2. PreScore(run[1], run[2], compiled, gated, up) = Rounded(num, den, up)
    BY <1>3 DEF PreScore
  <2> HIDE DEF num, den
  <2>. QED
    BY <2>1, <2>2, RoundedBounds
<1>. QED
  BY <1>2, <1>3

LEMMA ScoringInit == Init => ScoringInv
<1> SUFFICES ASSUME Init PROVE ScoringInv
  OBVIOUS
<1>1. TypeInv
  BY PreScoresNat DEF Init, TypeInv
<1>2. ScreenInv /\ ChallengeInv
  BY DEF Init, ScreenInv, ChallengeInv
<1>3. BountyInv /\ PenaltyInv /\ AggregateInv
  BY DEF Init, BountyInv, PenaltyInv, AggregateInv
<1>. QED
  BY <1>1, <1>2, <1>3 DEF ScoringInv

LEMMA ScreenStep ==
    ASSUME ScoringInv,
           \/ \E clean, failed \in [Breakers -> SUBSET (Inputs \ Oversize)] : Screen(clean, failed)
           \/ ScreenBuildFails
    PROVE  ScoringInv'
<1>1. TypeInv /\ ScreenInv /\ ChallengeInv /\ phase = "screen"
  BY DEF ScoringInv, Screen, ScreenBuildFails
<1>2. \A t \in Translators, b \in Breakers : broke[t][b] = {}
  BY <1>1 DEF TypeInv, ScreenInv, ChallengeInv, RunOn
<1>3. broke' = broke /\ phase' = "challenge"
  BY DEF Screen, ScreenBuildFails
<1>4. ChallengeInv'
  BY <1>2, <1>3 DEF ChallengeInv
<1>5. BountyInv' /\ PenaltyInv' /\ AggregateInv'
  BY <1>3 DEF BountyInv, PenaltyInv, AggregateInv
<1>6. TypeInv' /\ ScreenInv'
  <2>1. CASE ScreenBuildFails
    BY <1>1, <2>1 DEF TypeInv, ScreenInv, ScreenBuildFails, Charged
  <2>2. ASSUME NEW clean \in [Breakers -> SUBSET (Inputs \ Oversize)],
               NEW failed \in [Breakers -> SUBSET (Inputs \ Oversize)], Screen(clean, failed)
        PROVE  TypeInv' /\ ScreenInv'
    BY <1>1, <2>2 DEF TypeInv, ScreenInv, Screen, Charged
  <2>. QED
    BY <2>1, <2>2
<1>. QED
  BY <1>4, <1>5, <1>6 DEF ScoringInv

LEMMA ChallengeStep ==
    ASSUME ScoringInv, NEW t \in Translators,
           NEW diverging \in [Breakers -> SUBSET (Inputs \ Oversize)], Challenge(t, diverging)
    PROVE  ScoringInv'
<1>1. /\ TypeInv /\ ScreenInv /\ ChallengeInv
      /\ phase = "challenge" /\ phase' = "challenge"
      /\ broke' = [broke EXCEPT ![t] = diverging]
      /\ UNCHANGED <<pre, submitted, valid, infra, built, invalid>>
  BY DEF ScoringInv, Challenge, screen
<1>2. TypeInv'
  BY <1>1 DEF TypeInv
<1>3. ScreenInv'
  BY <1>1 DEF ScreenInv, Charged
<1>4. ChallengeInv'
  BY <1>1 DEF TypeInv, ChallengeInv, Challenge, RunOn
<1>5. BountyInv' /\ PenaltyInv' /\ AggregateInv'
  BY <1>1 DEF BountyInv, PenaltyInv, AggregateInv
<1>. QED
  BY <1>2, <1>3, <1>4, <1>5 DEF ScoringInv

LEMMA ChallengeDoneStep == ScoringInv /\ ChallengeDone => ScoringInv'
<1> SUFFICES ASSUME ScoringInv, ChallengeDone PROVE ScoringInv'
  OBVIOUS
<1>1. TypeInv'
  BY DEF ScoringInv, TypeInv, ChallengeDone, screen
<1>2. ScreenInv' /\ ChallengeInv'
  BY DEF ScoringInv, ScreenInv, ChallengeInv, ChallengeDone, screen, Charged, RunOn
<1>3. BountyInv' /\ PenaltyInv' /\ AggregateInv'
  BY DEF BountyInv, PenaltyInv, AggregateInv, ChallengeDone
<1>. QED
  BY <1>1, <1>2, <1>3 DEF ScoringInv

(* What the last three steps leave alone.                                  *)
LEMMA ScoringUndisturbed ==
    ASSUME ScoringInv, phase \notin {"screen"}, phase' \in {"penalty", "aggregate", "done"},
           UNCHANGED <<pre, submitted, screen, broke>>
    PROVE  /\ TypeInv' /\ ScreenInv' /\ ChallengeInv'
           /\ Broken' = Broken /\ Shares' = Shares
           /\ \A t \in Translators : HitsOn(t)' = HitsOn(t) /\ Kept(t)' = Kept(t)
<1>1. TypeInv'
  BY DEF ScoringInv, TypeInv, screen
<1>2. ScreenInv' /\ ChallengeInv'
  BY DEF ScoringInv, ScreenInv, ChallengeInv, screen, Charged, RunOn
<1>3. \A t \in Translators : HitsOn(t)' = HitsOn(t)
  BY DEF HitsOn
<1>4. Broken' = Broken
  BY DEF HitsOn, Broken
<1>5. Shares' = Shares /\ \A t \in Translators : Kept(t)' = Kept(t)
  BY DEF HitsOn, Broken, Shares, Share, Kept
<1>. QED
  BY <1>1, <1>2, <1>3, <1>4, <1>5

LEMMA BountiesStep == ScoringInv /\ Bounties => ScoringInv'
<1> SUFFICES ASSUME ScoringInv, Bounties PROVE ScoringInv'
  OBVIOUS
<1>1. /\ TypeInv' /\ ScreenInv' /\ ChallengeInv'
      /\ Broken' = Broken /\ Shares' = Shares
      /\ \A t \in Translators : HitsOn(t)' = HitsOn(t) /\ Kept(t)' = Kept(t)
  BY ScoringUndisturbed DEF Bounties
<1>2. BountyInv'
  BY <1>1 DEF BountyInv, Bounties, Broken
<1>3. PenaltyInv' /\ AggregateInv'
  BY DEF PenaltyInv, AggregateInv, Bounties
<1>. QED
  BY <1>1, <1>2, <1>3 DEF ScoringInv

LEMMA PenaltiesStep ==
    ASSUME ScoringInv, NEW up \in [Breakers -> BOOLEAN], Penalties(up)
    PROVE  ScoringInv'
<1>1. /\ TypeInv' /\ ScreenInv' /\ ChallengeInv'
      /\ Broken' = Broken /\ Shares' = Shares
      /\ \A t \in Translators : HitsOn(t)' = HitsOn(t) /\ Kept(t)' = Kept(t)
  BY ScoringUndisturbed DEF Penalties
<1>2. BountyInv'
  BY <1>1 DEF ScoringInv, BountyInv, Penalties, Broken
<1>3. PenaltyInv'
  BY DEF PenaltyInv, Penalties, Net, screen
<1>4. AggregateInv'
  BY DEF AggregateInv, Penalties
<1>. QED
  BY <1>1, <1>2, <1>3, <1>4 DEF ScoringInv

LEMMA AggregateStep == ScoringInv /\ Aggregate => ScoringInv'
<1> SUFFICES ASSUME ScoringInv, Aggregate PROVE ScoringInv'
  OBVIOUS
<1>1. /\ TypeInv' /\ ScreenInv' /\ ChallengeInv'
      /\ Broken' = Broken /\ Shares' = Shares
      /\ \A t \in Translators : HitsOn(t)' = HitsOn(t) /\ Kept(t)' = Kept(t)
  BY ScoringUndisturbed DEF Aggregate
<1>2. BountyInv'
  BY <1>1 DEF ScoringInv, BountyInv, Aggregate, Broken
<1>3. PenaltyInv'
  BY DEF ScoringInv, PenaltyInv, Aggregate, Net, screen
<1>4. AggregateInv'
  BY DEF AggregateInv, Aggregate
<1>. QED
  BY <1>1, <1>2, <1>3, <1>4 DEF ScoringInv

LEMMA ScoringInvariance == Spec => []ScoringInv
<1>1. ScoringInv /\ [Next]_vars => ScoringInv'
  <2> SUFFICES ASSUME ScoringInv, [Next]_vars PROVE ScoringInv'
    OBVIOUS
  <2>1. CASE \/ \E clean, failed \in [Breakers -> SUBSET (Inputs \ Oversize)] : Screen(clean, failed)
             \/ ScreenBuildFails
    BY <2>1, ScreenStep
  <2>2. ASSUME NEW t \in Translators,
               NEW diverging \in [Breakers -> SUBSET (Inputs \ Oversize)], Challenge(t, diverging)
        PROVE  ScoringInv'
    BY <2>2, ChallengeStep
  <2>3. CASE ChallengeDone
    BY <2>3, ChallengeDoneStep
  <2>4. CASE Bounties
    BY <2>4, BountiesStep
  <2>5. ASSUME NEW up \in [Breakers -> BOOLEAN], Penalties(up) PROVE ScoringInv'
    BY <2>5, PenaltiesStep
  <2>6. CASE Aggregate
    BY <2>6, AggregateStep
  <2>7. CASE UNCHANGED vars
    <3>1. /\ TypeInv' = TypeInv /\ ScreenInv' = ScreenInv /\ ChallengeInv' = ChallengeInv
      BY <2>7 DEF vars, screen, TypeInv, ScreenInv, Charged, ChallengeInv, RunOn
    <3>2. /\ BountyInv' = BountyInv
      BY <2>7 DEF vars, screen, BountyInv, Kept, Broken, HitsOn, Shares, Share
    <3>3. PenaltyInv' = PenaltyInv /\ AggregateInv' = AggregateInv
      BY <2>7 DEF vars, screen, PenaltyInv, AggregateInv, Net
    <3>. QED
      BY <3>1, <3>2, <3>3 DEF ScoringInv
  <2>. QED
    BY <2>1, <2>2, <2>3, <2>4, <2>5, <2>6, <2>7 DEF Next
<1>. QED
  BY <1>1, ScoringInit, PTL DEF Spec

-----------------------------------------------------------------------------
(* The bounties.                                                           *)

LEMMA ExactQuotient ==
    ASSUME NEW q \in Int, NEW d \in Nat \ {0}
    PROVE  (q * d) \div d = q
<1> DEFINE a == q * d
           r == a \div d
<1>1. a \in Int /\ r \in Int /\ a % d \in 0 .. (d - 1) /\ a = d * r + (a % d)
  OBVIOUS
<1>2. d * (q - r) = a % d
  BY <1>1
<1> HIDE DEF a, r
<1>3. q - r = 0
  <2>1. ~ (q - r >= 1)
    BY <1>1, <1>2
  <2>2. ~ (q - r <= -1)
    BY <1>1, <1>2
  <2>. QED
    BY <1>1, <2>1, <2>2
<1>4. q = r
  BY <1>1, <1>3
<1>. QED
  BY <1>4 DEF r, a

LEMMA HotkeysFinite ==
    /\ IsFiniteSet(Hotkeys)
    /\ \A G \in SUBSET Hotkeys : IsFiniteSet(G) /\ Cardinality(G) \in Nat
<1>1. IsFiniteSet(Hotkeys)
  BY MinersAssumption, FS_Union DEF Hotkeys
<1>. QED
  BY <1>1, FS_Subset, FS_CardinalityType

(* The shares of one broken translator are half of its score, to the part: *)
(* PartsAssumption is what makes it so.                                    *)
LEMMA ShareExact ==
    ASSUME TypeInv, NEW t \in Broken
    PROVE  /\ Share(t) \in Nat
           /\ pre[t] \in Nat
           /\ Cardinality(HitsOn(t)) \in Nat
           /\ 2 * (Cardinality(HitsOn(t)) * Share(t)) = Parts * pre[t]
<1> DEFINE n == Cardinality(HitsOn(t))
           k == Parts \div (2 * n)
<1>1. t \in Translators /\ HitsOn(t) # {} /\ HitsOn(t) \subseteq Breakers /\ pre[t] \in Nat
  BY DEF Broken, HitsOn, TypeInv
<1>2. n \in Nat /\ n # 0 /\ n <= Cardinality(Breakers) /\ Cardinality(Breakers) \in Nat
  <2>1. IsFiniteSet(HitsOn(t)) /\ Cardinality(HitsOn(t)) <= Cardinality(Breakers)
    BY <1>1, MinersAssumption, FS_Subset
  <2>. QED
    BY <1>1, <2>1, MinersAssumption, FS_CardinalityType, FS_EmptySet
<1> HIDE DEF n
<1>3. Parts \in Nat \ {0} /\ Parts % (2 * n) = 0 /\ 2 * n \in Nat \ {0}
  BY <1>2, PartsAssumption
<1>4. k \in Nat /\ Parts = (2 * n) * k
  BY <1>3
<1> HIDE DEF k
<1>5. pre[t] * k \in Nat /\ pre[t] * Parts = (pre[t] * k) * (2 * n)
  BY <1>1, <1>2, <1>4
<1>6. ((pre[t] * k) * (2 * n)) \div (2 * n) = pre[t] * k
  <2> DEFINE q == pre[t] * k
             d == 2 * n
  <2>1. q \in Int /\ d \in Nat \ {0}
    BY <1>3, <1>5
  <2> HIDE DEF q, d
  <2>2. (q * d) \div d = q
    BY <2>1, ExactQuotient
  <2>. QED
    BY <2>2 DEF q, d
<1>7. Share(t) = pre[t] * k
  BY <1>5, <1>6 DEF Share, n
<1>8. 2 * (n * Share(t)) = Parts * pre[t]
  BY <1>1, <1>2, <1>4, <1>7
<1>. QED
  BY <1>1, <1>2, <1>5, <1>7, <1>8 DEF n

(* What a group of breakers is owed is at most half of the scores they     *)
(* took part in breaking, and all of that if it is every breaker: counted  *)
(* by breaker or by translator, the shares have one total.                 *)
LEMMA GroupBounty ==
    ASSUME TypeInv, NEW G \in SUBSET Breakers,
           NEW o, \A b \in G : o[b] = SumFunctionOnSet(Shares, {t \in Broken : b \in HitsOn(t)})
    PROVE  LET hit == {t \in Broken : HitsOn(t) \intersect G # {}}
           IN  /\ SumFunctionOnSet(o, G) \in Nat
               /\ SumFunctionOnSet(pre, hit) \in Nat
               /\ 2 * SumFunctionOnSet(o, G) <= Parts * SumFunctionOnSet(pre, hit)
               /\ G = Breakers => 2 * SumFunctionOnSet(o, G) = Parts * SumFunctionOnSet(pre, Broken)
<1> DEFINE H       == [t \in Broken |-> HitsOn(t) \intersect G]
           hit     == {t \in Broken : HitsOn(t) \intersect G # {}}
           times   == [t \in Broken |-> Cardinality(H[t]) * Shares[t]]
           twice   == [t \in Broken |-> 2 * times[t]]
           forfeit == [t \in Broken |-> IF t \in hit THEN pre[t] ELSE 0]
           most    == [t \in Broken |-> Parts * forfeit[t]]
<1>1. /\ IsFiniteSet(G) /\ IsFiniteSet(Broken) /\ IsFiniteSet(hit)
      /\ hit \subseteq Broken
  BY MinersAssumption, FS_Subset DEF Broken
<1>2. \A t \in Broken : Shares[t] \in Nat /\ pre[t] \in Nat /\ Shares[t] = Share(t)
  BY ShareExact DEF Shares
<1>3. ASSUME NEW t \in Broken
      PROVE  /\ Cardinality(H[t]) \in Nat /\ times[t] \in Nat
             /\ twice[t] \in Nat /\ forfeit[t] \in Nat /\ most[t] \in Nat
             /\ twice[t] <= most[t]
             /\ G = Breakers => t \in hit /\ twice[t] = most[t]
             /\ twice[t] = 2 * times[t] /\ most[t] = Parts * forfeit[t]
             /\ forfeit[t] = IF t \in hit THEN pre[t] ELSE 0
  <2> DEFINE h == Cardinality(H[t])
             n == Cardinality(HitsOn(t))
             s == Shares[t]
  <2>1. H[t] = HitsOn(t) \intersect G /\ HitsOn(t) \subseteq Breakers /\ HitsOn(t) # {}
    BY DEF HitsOn, Broken
  <2>2. h \in Nat /\ n \in Nat /\ h <= n /\ (H[t] = {} <=> h = 0) /\ (G = Breakers => h = n)
    <3>1. IsFiniteSet(HitsOn(t))
      BY <2>1, MinersAssumption, FS_Subset
    <3>2. IsFiniteSet(H[t]) /\ Cardinality(H[t]) <= Cardinality(HitsOn(t))
      BY <2>1, <3>1, FS_Subset
    <3>3. G = Breakers => H[t] = HitsOn(t)
      BY <2>1
    <3>4. H[t] = {} <=> h = 0
      BY <3>2, FS_EmptySet
    <3> HIDE DEF H
    <3>. QED
      BY <3>1, <3>2, <3>3, <3>4, FS_CardinalityType
  <2>3. s \in Nat /\ pre[t] \in Nat /\ 2 * (n * s) = Parts * pre[t]
    BY <1>2, ShareExact
  <2>4. /\ times[t] = h * s /\ twice[t] = 2 * (h * s)
        /\ most[t] = Parts * forfeit[t]
        /\ forfeit[t] = IF h # 0 THEN pre[t] ELSE 0
        /\ t \in hit <=> h # 0
    BY <2>1, <2>2
  <2>5. n # 0
    BY <2>1, MinersAssumption, FS_Subset, FS_EmptySet
  <2> HIDE DEF h, n, s, times, twice, forfeit, most, H, hit
  <2>6. h * s \in Nat /\ n * s \in Nat /\ h * s <= n * s /\ Parts * pre[t] \in Nat
    BY <2>2, <2>3, PartsAssumption
  <2>7. times[t] \in Nat /\ twice[t] \in Nat /\ forfeit[t] \in Nat
    BY <2>3, <2>4, <2>6
  <2>8. CASE h = 0
    <3>1. twice[t] = 0 /\ most[t] = 0
      BY <2>3, <2>4, <2>8, PartsAssumption
    <3>. QED
      BY <2>2, <2>4, <2>5, <2>7, <2>8, <3>1 DEF h
  <2>9. CASE h # 0
    <3>1. most[t] = 2 * (n * s)
      BY <2>3, <2>4, <2>9
    <3>2. twice[t] <= most[t] /\ most[t] \in Nat
      BY <2>4, <2>6, <3>1
    <3>3. G = Breakers => twice[t] = most[t]
      BY <2>2, <2>4, <3>1
    <3>. QED
      BY <2>2, <2>4, <2>7, <2>9, <3>2, <3>3 DEF h
  <2>. QED
    BY <2>8, <2>9
<1>4. SumFunctionOnSet(o, G) = SumFunctionOnSet(times, Broken)
  <2>1. \A t \in Broken : Shares[t] \in Int /\ H[t] \subseteq G /\ times[t] = Cardinality(H[t]) * Shares[t]
    BY <1>2
  <2>2. ASSUME NEW b \in G PROVE o[b] = SumFunctionOnSet(Shares, {t \in Broken : b \in H[t]})
    <3>1. {t \in Broken : b \in H[t]} = {t \in Broken : b \in HitsOn(t)}
      OBVIOUS
    <3>. QED
      BY <3>1
  <2> HIDE DEF H, times
  <2>3. CountedTwice(G, Broken, Shares, H, o, times)
    BY <1>1, <2>1, <2>2 DEF CountedTwice
  <2>. QED
    BY <2>3, SumSwap
<1> HIDE DEF H, hit, times, twice, forfeit, most
<1> DEFINE T == SumFunctionOnSet(times, Broken)
           F == SumFunctionOnSet(forfeit, Broken)
<1>5. T \in Nat /\ F \in Nat
  BY <1>1, <1>3, SumNat
<1>6. SumFunctionOnSet(twice, Broken) = 2 * T
  <2>1. \A t \in Broken : times[t] \in Int /\ twice[t] = 2 * times[t]
    BY <1>3
  <2>. QED
    BY <1>1, <2>1, SumTimes
<1>7. SumFunctionOnSet(most, Broken) = Parts * F
  <2>1. \A t \in Broken : forfeit[t] \in Int /\ most[t] = Parts * forfeit[t]
    BY <1>3
  <2>. QED
    BY <1>1, <2>1, PartsAssumption, SumTimes
<1>8. F = SumFunctionOnSet(pre, hit)
  <2>1. \A t \in Broken : forfeit[t] \in Int /\ (t \notin hit => forfeit[t] = 0)
    BY <1>3
  <2>2. \A t \in hit : pre[t] \in Int /\ forfeit[t] = pre[t]
    BY <1>1, <1>2, <1>3
  <2>3. F = SumFunctionOnSet(forfeit, hit)
    BY <1>1, <2>1, SumZeroOutside
  <2>. QED
    BY <1>1, <2>2, <2>3, SumSame
<1>9. SumFunctionOnSet(twice, Broken) <= SumFunctionOnSet(most, Broken)
  <2>1. \A t \in Broken : twice[t] \in Int /\ most[t] \in Int /\ twice[t] <= most[t]
    BY <1>3
  <2>. QED
    BY <1>1, <2>1, SumLeq
<1>10. ASSUME G = Breakers PROVE 2 * T = Parts * SumFunctionOnSet(pre, Broken)
  <2>1. \A t \in Broken : twice[t] \in Int /\ most[t] = twice[t]
    BY <1>3, <1>10
  <2>2. hit = Broken
    BY <1>1, <1>3, <1>10
  <2>3. SumFunctionOnSet(most, Broken) = SumFunctionOnSet(twice, Broken)
    BY <1>1, <2>1, SumSame
  <2> HIDE DEF T, F
  <2>. QED
    BY <1>6, <1>7, <1>8, <2>2, <2>3
<1> HIDE DEF T, F
<1>11. SumFunctionOnSet(o, G) = T
  BY <1>4 DEF T
<1>. QED
  BY <1>5, <1>6, <1>7, <1>8, <1>9, <1>10, <1>11 DEF hit

(* The bounties of a round are half of what its broken translators forfeit *)
(* for any miners, scores and inputs, and however many breakers share one. *)
THEOREM BountiesSplitHalf == Spec => []BountiesAreHalf
<1>1. ScoringInv => BountiesAreHalf
  <2> SUFFICES ASSUME ScoringInv, phase \in {"penalty", "aggregate", "done"}
               PROVE  2 * SumFunction(owed) = Parts * SumFunctionOnSet(pre, Broken)
    BY DEF BountiesAreHalf
  <2>1. TypeInv /\ owed = [b \in Breakers |->
                     SumFunctionOnSet(Shares, {t \in Broken : b \in HitsOn(t)})]
    BY DEF ScoringInv, BountyInv
  <2>2. SumFunction(owed) = SumFunctionOnSet(owed, Breakers)
    BY <2>1 DEF SumFunction
  <2>3. \A b \in Breakers : owed[b] = SumFunctionOnSet(Shares, {t \in Broken : b \in HitsOn(t)})
    BY <2>1
  <2>. QED
    BY <2>1, <2>2, <2>3, GroupBounty
<1>. QED
  BY <1>1, ScoringInvariance, PTL

(* What a breaker ends with: its bounties less its penalty, rounded.       *)
LEMMA BreakerScore ==
    ASSUME ScoringInv, phase \in {"aggregate", "done"}, NEW b \in Breakers
    PROVE  /\ owed[b] \in Nat
           /\ Net(b) \in Nat /\ Net(b) <= owed[b]
           /\ invalid[b] = 0 => Net(b) = owed[b]
           /\ bscore[b] \in Nat
           /\ 2 * (Parts * bscore[b]) <= 2 * Net(b) + Parts
           /\ 2 * Net(b) <= 2 * (Parts * bscore[b]) + Parts
<1>1. owed[b] \in Nat
  <2> DEFINE mine == {t \in Broken : b \in HitsOn(t)}
  <2>1. owed[b] = SumFunctionOnSet(Shares, mine)
    BY DEF ScoringInv, BountyInv
  <2>2. IsFiniteSet(mine)
    BY MinersAssumption, FS_Subset DEF Broken
  <2>3. \A t \in mine : Shares[t] \in Nat
    BY ShareExact DEF Shares, ScoringInv
  <2> HIDE DEF mine
  <2>. QED
    BY <2>1, <2>2, <2>3, SumNat
<1>2. invalid[b] \in Nat
  <2>1. invalid[b] = Cardinality(Charged(b, valid[b], infra[b]))
    BY DEF ScoringInv, ScreenInv
  <2>2. IsFiniteSet(Charged(b, valid[b], infra[b]))
    BY InputsAssumption, FS_Subset DEF ScoringInv, TypeInv, Charged
  <2>. QED
    BY <2>1, <2>2, FS_CardinalityType
<1>3. invalid[b] * Penalty * Parts \in Nat /\ (invalid[b] = 0 => invalid[b] * Penalty * Parts = 0)
  BY <1>2, ScoresAssumption, PartsAssumption
<1>4. Net(b) \in Nat /\ Net(b) <= owed[b] /\ (invalid[b] = 0 => Net(b) = owed[b])
  BY <1>1, <1>3 DEF Net
<1>5. PICK up \in BOOLEAN : bscore[b] = Rounded(Net(b), Parts, up)
  BY DEF ScoringInv, PenaltyInv
<1>6. /\ bscore[b] \in Nat
      /\ 2 * Parts * bscore[b] <= 2 * Net(b) + Parts
      /\ 2 * Net(b) <= 2 * Parts * bscore[b] + Parts
  BY <1>4, <1>5, PartsAssumption, RoundedBounds
<1>7. 2 * Parts * bscore[b] = 2 * (Parts * bscore[b])
  BY <1>6, PartsAssumption
<1>. QED
  BY <1>1, <1>4, <1>6, <1>7

(* Whatever roles its members play and however they split the work, a      *)
(* group of miners ends a round with at most the scores of its unbroken    *)
(* translators and half of the scores it took part in breaking.            *)
THEOREM NoGroupGains == Spec => []CollusionNeverPays
<1>1. ScoringInv => CollusionNeverPays
  <2> SUFFICES ASSUME ScoringInv, phase = "done", NEW group \in SUBSET Hotkeys
               PROVE  2 * SumFunctionOnSet(rscore, group) <=
                        2 * SumFunctionOnSet(pre, (group \intersect Translators) \ Broken)
                        + SumFunctionOnSet(pre, {t \in Broken : HitsOn(t) \intersect group # {}})
                        + Cardinality(group \intersect Breakers)
    BY DEF CollusionNeverPays
  <2> DEFINE GB    == group \intersect Breakers
             whole == (group \intersect Translators) \ Broken
             hit   == {t \in Broken : HitsOn(t) \intersect GB # {}}
             tpart == [h \in group |-> IF h \in Translators THEN tscore[h] ELSE 0]
             bpart == [h \in group |-> IF h \in Breakers THEN bscore[h] ELSE 0]
             P     == SumFunctionOnSet(bscore, GB)
             O     == SumFunctionOnSet(owed, GB)
             W     == SumFunctionOnSet(pre, whole)
             X     == SumFunctionOnSet(pre, hit)
             n     == Cardinality(GB)
  <2>1. TypeInv /\ IsFiniteSet(group) /\ IsFiniteSet(GB) /\ n \in Nat
    BY HotkeysFinite DEF ScoringInv, Hotkeys
  <2>2. /\ \A t \in Translators : pre[t] \in Nat /\ tscore[t] = IF t \in Broken THEN 0 ELSE pre[t]
        /\ \A b \in Breakers : bscore[b] \in Nat /\ owed[b] \in Nat
                                /\ 2 * (Parts * bscore[b]) <= 2 * owed[b] + Parts
    <3>1. \A t \in Translators : pre[t] \in Nat /\ tscore[t] = IF t \in Broken THEN 0 ELSE pre[t]
      BY <2>1 DEF ScoringInv, TypeInv, BountyInv, Kept
    <3>2. ASSUME NEW b \in Breakers
          PROVE  bscore[b] \in Nat /\ owed[b] \in Nat /\ 2 * (Parts * bscore[b]) <= 2 * owed[b] + Parts
      <4>1. /\ bscore[b] \in Nat /\ owed[b] \in Nat /\ Net(b) \in Nat /\ Net(b) <= owed[b]
            /\ 2 * (Parts * bscore[b]) <= 2 * Net(b) + Parts
        BY BreakerScore
      <4>2. Parts * bscore[b] \in Nat /\ Parts \in Nat
        BY <4>1, PartsAssumption
      <4>. QED
        BY <4>1, <4>2
    <3>. QED
      BY <3>1, <3>2
  <2>3. SumFunctionOnSet(rscore, group) = W + P /\ W \in Nat /\ P \in Nat
    <3>1. \A h \in group : /\ tpart[h] \in Int /\ bpart[h] \in Int
                           /\ rscore[h] = tpart[h] + 1 * bpart[h]
      BY <2>2 DEF ScoringInv, AggregateInv
    <3>2. SumFunctionOnSet(tpart, group) = W
      <4>1. \A h \in group : tpart[h] \in Int /\ (h \notin whole => tpart[h] = 0)
        BY <2>2
      <4>2. \A h \in whole : pre[h] \in Int /\ tpart[h] = pre[h]
        BY <2>2
      <4>3. whole \subseteq group /\ IsFiniteSet(whole)
        BY <2>1, FS_Subset
      <4> HIDE DEF tpart, whole
      <4>4. SumFunctionOnSet(tpart, group) = SumFunctionOnSet(tpart, whole)
        BY <2>1, <4>1, <4>3, SumZeroOutside
      <4>. QED
        BY <4>2, <4>3, <4>4, SumSame
    <3>3. SumFunctionOnSet(bpart, group) = P
      <4>1. \A h \in group : bpart[h] \in Int /\ (h \notin GB => bpart[h] = 0)
        BY <2>2
      <4>2. \A h \in GB : bscore[h] \in Int /\ bpart[h] = bscore[h]
        BY <2>2
      <4>3. GB \subseteq group
        OBVIOUS
      <4> HIDE DEF bpart, GB
      <4>4. SumFunctionOnSet(bpart, group) = SumFunctionOnSet(bpart, GB)
        BY <2>1, <4>1, <4>3, SumZeroOutside
      <4>. QED
        BY <2>1, <4>2, <4>4, SumSame
    <3>4. W \in Nat
      <4>1. IsFiniteSet(whole) /\ \A t \in whole : pre[t] \in Nat
        BY <2>1, <2>2, FS_Subset
      <4> HIDE DEF whole
      <4>. QED
        BY <4>1, SumNat
    <3>5. P \in Nat
      <4>1. \A b \in GB : bscore[b] \in Nat
        BY <2>2
      <4> HIDE DEF GB
      <4>. QED
        BY <2>1, <4>1, SumNat
    <3> HIDE DEF tpart, bpart, W, P
    <3>6. SumFunctionOnSet(rscore, group)
            = SumFunctionOnSet(tpart, group) + 1 * SumFunctionOnSet(bpart, group)
      BY <2>1, <3>1, SumLinear
    <3>. QED
      BY <3>2, <3>3, <3>4, <3>5, <3>6
  <2>4. O \in Nat /\ X \in Nat /\ 2 * O <= Parts * X
    <3>1. \A b \in GB : owed[b] = SumFunctionOnSet(Shares, {t \in Broken : b \in HitsOn(t)})
      BY DEF ScoringInv, BountyInv
    <3>2. GB \in SUBSET Breakers
      OBVIOUS
    <3> HIDE DEF GB
    <3>. QED
      BY <2>1, <3>1, <3>2, GroupBounty
  <2>5. Parts * (2 * P) <= 2 * O + Parts * n
    <3> DEFINE paid == [b \in GB |-> (2 * Parts) * bscore[b]]
               half == [b \in GB |-> Parts]
               most == [b \in GB |-> Parts + 2 * owed[b]]
    <3>1. /\ \A b \in GB : half[b] \in Int /\ owed[b] \in Int /\ most[b] = half[b] + 2 * owed[b]
          /\ \A b \in GB : bscore[b] \in Int /\ paid[b] = (2 * Parts) * bscore[b]
          /\ \A b \in GB : paid[b] \in Int /\ most[b] \in Int /\ paid[b] <= most[b]
          /\ \A b \in GB : half[b] = Parts
          /\ 2 * Parts \in Int /\ Parts \in Int
      BY <2>2, PartsAssumption
    <3> HIDE DEF paid, half, most, GB
    <3>2. SumFunctionOnSet(paid, GB) = (2 * Parts) * P
      BY <2>1, <3>1, SumTimes
    <3>3. SumFunctionOnSet(half, GB) = n * Parts
      BY <2>1, <3>1, SumConst
    <3>4. SumFunctionOnSet(most, GB) = n * Parts + 2 * O
      BY <2>1, <3>1, <3>3, SumLinear
    <3>5. SumFunctionOnSet(paid, GB) <= SumFunctionOnSet(most, GB)
      BY <2>1, <3>1, SumLeq
    <3> HIDE DEF P, O, n
    <3>. QED
      BY <2>1, <2>3, <2>4, <3>2, <3>4, <3>5, PartsAssumption
  <2>6. {t \in Broken : HitsOn(t) \intersect group # {}} = hit
    BY DEF HitsOn
  <2>7. 2 * P <= X + n
    <3> HIDE DEF P, O, X, n
    <3>1. Parts * (2 * P) <= Parts * (X + n)
      BY <2>1, <2>3, <2>4, <2>5, PartsAssumption
    <3>. QED
      BY <2>1, <2>3, <2>4, <3>1, PartsAssumption
  <2> HIDE DEF P, O, W, X, n
  <2>8. 2 * SumFunctionOnSet(rscore, group) <= 2 * W + X + n
    BY <2>1, <2>3, <2>4, <2>7
  <2>. QED
    BY <2>6, <2>8 DEF W, X, n
<1>. QED
  BY <1>1, ScoringInvariance, PTL

(* A breaker that ends with anything broke a candidate with an input of    *)
(* its own that the sanitizer found clean.                                 *)
THEOREM OnlyCleanInputsPay == Spec => []PaidForCleanInputs
<1>1. ScoringInv => PaidForCleanInputs
  <2> SUFFICES ASSUME ScoringInv, phase = "done", NEW b \in Breakers, bscore[b] > 0
               PROVE  \E t \in Broken : broke[t][b] \intersect valid[b] # {}
    BY DEF PaidForCleanInputs
  <2>1. owed[b] = SumFunctionOnSet(Shares, {t \in Broken : b \in HitsOn(t)})
    BY DEF ScoringInv, BountyInv
  <2>2. owed[b] # 0
    <3>1. /\ owed[b] \in Nat /\ Net(b) \in Nat /\ Net(b) <= owed[b] /\ bscore[b] \in Nat
          /\ 2 * (Parts * bscore[b]) <= 2 * Net(b) + Parts
      BY BreakerScore
    <3>2. Parts * bscore[b] >= Parts /\ Parts \in Nat \ {0} /\ Parts * bscore[b] \in Nat
      BY <3>1, PartsAssumption
    <3>. QED
      BY <3>1, <3>2
  <2>3. {t \in Broken : b \in HitsOn(t)} # {}
    BY <2>1, <2>2, SumEmpty
  <2>4. PICK t \in Broken : b \in HitsOn(t)
    BY <2>3
  <2>5. t \in Translators /\ broke[t][b] # {}
    BY <2>4 DEF Broken, HitsOn
  <2>6. broke[t][b] \subseteq valid[b]
    BY <2>5 DEF ScoringInv, ChallengeInv, RunOn
  <2>. QED
    BY <2>5, <2>6
<1>. QED
  BY <1>1, ScoringInvariance, PTL

(* Failures of the harness cost nobody: neither a breaker whose inputs it  *)
(* could not screen, nor anyone when the sanitizer build itself fails.     *)
THEOREM HarnessFailuresCostNothing == Spec => []NotOurFault
<1>1. ScoringInv => NotOurFault
  <2> SUFFICES ASSUME ScoringInv, phase = "done" PROVE NotOurFault
    BY DEF NotOurFault
  <2>1. ASSUME NEW b \in Breakers, submitted[b] = valid[b] \union infra[b]
        PROVE  2 * bscore[b] * Parts + Parts >= 2 * owed[b]
    <3>1. invalid[b] = Cardinality({})
      <4>1. Charged(b, valid[b], infra[b]) = {}
        BY <2>1 DEF Charged
      <4>. QED
        BY <4>1 DEF ScoringInv, ScreenInv
    <3>2. invalid[b] = 0
      BY <3>1, FS_EmptySet
    <3>3. Net(b) = owed[b] /\ owed[b] \in Nat /\ bscore[b] \in Nat
          /\ 2 * Net(b) <= 2 * (Parts * bscore[b]) + Parts
      BY <3>2, BreakerScore
    <3>4. 2 * bscore[b] * Parts = 2 * (Parts * bscore[b]) /\ Parts * bscore[b] \in Nat /\ Parts \in Nat
      BY <3>3, PartsAssumption
    <3>. QED
      BY <3>3, <3>4
  <2>2. ASSUME ~ built, NEW h \in Hotkeys
        PROVE  rscore[h] = IF h \in Translators THEN pre[h] ELSE 0
    <3>1. \A t \in Translators, b \in Breakers : broke[t][b] = {}
      BY <2>2 DEF ScoringInv, ScreenInv, ChallengeInv, RunOn
    <3>2. Broken = {}
      BY <3>1 DEF Broken, HitsOn
    <3>3. ASSUME NEW b \in Breakers PROVE bscore[b] = 0
      <4>1. owed[b] = SumFunctionOnSet(Shares, {})
        <5>1. {t \in Broken : b \in HitsOn(t)} = {}
          BY <3>2
        <5>. QED
          BY <5>1 DEF ScoringInv, BountyInv
      <4>2. /\ owed[b] = 0 /\ Net(b) \in Nat /\ Net(b) <= owed[b] /\ bscore[b] \in Nat
            /\ 2 * (Parts * bscore[b]) <= 2 * Net(b) + Parts
        BY <4>1, SumEmpty, BreakerScore
      <4>3. ~ (bscore[b] >= 1)
        <5> SUFFICES ASSUME bscore[b] >= 1 PROVE FALSE
          OBVIOUS
        <5>1. Parts * bscore[b] >= Parts /\ Parts * bscore[b] \in Nat /\ Parts \in Nat \ {0}
          BY <4>2, PartsAssumption
        <5>. QED
          BY <4>2, <5>1
      <4>. QED
        BY <4>2, <4>3
    <3>4. \A t \in Translators : tscore[t] = pre[t] /\ pre[t] \in Nat
      BY <3>2 DEF ScoringInv, TypeInv, BountyInv, Kept
    <3>. QED
      BY <3>3, <3>4 DEF ScoringInv, AggregateInv
  <2>. QED
    BY <2>1, <2>2 DEF NotOurFault
<1>. QED
  BY <1>1, ScoringInvariance, PTL

=============================================================================
