----------------------------- MODULE MCWeights ------------------------------
(* Three miners, whose weights need not add up to 1.0 exactly; scores of    *)
(* nothing and of 8 units, above the 5 at which rounding holds an average. *)
EXTENDS Weights

CONSTANTS h1, h2, h3

MCNeurons == {h1, h2, h3}
MCScores == {0, 8}

=============================================================================
