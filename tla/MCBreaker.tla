----------------------------- MODULE MCBreaker ------------------------------
(* Three inputs of one, two and three bytes: the second can be shrunk to   *)
(* the first, the third to either. An answer has room for two, and two of  *)
(* the inputs are seeds.                                                   *)
EXTENDS Breaker

MCInputs == 1 .. 3
MCSeeds == {1, 3}
MCLength == [i \in MCInputs |-> i]

=============================================================================
