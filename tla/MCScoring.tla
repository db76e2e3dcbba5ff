----------------------------- MODULE MCScoring ------------------------------
(* Two translators, one of which is also a breaker, and two breakers, with *)
(* two inputs that may pass the screen and one that is too long for it.    *)
EXTENDS Scoring

CONSTANTS alice, bob, carol, i1, i2, big

MCTranslators == {alice, bob}
MCBreakers == {bob, carol}
MCInputs == {i1, i2, big}
MCOversize == {big}

=============================================================================
