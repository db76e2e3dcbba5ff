---------------------------- MODULE MCValidator ----------------------------
(* Module Validator on a metagraph of two translators and a breaker.       *)
EXTENDS Validator

CONSTANTS t1, t2, b1

MCMeta == <<t1, t2, b1>>
MCTranslators == <<t1, t2>>
MCBreakers == <<b1>>
=============================================================================
