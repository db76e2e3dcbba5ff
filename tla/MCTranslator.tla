---------------------------- MODULE MCTranslator ----------------------------
(* Two inputs, on the second of which the C program is undefined or        *)
(* crashes, and a model that may answer with anything a gate tells apart.  *)
(* One repair, and a second request that meets the recordings of the       *)
(* first.                                                                  *)
EXTENDS Translator

MCInputs == 1 .. 2
MCCPrograms == {[ub |-> {2}, crash |-> {}], [ub |-> {}, crash |-> {2}]}

Compiling(S) == [gate |-> "compiles", differs |-> S]
Broken(gate) == [gate |-> gate, differs |-> {}]
MCPrograms == {Compiling({}), Compiling({1, 2}), Broken("rejected"), Broken("banned")}
MCFixture == Compiling({1, 2})

(* Without credentials; a model that is recorded, asked again or first     *)
(* looked up; and the stub of the tests with the same switches.            *)
Client(provider, replay) == [provider |-> provider, record |-> TRUE, replay |-> replay]
MCClients == {Client("none", TRUE), Client("live", FALSE), Client("live", TRUE),
              Client("stub", TRUE)}

MCAxons == <<"gone", "llm", "fixture">>

=============================================================================
