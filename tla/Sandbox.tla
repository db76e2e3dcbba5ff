------------------------------ MODULE Sandbox ------------------------------
(***************************************************************************)
(* What becomes of a breaker's inputs, or of candidates for hidden tests,  *)
(* between sandbox/sandbox_runner.py, sandbox/batch_runner.py, the screen  *)
(* of neurons/scoring.py and that of dataset/hidden_tests.py: the          *)
(* sanitizer build decides which inputs are valid, valid ones are run on   *)
(* the C reference and on a Rust candidate, and the two are compared.      *)
(* The programs are given by what they truly do; the sandbox only sees     *)
(* exit codes and output, and our side may fail at every execution.        *)
(*                                                                         *)
(* Inputs longer than the limit, which no sandbox sees, are in Scoring.    *)
(***************************************************************************)
EXTENDS Integers, FiniteSets

CONSTANTS
    Inputs,     \* inputs a breaker submitted, or candidates
    Outputs,    \* what a program may print
    Capped,     \* Capped[out]: its first max_output_bytes bytes
    Count       \* hidden tests wanted in a round

ASSUME CappedAssumption == Capped \in [Outputs -> Outputs]
ASSUME SomeOutput == Outputs # {}

(* What a program does on an input: exit with a code after some output, be *)
(* killed by a signal (9, as by the kernel when memory runs out), or run   *)
(* on for ever; the last two print nothing.                                *)
Exit(code, out, ends) == [exit |-> code, out |-> out, ends |-> ends]
Silence == CHOOSE out \in Outputs : Capped[out] = out
Codes == {0, 101}
Crash == Exit(-9, Silence, TRUE)
Hang == Exit(-9, Silence, FALSE)
Behaviours == {Exit(code, out, TRUE) : code \in Codes, out \in Outputs}
              \union {Crash, Hang}
ASSUME CountAssumption == Count \in Nat

VARIABLES
    docker,       \* self.use_docker
    ub,           \* inputs on which the C program has undefined behaviour
    c, rust,      \* what the reference and the candidate do on each input
    phase,        \* the step that comes next
    screened,     \* run_sanitizer_precheck's word on each input
    cres, rres,   \* execute_batch's results for reference and candidate
    passed,       \* inputs counted as passed
    divergences,  \* inputs reported as divergences
    ours,         \* executions that did not take place, by our own failure
    late          \* executions that a loaded host did not finish in time

truth == <<docker, ub, c, rust>>
mishaps == <<ours, late>>
vars == <<truth, phase, screened, cres, rres, passed, divergences, mishaps>>

Nothing == [i \in {} |-> "none"]

Init ==
    /\ docker \in BOOLEAN
    /\ ub \in SUBSET Inputs
    /\ c \in [Inputs -> Behaviours]
    /\ rust \in [Inputs -> Behaviours]
    /\ phase = "screen"
    /\ screened = Nothing
    /\ cres = Nothing
    /\ rres = Nothing
    /\ passed = {}
    /\ divergences = {}
    /\ ours = {}
    /\ late = {}

-----------------------------------------------------------------------------
(* One batch of executions.                                                *)

Result(exit, out, timed_out) ==
    [exit |-> exit, out |-> out, timed_out |-> timed_out]

(* run_batch: a program that is not done in time is killed and reported    *)
(* with -9, one that could not be launched in four attempts with -1;       *)
(* output is cut.                                                          *)
Ran(does) == Result(does.exit, Capped[does.out], ~ does.ends)
Killed == Result(-9, Silence, TRUE)
NotLaunched == Result(-1, Silence, FALSE)

(* The container wrote no results at all.                                  *)
NoOutput == Result(-1, Silence, TRUE)

(* Execute the inputs of the domain of `does`: those in `lost` are not     *)
(* launched, those in `slow` not finished. `fate` is the container's, and  *)
(* one that the host kills takes its executions with it.                   *)
Batch(does, lost, slow, fate) ==
    [i \in DOMAIN does |->
        CASE fate = "no output" -> NoOutput
          [] fate = "killed" -> Killed
          [] fate = "ran" /\ i \in lost -> NotLaunched
          [] fate = "ran" /\ i \in slow \ lost -> Killed
          [] OTHER -> Ran(does[i])]

Fates == IF docker THEN {"ran", "no output", "killed"} ELSE {"ran"}

(* Book-keeping of the model: which executions of a batch tell nothing     *)
(* about the program.                                                      *)
Recorded(side, does, lost, slow, fate) ==
    /\ lost \union slow \subseteq DOMAIN does /\ lost \intersect slow = {}
    /\ ours' = ours \union
         ({side} \X IF fate = "ran" THEN lost ELSE DOMAIN does)
    /\ late' = late \union ({side} \X IF fate = "ran" THEN slow ELSE {})

-----------------------------------------------------------------------------
(* run_sanitizer_precheck and the screen of score_round.                   *)

(* Faulty: any exit code will do. *)
Verdict_AnyExit(res, diagnostic) ==
    CASE ~ res.timed_out /\ ~ diagnostic /\ res.exit # -1 -> "clean"
      [] res.exit = -1 /\ ~ res.timed_out -> "infra"
      [] OTHER -> "invalid"

(* Clean: no diagnostic, no timeout, an exit code of the program's own.    *)
Verdict(res, diagnostic) ==
    CASE ~ res.timed_out /\ ~ diagnostic /\ res.exit \in 0 .. 127 -> "clean"
      [] res.exit = -1 /\ ~ res.timed_out -> "infra"
      [] OTHER -> "invalid"

(* The sanitizer build stops with a diagnostic on undefined behaviour and  *)
(* does what the reference does otherwise.                                 *)
Screen(lost, slow, fate) ==
    /\ phase = "screen"
    /\ LET res == Batch(c, lost, slow, fate)
           reported == IF fate = "ran" THEN ub \ (lost \union slow) ELSE {}
       IN  screened' = [i \in Inputs |-> Verdict(res[i], i \in reported)]
    /\ Recorded("san", c, lost, slow, fate)
    /\ phase' = "reference"
    /\ UNCHANGED <<truth, cres, rres, passed, divergences>>

(* The results of a failed build carry no infra_error.                     *)
ScreenBuildFails ==
    /\ phase = "screen"
    /\ screened' = [i \in Inputs |-> "invalid"]
    /\ ours' = {"san"} \X Inputs
    /\ phase' = "reference"
    /\ UNCHANGED <<truth, cres, rres, passed, divergences, late>>

Valid == {i \in Inputs : screened[i] = "clean"}

(* The first clean candidates, in whatever order they were generated.      *)
HiddenTests ==
    {tests \in SUBSET Valid :
        \/ Cardinality(tests) = Count
        \/ Cardinality(tests) < Count /\ tests = Valid}

-----------------------------------------------------------------------------
(* compile_and_test on a breaker's valid inputs or on the hidden tests.    *)

(* Either compiler fails, or there is nothing to test: no divergence.      *)
NoTest ==
    /\ phase = "reference"
    /\ phase' = "done"
    /\ UNCHANGED <<truth, screened, cres, rres, passed, divergences, mishaps>>

On(does, S) == [i \in S |-> does[i]]

RunReference(lost, slow, fate) ==
    /\ phase = "reference"
    /\ \E tests \in (HiddenTests \union {Valid}) \ {{}} :
         /\ cres' = Batch(On(c, tests), lost, slow, fate)
         /\ Recorded("c", On(c, tests), lost, slow, fate)
    /\ phase' = "candidate"
    /\ UNCHANGED <<truth, screened, rres, passed, divergences>>

Tested == DOMAIN cres

RunCandidate(lost, slow, fate) ==
    /\ phase = "candidate"
    /\ rres' = Batch(On(rust, Tested), lost, slow, fate)
    /\ Recorded("rust", On(rust, Tested), lost, slow, fate)
    /\ phase' = "compare"
    /\ UNCHANGED <<truth, screened, cres, passed, divergences>>

(* Faulty: exit -1 is only looked for on the reference. *)
Excluded_ReferenceOnly(i) == cres[i].exit = -1

Excluded(i) ==
    \/ cres[i].exit = -1
    \/ rres[i].exit = -1 /\ ~ rres[i].timed_out

(* Faulty: the output alone is compared. *)
Agree_StdoutOnly(i) == cres[i].out = rres[i].out /\ ~ rres[i].timed_out

Agree(i) ==
    /\ cres[i].out = rres[i].out
    /\ cres[i].exit = rres[i].exit
    /\ ~ rres[i].timed_out

Compare ==
    /\ phase = "compare"
    /\ passed' = {i \in Tested : ~ Excluded(i) /\ Agree(i)}
    /\ divergences' = {i \in Tested : ~ Excluded(i) /\ ~ Agree(i)}
    /\ phase' = "done"
    /\ UNCHANGED <<truth, screened, cres, rres, mishaps>>

Next ==
    \/ \E lost, slow \in SUBSET Inputs, fate \in Fates :
          \/ Screen(lost, slow, fate)
          \/ RunReference(lost, slow, fate)
          \/ RunCandidate(lost, slow, fate)
    \/ ScreenBuildFails
    \/ NoTest
    \/ Compare

Spec == Init /\ [][Next]_vars

-----------------------------------------------------------------------------
(* Properties.                                                             *)

(* "Valid == no sanitizer diagnostic, no crash signal, no timeout": of the *)
(* inputs the sanitizer build ran to its end or to the timeout, clean are  *)
(* exactly those that it neither reports, nor crashes, nor hangs on; the   *)
(* rest is charged for, and so is an input that was only late.             *)
ScreenIsExact ==
    phase # "screen" =>
        \A i \in Inputs :
            <<"san", i>> \notin ours =>
                screened[i] =
                    IF i \in ub \/ c[i] \in {Crash, Hang} \/ <<"san", i>> \in late
                    THEN "invalid" ELSE "clean"

(* On the host toolchain a candidate is broken by real differences only:   *)
(* both programs ran, on an input without undefined behaviour, and the     *)
(* candidate did something else than C. In particular a faithful           *)
(* translation is never broken, whatever fails to launch, unless one of    *)
(* the two was late.                                                       *)
BrokenMeansDiffers ==
    ~ docker =>
        \A i \in divergences :
            /\ <<"rust", i>> \notin ours /\ <<"c", i>> \notin ours
            /\ i \notin ub
            /\ rust[i] # c[i] \/ <<"rust", i>> \in late \/ <<"c", i>> \in late

(* An input is passed only if both programs ran on it, the candidate to    *)
(* its end, and agree in exit code and in as much output as the sandbox    *)
(* keeps, in a container too; a reference that was killed for our reasons  *)
(* can only be matched by a candidate that is killed for its own.          *)
PassedMeansAgrees ==
    \A i \in passed :
        /\ <<"rust", i>> \notin ours \union late
        /\ \/ /\ <<"c", i>> \notin ours \union late
              /\ rust[i].exit = c[i].exit
              /\ Capped[rust[i].out] = Capped[c[i].out]
           \/ /\ <<"c", i>> \in ours \union late
              /\ rust[i] = Crash

(* An input was tested, and both programs ran on it in time.               *)
FairlyTested(i) ==
    /\ phase = "done" /\ i \in Tested
    /\ \A side \in {"c", "rust"} : <<side, i>> \notin ours \union late

(* A candidate that does what C does passes each test that ran.            *)
FaithfulPasses ==
    \A i \in Inputs : FairlyTested(i) /\ rust[i] = c[i] => i \in passed

(* One that does not, within the output that is kept, fails it.            *)
DifferenceIsSeen ==
    \A i \in Inputs :
        FairlyTested(i) /\ (rust[i].exit # c[i].exit \/ Capped[rust[i].out] # Capped[c[i].out])
        => i \in divergences

(* "never count it as a pass or as a divergence": an execution that our    *)
(* harness did not get to run.                                             *)
LaunchFailureExcluded ==
    \A i \in Inputs :
        <<"rust", i>> \in ours => i \notin passed \union divergences

=============================================================================
